-------------------------- MODULE TokenRefreshProofs --------------------------
(***************************************************************************)
(* Proofs about TokenRefresh, for any number of refreshers and rotations:  *)
(* typing, and that the refresh token of the row stays the live one and is *)
(* presented once, whatever partial failures the chain of credentials has. *)
(* The second part assumes a JWT without a refresh token: with one, the    *)
(* fallback of the cookie protocol drops the account whose token it rotated*)
(* if upstream has no provider token for it.                               *)
(* The third part proves that refreshes exclude each other, and that       *)
(* together they implement RefreshChain.                                   *)
(***************************************************************************)
EXTENDS TokenRefresh, TLAPS

\* What the proofs use of the constants.
LEMMA ConstantFacts ==
  /\ NoOne \notin Refresher
  /\ MaxRotations \in Nat /\ 0 \in Token /\ 1 \in Token
  /\ Blank \in Row
BY RefreshAssumption DEF Token, Row, Blank

\* What an exchange hands back.
Outcome == [account : Row, ok : BOOLEAN, live : Token, lost : BOOLEAN,
            reused : BOOLEAN]

\* Failure and Success are outcomes.
LEMMA PlainOutcomes ==
  ASSUME NEW a \in Row, live \in Token
  PROVE  Failure(a) \in Outcome /\ Success(a) \in Outcome
BY DEF Failure, Success, Outcome

\* RefreshSupabase hands back an account, a live token and flags.
LEMMA SupabaseOutcomes ==
  ASSUME NEW a \in Row, live \in Token, NEW o \in RefreshSupabase(a)
  PROVE  o \in Outcome
<1> USE ConstantFacts
<1>1. Failure(a) \in Outcome BY PlainOutcomes
<1>2. CASE o \in {Failure(a), [Failure(a) EXCEPT !.reused = (a.rt # live)]}
  BY <1>1, <1>2 DEF Outcome
<1>3. CASE live < MaxRotations /\ o = [Failure(a) EXCEPT !.live = live + 1, !.lost = TRUE]
  <2>1. live + 1 \in Token BY <1>3 DEF Token
  <2> QED BY <1>1, <1>3, <2>1 DEF Outcome
<1>4. ASSUME live < MaxRotations, NEW pt \in BOOLEAN, NEW prt \in BOOLEAN,
             o = Rotated(a, pt, prt)
      PROVE  o \in Outcome
  <2> DEFINE b == [a EXCEPT !.rt = live + 1, !.pt = @ \/ pt, !.prt = @ \/ prt,
                            !.exp = "future"]
             c == IF b.pt THEN [b EXCEPT !.bearer = TRUE, !.jar = live + 1] ELSE b
  <2>1. live + 1 \in Token BY <1>4 DEF Token
  <2>2. b \in Row /\ [b EXCEPT !.bearer = TRUE, !.jar = live + 1] \in Row
    BY <2>1 DEF Row
  <2>3. b.pt \in BOOLEAN /\ c \in Row BY <2>2 DEF Row
  <2>4. o = [Success(c) EXCEPT !.ok = b.pt, !.live = live + 1]
    BY <1>4 DEF Rotated
  <2> HIDE DEF c
  <2>5. Success(c) \in Outcome BY <2>3, PlainOutcomes
  <2> QED BY <2>1, <2>3, <2>4, <2>5 DEF Outcome
<1>5. live = MaxRotations \/ live < MaxRotations BY DEF Token
<1> QED BY <1>2, <1>3, <1>4, <1>5 DEF RefreshSupabase

\* So do the other two methods.
LEMMA ExchangeOutcomes ==
  ASSUME NEW a \in Row, live \in Token, NEW method \in Methods,
         NEW o \in Exchange(method, a)
  PROVE  o \in Outcome
<1> USE ConstantFacts
<1>1. CASE method = "supabase"
  BY <1>1, SupabaseOutcomes DEF Exchange
<1>2. CASE method = "provider"
  <2>1. [a EXCEPT !.pt = TRUE, !.bearer = TRUE] \in Row /\ [a EXCEPT !.pt = TRUE] \in Row
    BY DEF Row
  <2> QED BY <1>2, <2>1, PlainOutcomes DEF Exchange, RefreshWithProvider
<1>3. CASE method = "session"
  <2>1. CASE o \in SessionAnswers(a)
    <3>1. PICK rt \in {a.rt, live}, pt \in BOOLEAN, prt \in BOOLEAN, ok \in BOOLEAN,
               exp \in {a.exp, "future", "unknown"} :
            o = Answered(a, rt, pt, prt, ok, exp)
      BY <2>1 DEF SessionAnswers
    <3> DEFINE b == [a EXCEPT !.rt = rt, !.pt = @ \/ pt, !.prt = @ \/ prt,
                              !.bearer = @ \/ ok, !.exp = IF ok THEN exp ELSE @]
    <3>2. b \in Row
      <4>1. rt \in Token /\ exp \in {"unknown", "future", "past"} BY DEF Row
      <4>2. (a.pt \/ pt) \in BOOLEAN /\ (a.prt \/ prt) \in BOOLEAN
            /\ (a.bearer \/ ok) \in BOOLEAN
        OBVIOUS
      <4>3. (IF ok THEN exp ELSE a.exp) \in {"unknown", "future", "past"}
        BY <4>1 DEF Row
      <4> QED BY <4>1, <4>2, <4>3 DEF Row
    <3>3. Failure(b) \in Outcome BY <3>2, PlainOutcomes
    <3>4. o = [Failure(b) EXCEPT !.ok = ok] BY <3>1 DEF Answered
    <3> HIDE DEF b
    <3> QED BY <3>3, <3>4 DEF Outcome
  <2>2. CASE o \in SessionFails(a)
    <3> DEFINE b == [a EXCEPT !.bearer = TRUE]
               c == [b EXCEPT !.rt = a.jar]
    <3>1. b \in Row /\ c \in Row BY DEF Row
    <3>2. CASE o \in {Failure(a), Failure(b), Success(b)}
      BY <3>1, <3>2, PlainOutcomes
    <3>3. ASSUME NEW x \in RefreshSupabase(c),
                 o = IF x.ok THEN x ELSE [x EXCEPT !.account = c]
          PROVE  o \in Outcome
      <4>1. x \in Outcome BY <3>1, SupabaseOutcomes
      <4> QED BY <3>1, <3>3, <4>1 DEF Outcome
    <3> QED BY <2>2, <3>2, <3>3 DEF SessionFails
  <2> QED BY <1>3, <2>1, <2>2 DEF Exchange, RefreshFromCookies
<1> QED BY <1>1, <1>2, <1>3 DEF Methods

\* The initial states are well typed.
LEMMA InitTypeOK == Init => TypeOK
BY ConstantFacts DEF Init, TypeOK, Steps

\* Every step keeps the types.
LEMMA NextTypeOK == TypeOK /\ [Next]_vars => TypeOK'
<1> SUFFICES ASSUME TypeOK, [Next]_vars PROVE TypeOK'
  OBVIOUS
<1> USE ConstantFacts
<1>0. \A a \in Row : FirstMethod(a) \in Steps
  BY DEF FirstMethod, Steps, Methods
<1>1. ASSUME NEW p \in Refresher, Begin(p) PROVE TypeOK'
  BY <1>1 DEF Begin, TypeOK, Steps
<1>2. ASSUME NEW p \in Refresher, Lock(p) PROVE TypeOK'
  BY <1>2 DEF Lock, TypeOK, Steps
<1>3. ASSUME NEW p \in Refresher, Finish(p)
      PROVE  /\ lock' \in Refresher \cup {NoOne} /\ pc' \in [Refresher -> Steps]
             /\ canceled' \in [Refresher -> BOOLEAN]
             /\ seen' \in [Refresher -> Row] /\ copy' \in [Refresher -> Row]
  <2>2. seen' \in [Refresher -> Row] /\ copy' \in [Refresher -> Row]
    BY <1>3 DEF Finish, TypeOK
  <2> QED BY <1>3, <2>2 DEF Finish, TypeOK, Steps
<1>4. ASSUME NEW p \in Refresher, Read(p) PROVE TypeOK'
  <2>1. CASE canceled[p] BY <1>3, <1>4, <2>1 DEF Read, TypeOK
  <2>2. CASE ~canceled[p]
    <3>1. seen' \in [Refresher -> Row] /\ copy' \in [Refresher -> Row]
      BY <1>4, <2>2 DEF Read, TypeOK
    <3>2. pc' \in [Refresher -> Steps] BY <1>0, <1>4, <2>2 DEF Read, TypeOK
    <3> QED BY <1>4, <2>2, <3>1, <3>2 DEF Read, TypeOK
  <2> QED BY <2>1, <2>2
<1>5. ASSUME NEW p \in Refresher, NEW method \in Methods, Try(p, method) PROVE TypeOK'
  <2>1. PICK o \in Exchange(method, copy[p]) :
          /\ copy' = [copy EXCEPT ![p] = o.account]
          /\ live' = o.live
          /\ lost' = (lost \/ o.lost)
          /\ reused' = (reused \/ o.reused)
          /\ pc' = [pc EXCEPT ![p] = NextMethod(method, o)]
    BY <1>5 DEF Try
  <2>2. o \in Outcome BY ExchangeOutcomes DEF TypeOK
  <2>3. copy' \in [Refresher -> Row] /\ live' \in Token
        /\ lost' \in BOOLEAN /\ reused' \in BOOLEAN
    BY <2>1, <2>2 DEF Outcome, TypeOK
  <2>4. NextMethod(method, o) \in Steps BY DEF NextMethod, Steps, Methods
  <2>5. pc' \in [Refresher -> Steps] BY <2>1, <2>4 DEF TypeOK
  <2> QED BY <1>5, <2>3, <2>5 DEF Try, TypeOK
<1>6. ASSUME NEW p \in Refresher, StoreSuccess(p) PROVE TypeOK'
  <2>1. [copy[p] EXCEPT !.jar = IF @ = 0 THEN row.jar ELSE @] \in Row
    BY DEF TypeOK, Row
  <2>2. row' \in Row /\ lost' \in BOOLEAN
    BY <1>6, <2>1 DEF StoreSuccess, Write, TypeOK
  <2> QED BY <1>3, <1>6, <2>2 DEF StoreSuccess, TypeOK
<1>7. ASSUME NEW p \in Refresher, StoreFailure(p) PROVE TypeOK'
  <2>1. copy[p] \in Row /\ seen[p] \in Row /\ row \in Row BY DEF TypeOK
  <2>2. [row EXCEPT !.rt = Changed(p, "rt"), !.pt = Changed(p, "pt"),
                    !.prt = Changed(p, "prt"), !.bearer = Changed(p, "bearer"),
                    !.exp = IF copy[p].exp # "unknown" THEN copy[p].exp ELSE @] \in Row
    BY <2>1 DEF Changed, Row
  <2>3. row' \in Row /\ lost' \in BOOLEAN
    BY <1>7, <2>2 DEF StoreFailure, Write, TypeOK
  <2> QED BY <1>3, <1>7, <2>3 DEF StoreFailure, TypeOK
<1>8. ASSUME NEW p \in Refresher, Cancel(p) PROVE TypeOK'
  BY <1>8 DEF Cancel, TypeOK
<1>9. CASE EditRead BY <1>9 DEF EditRead, TypeOK
<1>10. CASE EditWrite BY <1>10 DEF EditWrite, TypeOK
<1>11. CASE Expire
  <2>1. \A a \in Row : Passed(a) \in Row BY DEF Passed, Row
  <2>2. row' \in Row /\ edit' \in Row \cup {NoOne}
    BY <1>11, <2>1 DEF Expire, TypeOK
  <2>3. seen' \in [Refresher -> Row] /\ copy' \in [Refresher -> Row]
    BY <1>11, <2>1 DEF Expire, TypeOK
  <2> QED BY <1>11, <2>2, <2>3 DEF Expire, TypeOK
<1>12. CASE Crash
  <2>2. seen' \in [Refresher -> Row] /\ copy' \in [Refresher -> Row]
    BY <1>12 DEF Crash
  <2>3. row' \in Row
    BY <1>12, ConstantFacts DEF Crash, Reseeded, TypeOK, Row, Token
  <2>4. lost' \in BOOLEAN
    BY <1>12 DEF Crash, TypeOK
  <2> QED BY <1>12, <2>2, <2>3, <2>4 DEF Crash, TypeOK, Steps
<1>13. CASE UNCHANGED vars BY <1>13 DEF vars, TypeOK
<1> QED
  BY <1>1, <1>2, <1>4, <1>5, <1>6, <1>7, <1>8, <1>9, <1>10, <1>11, <1>12, <1>13
  DEF Next, Refresh

\* The variables keep their types in every reachable state.
THEOREM TypeCorrect == Spec => []TypeOK
<1>1. Init => TypeOK BY InitTypeOK
<1>2. TypeOK /\ [Next]_vars => TypeOK' BY NextTypeOK
<1> QED BY <1>1, <1>2, PTL DEF Spec
-----------------------------------------------------------------------------
(* The token.  What the two properties need beside themselves: who holds    *)
(* the lock, and that a refresher under way read the row as it still is and *)
(* carries nothing but the row's token or the live one.                     *)

\* Steps with a copy of the row in hand, and steps under the lock.
WithCopy == Methods \cup {"storing", "failing"}
Holding == WithCopy \cup {"reading"}

LockInvariant == \A p \in Refresher : pc[p] \in Holding <=> lock = p

TokenInvariant ==
  ~lost =>
    /\ ~reused
    /\ \A p \in Refresher : pc[p] \in WithCopy =>
         /\ copy[p].rt \in {0, live}
         /\ seen[p].rt = row.rt
         /\ pc[p] = "supabase" => copy[p].rt # 0
    /\ (\A p \in Refresher : pc[p] \in WithCopy => copy[p].rt = row.rt)
         => row.rt \in {0, live}

IInv == TypeOK /\ LockInvariant /\ TokenInvariant

\* The mutex admits one refresher between its lock and its unlock.
LEMMA NextLockInvariant ==
  ASSUME TypeOK, LockInvariant, [Next]_vars
  PROVE  LockInvariant'
<1> USE ConstantFacts DEF LockInvariant
<1>0. \A a : FirstMethod(a) \in WithCopy
  BY DEF FirstMethod, WithCopy, Methods
<1>1. ASSUME NEW p \in Refresher, Finish(p), pc[p] \in Holding PROVE LockInvariant'
  BY <1>1 DEF Finish, TypeOK, Holding, WithCopy, Methods
<1>2. ASSUME NEW p \in Refresher, Begin(p) \/ Lock(p) PROVE LockInvariant'
  BY <1>2 DEF Begin, Lock, TypeOK, Holding, WithCopy, Methods
<1>3. ASSUME NEW p \in Refresher, Read(p) PROVE LockInvariant'
  <2>1. CASE canceled[p] BY <1>1, <1>3, <2>1 DEF Read, Holding
  <2>2. CASE ~canceled[p]
    BY <1>0, <1>3, <2>2 DEF Read, TypeOK, Holding
  <2> QED BY <2>1, <2>2
<1>4. ASSUME NEW p \in Refresher, NEW method \in Methods, Try(p, method)
      PROVE  LockInvariant'
  <2>1. \A o : NextMethod(method, o) \in WithCopy
    BY DEF NextMethod, WithCopy, Methods
  <2>2. PICK o : pc' = [pc EXCEPT ![p] = NextMethod(method, o)] BY <1>4 DEF Try
  <2>3. pc[p] \in Holding /\ lock' = lock BY <1>4 DEF Try, Holding, WithCopy
  <2> QED BY <2>1, <2>2, <2>3 DEF TypeOK, Holding
<1>5. ASSUME NEW p \in Refresher, StoreSuccess(p) \/ StoreFailure(p)
      PROVE  LockInvariant'
  BY <1>1, <1>5 DEF StoreSuccess, StoreFailure, Holding, WithCopy
<1>6. CASE Crash BY <1>6 DEF Crash, Holding, WithCopy, Methods
<1>7. ASSUME pc' = pc, lock' = lock PROVE LockInvariant' BY <1>7
<1> QED
  BY <1>2, <1>3, <1>4, <1>5, <1>6, <1>7
  DEF Next, Refresh, Cancel, EditRead, EditWrite, Expire, vars

\* An exchange that loses nothing presents no spent token.  It hands back the
\* token it was given, or the live one, or the live one's successor if it was
\* given the live one.
LEMMA ExchangeTokens ==
  ASSUME ~TokenInJwt, NEW a \in Row, live \in Token, a.rt \in {0, live},
         NEW method \in Methods, method = "supabase" => a.rt # 0,
         NEW o \in Exchange(method, a), ~o.lost
  PROVE  /\ ~o.reused
         /\ \/ o.live = live /\ o.account.rt \in {a.rt, live}
            \/ a.rt = live /\ o.live = live + 1 /\ o.account.rt = live + 1
<1> USE ConstantFacts
<1> DEFINE Goal == /\ ~o.reused
                   /\ \/ o.live = live /\ o.account.rt \in {a.rt, live}
                      \/ a.rt = live /\ o.live = live + 1 /\ o.account.rt = live + 1
<1>1. CASE method = "supabase"
  <2>1. a.rt = live /\ o \in RefreshSupabase(a) BY <1>1 DEF Exchange
  <2>2. CASE o \in {Failure(a), [Failure(a) EXCEPT !.reused = (a.rt # live)]}
    BY <2>1, <2>2 DEF Failure, Success
  <2>3. CASE o = [Failure(a) EXCEPT !.live = live + 1, !.lost = TRUE]
    BY <2>3 DEF Failure, Success
  <2>4. ASSUME NEW pt \in BOOLEAN, NEW prt \in BOOLEAN, o = Rotated(a, pt, prt)
        PROVE  Goal
    <3>1. o.live = live + 1 /\ o.account.rt = live + 1 /\ ~o.reused
      BY <2>4 DEF Rotated, Success, Row
    <3> QED BY <2>1, <3>1
  <2> QED BY <2>1, <2>2, <2>3, <2>4 DEF RefreshSupabase
<1>2. CASE method = "provider"
  <2>1. o \in {Failure(a), Success([a EXCEPT !.pt = TRUE, !.bearer = TRUE]),
               Failure([a EXCEPT !.pt = TRUE])}
    <3>1. o \in RefreshWithProvider(a) BY <1>2 DEF Exchange
    <3>2. \A S, T : o \in S \cup (IF a.prt THEN T ELSE {}) => o \in S \/ o \in T
      OBVIOUS
    <3>3. \/ o \in {Failure(a), Success([a EXCEPT !.pt = TRUE, !.bearer = TRUE])}
          \/ o \in {Failure([a EXCEPT !.pt = TRUE])}
      BY <3>1, <3>2, Zenon DEF RefreshWithProvider
    <3> QED BY <3>3, Zenon
  <2>2. CASE o = Failure(a) BY <2>2 DEF Failure, Success
  <2>3. CASE o = Success([a EXCEPT !.pt = TRUE, !.bearer = TRUE])
    BY <2>3 DEF Success, Row
  <2>4. CASE o = Failure([a EXCEPT !.pt = TRUE])
    BY <2>4 DEF Failure, Success, Row
  <2> QED BY <2>1, <2>2, <2>3, <2>4
<1>3. CASE method = "session"
  <2>1. CASE o \in SessionAnswers(a)
    <3>1. PICK rt \in {a.rt, live}, pt \in BOOLEAN, prt \in BOOLEAN, ok \in BOOLEAN,
               exp \in {a.exp, "future", "unknown"} :
            o = Answered(a, rt, pt, prt, ok, exp)
      BY <2>1 DEF SessionAnswers
    <3> QED BY <3>1 DEF Answered, Failure, Success, Row
  <2>2. CASE o \in SessionFails(a)
    <3>1. o \in {Failure(a), Failure([a EXCEPT !.bearer = TRUE]),
                 Success([a EXCEPT !.bearer = TRUE])}
      BY <2>2 DEF SessionFails
    <3> QED BY <3>1 DEF Failure, Success, Row
  <2> QED BY <1>3, <2>1, <2>2 DEF Exchange, RefreshFromCookies
<1> QED BY <1>1, <1>2, <1>3 DEF Methods

\* A refresher alone with a copy returns, and leaves a token of its own or the
\* row's: then the row's is live or empty.
LEMMA FinishKeepsToken ==
  ASSUME IInv, TypeOK', NEW p \in Refresher, Finish(p), pc[p] \in Holding,
         ~lost' => ~lost /\ ~reused' /\ row'.rt \in {0, live'}
  PROVE  TokenInvariant'
<1>1. \A q \in Refresher : pc'[q] \notin WithCopy
  BY DEF IInv, LockInvariant, Finish, TypeOK, Holding, WithCopy, Methods
<1> QED BY <1>1 DEF TokenInvariant

\* Every step keeps the token invariant.
LEMMA NextTokenInvariant ==
  ASSUME ~TokenInJwt, IInv, [Next]_vars
  PROVE  TokenInvariant'
<1>0. TypeOK /\ TypeOK' /\ LockInvariant /\ LockInvariant' /\ TokenInvariant
  BY NextTypeOK, NextLockInvariant DEF IInv
<1>1. \A p, q \in Refresher : pc[p] \in WithCopy /\ pc[q] \in WithCopy => p = q
  BY <1>0 DEF LockInvariant, Holding
<1>2. ASSUME NEW p \in Refresher, Begin(p) \/ Lock(p) PROVE TokenInvariant'
  <2>1. \A q \in Refresher : /\ pc'[q] \in WithCopy <=> pc[q] \in WithCopy
                             /\ pc'[q] = "supabase" <=> pc[q] = "supabase"
    BY <1>0, <1>2 DEF Begin, Lock, TypeOK, WithCopy, Methods
  <2> QED BY <1>0, <1>2, <2>1 DEF Begin, Lock, TokenInvariant
<1>3. ASSUME NEW p \in Refresher, Read(p) PROVE TokenInvariant'
  <2>1. pc[p] \in Holding /\ pc[p] \notin WithCopy
    BY <1>3 DEF Read, Holding, WithCopy, Methods
  <2>2. \A q \in Refresher : pc[q] \notin WithCopy
    BY <1>0, <2>1 DEF LockInvariant, Holding
  <2>3. ~lost => row.rt \in {0, live} BY <1>0, <2>2 DEF TokenInvariant
  <2>4. CASE canceled[p]
    <3>1. Finish(p) /\ row' = row /\ live' = live /\ lost' = lost /\ reused' = reused
      BY <1>3, <2>4 DEF Read
    <3> QED BY <1>0, <2>1, <2>3, <3>1, FinishKeepsToken DEF IInv, TokenInvariant
  <2>5. CASE ~canceled[p]
    <3>1. /\ copy'[p] = row /\ seen'[p] = row /\ pc'[p] = FirstMethod(row)
          /\ \A q \in Refresher \ {p} : pc'[q] \notin WithCopy
      BY <1>0, <1>3, <2>2, <2>5 DEF Read, TypeOK
    <3>2. FirstMethod(row) = "supabase" => row.rt # 0 BY DEF FirstMethod
    <3>3. row' = row /\ live' = live /\ lost' = lost /\ reused' = reused
      BY <1>3 DEF Read
    <3> QED BY <1>0, <2>3, <3>1, <3>2, <3>3 DEF TokenInvariant
  <2> QED BY <2>4, <2>5
<1>4. ASSUME NEW p \in Refresher, NEW method \in Methods, Try(p, method)
      PROVE  TokenInvariant'
  <2> SUFFICES ASSUME ~lost' PROVE TokenInvariant'
    BY DEF TokenInvariant
  <2>1. PICK o \in Exchange(method, copy[p]) :
          /\ copy' = [copy EXCEPT ![p] = o.account]
          /\ live' = o.live
          /\ lost' = (lost \/ o.lost)
          /\ reused' = (reused \/ o.reused)
          /\ pc' = [pc EXCEPT ![p] = NextMethod(method, o)]
    BY <1>4 DEF Try
  <2>2. pc[p] = method /\ pc[p] \in WithCopy /\ row' = row /\ seen' = seen
    BY <1>4 DEF Try, WithCopy
  <2>3. ~lost /\ ~o.lost BY <2>1
  <2>4. /\ copy[p].rt \in {0, live} /\ seen[p].rt = row.rt
        /\ method = "supabase" => copy[p].rt # 0
    BY <1>0, <2>2, <2>3 DEF TokenInvariant
  <2>5. copy[p] \in Row /\ live \in Token BY <1>0 DEF TypeOK
  <2>6. o.account.rt \in {0, o.live} /\ ~o.reused
    BY <2>1, <2>3, <2>4, <2>5, ExchangeTokens
  <2>7. /\ copy'[p].rt \in {0, live'} /\ seen'[p].rt = row'.rt
        /\ pc'[p] # "supabase" /\ pc'[p] \in WithCopy
    BY <1>0, <2>1, <2>2, <2>4, <2>6
    DEF TypeOK, NextMethod, WithCopy, Methods
  <2>8. \A q \in Refresher \ {p} : pc'[q] \notin WithCopy
    BY <1>0, <1>1, <2>1, <2>2 DEF TypeOK
  <2>9. ~reused' BY <1>0, <2>1, <2>3, <2>6 DEF TokenInvariant
  <2> QED BY <2>7, <2>8, <2>9 DEF TokenInvariant
<1>5. ASSUME NEW p \in Refresher, StoreSuccess(p) \/ StoreFailure(p)
      PROVE  TokenInvariant'
  <2>1. Finish(p) /\ pc[p] \in WithCopy /\ live' = live /\ reused' = reused
    BY <1>5 DEF StoreSuccess, StoreFailure, WithCopy
  <2>2. lost => lost' BY <1>0, <1>5 DEF StoreSuccess, StoreFailure, Write, TypeOK
  <2>3. ASSUME ~lost' PROVE row'.rt \in {0, live'}
    <3>1. copy[p].rt \in {0, live} /\ seen[p].rt = row.rt
      BY <1>0, <2>1, <2>2, <2>3 DEF TokenInvariant
    <3>2. copy[p] \in Row /\ row \in Row /\ seen[p] \in Row BY <1>0 DEF TypeOK
    <3>3. CASE UNCHANGED row /\ lost' = (lost \/ copy[p].rt # seen[p].rt)
      BY <2>1, <2>3, <3>1, <3>3
    <3>4. CASE row' = [copy[p] EXCEPT !.jar = IF @ = 0 THEN row.jar ELSE @]
      BY <2>1, <3>1, <3>2, <3>4 DEF Row
    <3>5. CASE row' = [row EXCEPT !.rt = Changed(p, "rt"), !.pt = Changed(p, "pt"),
                        !.prt = Changed(p, "prt"), !.bearer = Changed(p, "bearer"),
                        !.exp = IF copy[p].exp # "unknown" THEN copy[p].exp ELSE @]
      <4>1. row'.rt = Changed(p, "rt") BY <3>2, <3>5 DEF Row
      <4>2. Changed(p, "rt") = copy[p].rt BY <3>1 DEF Changed
      <4> QED BY <2>1, <3>1, <4>1, <4>2
    <3> QED BY <1>5, <3>3, <3>4, <3>5 DEF StoreSuccess, StoreFailure, Write
  <2>4. ~lost' => ~reused' BY <1>0, <2>1, <2>2 DEF TokenInvariant
  <2> QED BY <1>0, <2>1, <2>2, <2>3, <2>4, FinishKeepsToken DEF IInv, Holding
<1>6. CASE EditWrite
  <2>1. ~lost' => ~lost /\ row'.rt = row.rt BY <1>0, <1>6 DEF EditWrite, TypeOK
  <2> QED BY <1>0, <1>6, <2>1 DEF EditWrite, TokenInvariant
<1>7. CASE Expire
  <2>1. \A a \in Row : Passed(a).rt = a.rt BY DEF Passed, Row
  <2>2. row'.rt = row.rt BY <1>0, <1>7, <2>1 DEF Expire, TypeOK
  <2>3. \A p \in Refresher : seen'[p].rt = seen[p].rt /\ copy'[p].rt = copy[p].rt
    BY <1>0, <1>7, <2>1 DEF Expire, TypeOK
  <2> QED BY <1>0, <1>7, <2>2, <2>3 DEF Expire, TokenInvariant
<1>8. CASE Crash
  <2> SUFFICES ASSUME ~lost' PROVE TokenInvariant'
    BY DEF TokenInvariant
  <2>1. ~lost /\ row'.rt \in {row.rt, live}
    BY <1>8 DEF Crash
  <2>2. row'.rt \in {0, live}
    BY <1>0, <1>8, <2>1 DEF TokenInvariant, Crash
  <2>3. \A p \in Refresher : pc'[p] \notin WithCopy
    BY <1>8 DEF Crash, WithCopy, Methods
  <2> QED BY <1>0, <1>8, <2>1, <2>2, <2>3 DEF Crash, TokenInvariant
<1>9. CASE UNCHANGED <<row, live, pc, seen, copy, lost, reused>>
  BY <1>0, <1>9 DEF TokenInvariant
<1> QED
  BY <1>2, <1>3, <1>4, <1>5, <1>6, <1>7, <1>8, <1>9
  DEF Next, Refresh, Cancel, EditRead, vars

\* The invariant of the two theorems.
LEMMA InductiveInvariant == ASSUME ~TokenInJwt PROVE Spec => []IInv
<1>1. Init => IInv
  <2> SUFFICES ASSUME Init PROVE IInv
    OBVIOUS
  <2>1. \A p \in Refresher : pc[p] \notin Holding /\ lock # p
    BY ConstantFacts DEF Init, Holding, WithCopy, Methods
  <2>2. row.rt \in {0, live}
    BY ConstantFacts DEF Init, Row, Token
  <2> QED
    BY InitTypeOK, <2>1, <2>2
    DEF Init, IInv, LockInvariant, TokenInvariant, Holding
<1>2. IInv /\ [Next]_vars => IInv'
  BY NextTypeOK, NextLockInvariant, NextTokenInvariant DEF IInv
<1> QED BY <1>1, <1>2, PTL DEF Spec

\* Unless a rotation is lost, the row of an account nobody refreshes holds the
\* live refresh token (or none), however the chain of credentials failed.
THEOREM TokenIsKept == ASSUME ~TokenInJwt PROVE Spec => []RotatedTokenIsKept
<1>1. IInv => RotatedTokenIsKept
  <2> SUFFICES ASSUME IInv, lock = NoOne, ~lost PROVE row.rt \in {0, live}
    BY DEF RotatedTokenIsKept
  <2>1. \A p \in Refresher : pc[p] \notin WithCopy
    BY ConstantFacts DEF IInv, LockInvariant, Holding
  <2> QED BY <2>1 DEF IInv, TokenInvariant
<1> QED BY <1>1, InductiveInvariant, PTL

\* Unless a rotation is lost, no refresh token is presented after it was spent.
THEOREM TokenIsSpentOnce == ASSUME ~TokenInJwt PROVE Spec => []NoTokenIsSpentTwice
<1>1. IInv => NoTokenIsSpentTwice
  BY DEF IInv, TokenInvariant, NoTokenIsSpentTwice
<1> QED BY <1>1, InductiveInvariant, PTL
-----------------------------------------------------------------------------
(* One refresh at a time, and the refreshing of an account as RefreshChain   *)
(* tells it: no lock, no copies, one token that is replaced in one step.     *)

\* One refresher at most is between Lock and Finish, and a lock that is taken has
\* a holder who is there: no path out of RefreshAccount forgets the unlock.
OneRefreshAtATime ==
  /\ \A p, q \in Refresher : pc[p] \in Holding /\ pc[q] \in Holding => p = q
  /\ lock # NoOne => pc[lock] \in Holding

\* Refreshers exclude each other, and never leave the lock behind, through cancelled
\* contexts, failures and crashes, and whatever the JWT carries.
THEOREM RefreshesExclude == Spec => []OneRefreshAtATime
<1>1. Init => LockInvariant
  BY ConstantFacts DEF Init, LockInvariant, Holding, WithCopy, Methods
<1>2. TypeOK /\ LockInvariant => OneRefreshAtATime
  BY DEF LockInvariant, OneRefreshAtATime, TypeOK
<1>3. TypeOK /\ LockInvariant /\ [Next]_vars => TypeOK' /\ LockInvariant'
  BY NextTypeOK, NextLockInvariant
<1> QED BY <1>1, <1>2, <1>3, InitTypeOK, PTL DEF Spec

\* The token the account has: the one its refresher carries, if there is one.
carried ==
  IF lock # NoOne /\ pc[lock] \in WithCopy THEN copy[lock].rt ELSE row.rt

Chain == INSTANCE RefreshChain WITH held <- carried
ImplementsChain == Chain!Spec

\* Rotations move the live token on by one, whatever method and outcome.
LEMMA LiveMovesOn ==
  ASSUME TypeOK, [Next]_vars
  PROVE  live' \in {live, live + 1} /\ (lost => lost')
<1>1. ASSUME NEW a \in Row, NEW o \in RefreshSupabase(a)
      PROVE  o.live \in {live, live + 1}
  <2>1. CASE o \in {Failure(a), [Failure(a) EXCEPT !.reused = (a.rt # live)]}
    BY <2>1 DEF Failure, Success
  <2>2. CASE o = [Failure(a) EXCEPT !.live = live + 1, !.lost = TRUE]
    BY <2>2 DEF Failure, Success
  <2>3. CASE \E pt, prt \in BOOLEAN : o = Rotated(a, pt, prt)
    BY <2>3 DEF Rotated, Success
  <2> QED BY <2>1, <2>2, <2>3 DEF RefreshSupabase
<1>2. ASSUME NEW a \in Row, NEW method \in Methods, NEW o \in Exchange(method, a)
      PROVE  o.live \in {live, live + 1}
  <2>1. CASE method = "supabase"
    BY <1>1, <2>1 DEF Exchange
  <2>2. CASE method = "provider"
    <3>1. o \in RefreshWithProvider(a)
      BY <2>2 DEF Exchange
    <3>2. \E b : o = Failure(b) \/ o = Success(b)
      <4>1. CASE a.prt
        BY <3>1, <4>1 DEF RefreshWithProvider
      <4>2. CASE ~a.prt
        BY <3>1, <4>2 DEF RefreshWithProvider
      <4> QED BY <4>1, <4>2
    <3> QED BY <3>2 DEF Failure, Success
  <2>3. CASE o \in SessionAnswers(a)
    <3>1. PICK rt \in {a.rt, live}, pt \in BOOLEAN, prt \in BOOLEAN, ok \in BOOLEAN,
               exp \in {a.exp, "future", "unknown"} :
            o = Answered(a, rt, pt, prt, ok, exp)
      BY <2>3 DEF SessionAnswers
    <3> QED BY <3>1 DEF Answered, Failure, Success
  <2>4. CASE o \in SessionFails(a)
    <3> DEFINE b == [a EXCEPT !.bearer = TRUE]
               c == [b EXCEPT !.rt = a.jar]
    <3>1. c \in Row
      BY DEF Row
    <3>2. CASE o \in {Failure(a), Failure(b), Success(b)}
      BY <3>2 DEF Failure, Success
    <3>3. ASSUME NEW x \in RefreshSupabase(c),
                 o = IF x.ok THEN x ELSE [x EXCEPT !.account = c]
          PROVE  o.live \in {live, live + 1}
      <4>1. x \in Outcome /\ x.live \in {live, live + 1}
        BY <1>1, <3>1, SupabaseOutcomes DEF TypeOK
      <4> QED BY <3>3, <4>1 DEF Outcome
    <3>4. \/ o \in {Failure(a), Failure(b), Success(b)}
          \/ \E x \in RefreshSupabase(c) : o = IF x.ok THEN x ELSE [x EXCEPT !.account = c]
      <4>1. CASE TokenInJwt
        BY <2>4, <4>1, Zenon DEF SessionFails
      <4>2. CASE ~TokenInJwt
        BY <2>4, <4>2, Zenon DEF SessionFails
      <4> QED BY <4>1, <4>2
    <3> HIDE DEF b, c
    <3> QED BY <3>2, <3>3, <3>4
  <2> QED BY <2>1, <2>2, <2>3, <2>4 DEF Methods, Exchange, RefreshFromCookies
<1>3. ASSUME NEW p \in Refresher, NEW method \in Methods, Try(p, method)
      PROVE  live' \in {live, live + 1} /\ (lost => lost')
  <2>1. PICK o \in Exchange(method, copy[p]) : live' = o.live /\ lost' = (lost \/ o.lost)
    BY <1>3 DEF Try
  <2>2. copy[p] \in Row
    BY DEF TypeOK
  <2> QED BY <1>2, <2>1, <2>2
<1>4. ASSUME NEW p \in Refresher, NEW to, Write(p, to)
      PROVE  lost => lost'
  BY <1>4 DEF Write
<1>5. CASE \E p \in Refresher : StoreSuccess(p) \/ StoreFailure(p)
  BY <1>4, <1>5 DEF StoreSuccess, StoreFailure
<1>6. CASE EditWrite \/ Crash
  BY <1>6 DEF EditWrite, Crash
<1>7. CASE UNCHANGED <<live, lost>>
  BY <1>7
<1> QED
  BY <1>3, <1>5, <1>6, <1>7
  DEF Next, Begin, Lock, Refresh, Read, Cancel, EditRead, Expire, vars

\* The token an account has, seen from a refresher at work, and without one.
LEMMA Carried ==
  ASSUME TypeOK, LockInvariant
  PROVE  /\ \A p \in Refresher : pc[p] \in WithCopy => carried = copy[p].rt
         /\ (\A p \in Refresher : pc[p] \notin WithCopy) => carried = row.rt
BY ConstantFacts DEF LockInvariant, carried, Holding, TypeOK

\* The same after a step.
LEMMA CarriedNext ==
  ASSUME TypeOK', LockInvariant'
  PROVE  /\ \A p \in Refresher : pc'[p] \in WithCopy => carried' = copy'[p].rt
         /\ (\A p \in Refresher : pc'[p] \notin WithCopy) => carried' = row'.rt
BY ConstantFacts DEF LockInvariant, carried, Holding, TypeOK

\* A refresher that returns leaves what the row holds by then.
LEMMA FinishCarries ==
  ASSUME IInv, TypeOK', LockInvariant', NEW p \in Refresher, Finish(p), pc[p] \in Holding
  PROVE  carried' = row'.rt
<1>1. \A q \in Refresher : pc'[q] \notin WithCopy
  BY DEF IInv, LockInvariant, Finish, TypeOK, Holding, WithCopy, Methods
<1> QED BY <1>1, CarriedNext

\* Unless a token is lost, a write of a refresher's copy leaves the row with the
\* token it carried.
LEMMA StoreKeepsToken ==
  ASSUME IInv, NEW p \in Refresher, StoreSuccess(p) \/ StoreFailure(p), ~lost, ~lost'
  PROVE  row'.rt = copy[p].rt
<1>1. pc[p] \in WithCopy
  BY DEF StoreSuccess, StoreFailure, WithCopy
<1>2. seen[p].rt = row.rt
  BY <1>1 DEF IInv, TokenInvariant
<1>3. copy[p] \in Row /\ row \in Row /\ seen[p] \in Row
  BY DEF IInv, TypeOK
<1>4. CASE UNCHANGED row /\ lost' = (lost \/ copy[p].rt # seen[p].rt)
  BY <1>2, <1>4
<1>5. CASE row' = [copy[p] EXCEPT !.jar = IF @ = 0 THEN row.jar ELSE @]
  BY <1>3, <1>5 DEF Row
<1>6. CASE row' = [row EXCEPT !.rt = Changed(p, "rt"), !.pt = Changed(p, "pt"),
                      !.prt = Changed(p, "prt"), !.bearer = Changed(p, "bearer"),
                      !.exp = IF copy[p].exp # "unknown" THEN copy[p].exp ELSE @]
  <2>1. row'.rt = Changed(p, "rt")
    BY <1>3, <1>6 DEF Row
  <2> QED BY <1>2, <2>1 DEF Changed
<1> QED BY <1>4, <1>5, <1>6 DEF StoreSuccess, StoreFailure, Write

\* Unless it loses a token, a step leaves the chain alone, or adds to it.
LEMMA StepExtendsChain ==
  ASSUME ~TokenInJwt, IInv, IInv', [Next]_vars, ~lost'
  PROVE  Chain!Next \/ UNCHANGED Chain!chainVars
<1> DEFINE Goal == Chain!Next \/ UNCHANGED Chain!chainVars
<1>0. /\ TypeOK /\ TypeOK' /\ LockInvariant /\ LockInvariant' /\ TokenInvariant
      /\ ~lost
  BY LiveMovesOn DEF IInv
<1>1. \A p, q \in Refresher : pc[p] \in WithCopy /\ pc[q] \in WithCopy => p = q
  BY <1>0 DEF LockInvariant, Holding
<1>2. ASSUME UNCHANGED <<live, lost, reused>>, carried' = carried
      PROVE  Goal
  BY <1>2 DEF Chain!chainVars
<1>3. ASSUME UNCHANGED <<live, lost, reused>>,
             \A p \in Refresher : /\ pc'[p] \in WithCopy <=> pc[p] \in WithCopy
                                  /\ copy'[p].rt = copy[p].rt,
             row'.rt = row.rt
      PROVE  Goal
  <2>1. carried' = carried
    BY <1>0, <1>3, Carried, CarriedNext
  <2> QED BY <1>2, <1>3, <2>1
<1>4. ASSUME NEW p \in Refresher, Begin(p) \/ Lock(p) \/ Cancel(p)
      PROVE  Goal
  <2>1. \A q \in Refresher : pc'[q] \in WithCopy <=> pc[q] \in WithCopy
    BY <1>0, <1>4 DEF Begin, Lock, Cancel, TypeOK, WithCopy, Methods
  <2> QED BY <1>3, <1>4, <2>1 DEF Begin, Lock, Cancel
<1>5. ASSUME NEW p \in Refresher, Read(p)
      PROVE  Goal
  <2>1. pc[p] \in Holding /\ pc[p] \notin WithCopy
    BY <1>5 DEF Read, Holding, WithCopy, Methods
  <2>2. carried = row.rt
    BY <1>0, <2>1, Carried DEF LockInvariant, Holding
  <2>3. carried' = row.rt
    <3>1. CASE canceled[p]
      BY <1>0, <1>5, <2>1, <3>1, FinishCarries DEF Read
    <3>2. CASE ~canceled[p]
      <4>1. copy'[p] = row /\ pc'[p] = FirstMethod(row)
        BY <1>0, <1>5, <3>2 DEF Read, TypeOK
      <4>2. pc'[p] \in WithCopy
        BY <4>1 DEF FirstMethod, WithCopy, Methods
      <4> QED BY <1>0, <4>1, <4>2, CarriedNext
    <3> QED BY <3>1, <3>2
  <2> QED BY <1>2, <1>5, <2>2, <2>3 DEF Read
<1>6. ASSUME NEW p \in Refresher, NEW method \in Methods, Try(p, method)
      PROVE  Goal
  <2>1. PICK o \in Exchange(method, copy[p]) :
          /\ copy' = [copy EXCEPT ![p] = o.account]
          /\ live' = o.live
          /\ lost' = (lost \/ o.lost)
          /\ reused' = (reused \/ o.reused)
          /\ pc' = [pc EXCEPT ![p] = NextMethod(method, o)]
    BY <1>6 DEF Try
  <2>2. pc[p] = method /\ pc[p] \in WithCopy
    BY <1>6 DEF Try, WithCopy
  <2>3. carried = copy[p].rt
    BY <1>0, <2>2, Carried
  <2>4. copy'[p] = o.account /\ pc'[p] \in WithCopy
    BY <1>0, <2>1 DEF TypeOK, NextMethod, WithCopy, Methods
  <2>5. carried' = o.account.rt
    BY <1>0, <2>4, CarriedNext
  <2>6. /\ copy[p] \in Row /\ live \in Token
        /\ copy[p].rt \in {0, live} /\ (method = "supabase" => copy[p].rt # 0)
        /\ ~o.lost
    BY <1>0, <2>1, <2>2 DEF TypeOK, TokenInvariant
  <2>7. /\ ~o.reused
        /\ \/ o.live = live /\ o.account.rt \in {copy[p].rt, live}
           \/ /\ copy[p].rt = live /\ o.live = live + 1
              /\ o.account.rt = live + 1
    BY <2>1, <2>6, ExchangeTokens
  <2>8. UNCHANGED <<lost, reused>>
    BY <1>0, <2>1, <2>6, <2>7 DEF TypeOK
  <2>9. \/ live' = live /\ carried' \in {carried, live}
        \/ carried = live /\ live' = live + 1 /\ carried' = live + 1
    BY <2>1, <2>3, <2>5, <2>7
  <2> QED BY <2>8, <2>9 DEF Chain!chainVars, Chain!Next, Chain!Rotate, Chain!Learn
<1>7. ASSUME NEW p \in Refresher, StoreSuccess(p) \/ StoreFailure(p)
      PROVE  Goal
  <2>1. Finish(p) /\ pc[p] \in WithCopy /\ pc[p] \in Holding /\ UNCHANGED <<live, reused>>
    BY <1>7 DEF StoreSuccess, StoreFailure, WithCopy, Holding
  <2>2. carried = copy[p].rt /\ carried' = row'.rt
    BY <1>0, <2>1, Carried, FinishCarries
  <2>3. row'.rt = copy[p].rt
    BY <1>0, <1>7, StoreKeepsToken
  <2>4. lost' = lost
    BY <1>0 DEF TypeOK
  <2> QED BY <1>2, <2>1, <2>2, <2>3, <2>4
<1>8. CASE EditWrite
  <2>1. row'.rt = row.rt /\ lost' = lost
    BY <1>0, <1>8 DEF EditWrite, TypeOK
  <2> QED BY <1>3, <1>8, <2>1 DEF EditWrite
<1>9. CASE Expire
  <2>1. \A a \in Row : Passed(a).rt = a.rt
    BY DEF Passed, Row
  <2>2. /\ row'.rt = row.rt
        /\ \A p \in Refresher : copy'[p].rt = copy[p].rt
    BY <1>0, <1>9, <2>1 DEF Expire, TypeOK
  <2> QED BY <1>3, <1>9, <2>2 DEF Expire
<1>10. CASE Crash
  <2>1. /\ \A p \in Refresher : copy[p].rt = seen[p].rt /\ pc'[p] \notin WithCopy
        /\ row'.rt \in {row.rt, live}
        /\ UNCHANGED <<live, reused>>
    BY <1>0, <1>10 DEF Crash, WithCopy, Methods
  <2>2. carried = row.rt
    <3>1. CASE \E p \in Refresher : pc[p] \in WithCopy
      BY <1>0, <2>1, <3>1, Carried DEF TokenInvariant
    <3>2. CASE \A p \in Refresher : pc[p] \notin WithCopy
      BY <1>0, <3>2, Carried
    <3> QED BY <3>1, <3>2
  <2>3. carried' = row'.rt
    BY <1>0, <2>1, CarriedNext
  <2>4. lost' = lost
    BY <1>0 DEF TypeOK
  <2>5. carried' = carried \/ carried' = live
    BY <2>1, <2>2, <2>3
  <2> QED
    BY <2>1, <2>4, <2>5 DEF Chain!chainVars, Chain!Next, Chain!Learn
<1>11. CASE EditRead \/ UNCHANGED vars
  BY <1>3, <1>11 DEF EditRead, vars
<1> QED
  BY <1>4, <1>5, <1>6, <1>7, <1>8, <1>9, <1>10, <1>11 DEF Next, Refresh

\* Where no JWT carries a refresh token, refreshing an account is, for its refresh
\* token, what RefreshChain says: however many refreshers, edits and crashes there
\* are, the token is replaced by its successor as if in one step, until one is lost.
THEOREM RefreshImplementsChain == ASSUME ~TokenInJwt PROVE Spec => ImplementsChain
<1>1. Init => Chain!Init
  BY ConstantFacts DEF Init, Chain!Init, carried, Row, Token
<1>2. IInv /\ IInv' /\ [Next]_vars => [Chain!Next]_Chain!chainVars
  <2> SUFFICES ASSUME IInv, IInv', [Next]_vars
               PROVE  Chain!Next \/ UNCHANGED Chain!chainVars
    OBVIOUS
  <2>1. CASE lost'
    BY <2>1, LiveMovesOn DEF IInv, Chain!Next, Chain!Lose
  <2>2. CASE ~lost'
    BY <2>2, StepExtendsChain
  <2> QED BY <2>1, <2>2
<1> QED BY <1>1, <1>2, InductiveInvariant, PTL DEF Spec, ImplementsChain, Chain!Spec
=============================================================================
