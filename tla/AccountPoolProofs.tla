-------------------------- MODULE AccountPoolProofs --------------------------
(***************************************************************************)
(* Proofs about AccountPool, for any sets of accounts and calls, any       *)
(* timeouts and any ban threshold: type correctness, the exclusiveness of  *)
(* leases, and that the pool implements ExclusiveAccounts.                 *)
(***************************************************************************)
EXTENDS AccountPool, TLAPS

\* The steps at which a call owes the release of the account it leased.
Holding == {"generating", "judging", "banning", "rejected", "returning"}

\* Where a call stands determines what it holds: exactly its account from the
\* lease to the return, nothing before.
HoldsWhatItChose ==
  \A g \in Call :
    /\ pc[g] \in Holding => acct[g] \in Account /\ owed[g] = {acct[g]}
    /\ pc[g] \notin Holding => owed[g] = {}
    /\ pc[g] = "picked" => acct[g] \in Account

\* A call chooses no account it excluded, so it leases each at most once.
NoSecondTry ==
  \A g \in Call : pc[g] \in Holding \cup {"picked"} => acct[g] \notin excluded[g]

\* The time a lease will be given is at least what is left of the context.
DeadlineWithinTimeout ==
  \A g \in Call : pc[g] # "idle" => timeout[g] \in Timeouts /\ left[g] <= timeout[g]

\* The inductive invariant.
IInv ==
  /\ TypeOK
  /\ HoldsWhatItChose
  /\ NoSecondTry
  /\ DeadlineWithinTimeout
  /\ LeaseCoversCall
  /\ ExclusiveLease
-----------------------------------------------------------------------------
\* What the proofs use of the constants.
LEMMA ConstantFacts ==
  /\ \A t \in Timeouts \cup {0} : t \in Nat
  /\ \A t \in Timeouts : t > 0
  /\ Threshold \in Nat
  /\ Threshold > 0
  /\ NoAccount \notin Account
BY PoolAssumption

\* The initial state is well typed.
LEMMA InitTypeOK == Init => TypeOK
<1> SUFFICES ASSUME Init PROVE TypeOK
  OBVIOUS
<1> USE ConstantFacts DEF Init
<1>1. /\ leases \in [Account -> Nat]
      /\ row \in [Account -> {"active", "disabled", "deleted"}]
      /\ errors \in [Account -> 0 .. Threshold]
  OBVIOUS
<1>2. /\ pc \in [Call -> Steps]
      /\ timeout \in [Call -> Timeouts \cup {0}]
      /\ left \in [Call -> Nat]
      /\ canceled \in [Call -> BOOLEAN]
      /\ acct \in [Call -> Account \cup {NoAccount}]
      /\ rejected \in [Call -> BOOLEAN]
      /\ overstay \in BOOLEAN
  BY DEF Steps
<1>3. busy \in [Call -> SUBSET Account]
  OBVIOUS
<1>4. excluded \in [Call -> SUBSET Account]
  OBVIOUS
<1>5. owed \in [Call -> SUBSET Account]
  OBVIOUS
<1>6. QED
  BY <1>1, <1>2, <1>3, <1>4, <1>5 DEF TypeOK

\* A call that returns, or gives up waiting, leaves its variables in range.
LEMMA ForgetTypeOK ==
  ASSUME TypeOK, NEW g \in Call, Forget(g)
  PROVE  /\ pc' \in [Call -> Steps]
         /\ timeout' \in [Call -> Timeouts \cup {0}]
         /\ left' \in [Call -> Nat]
         /\ canceled' \in [Call -> BOOLEAN]
         /\ busy' \in [Call -> SUBSET Account]
         /\ excluded' \in [Call -> SUBSET Account]
         /\ acct' \in [Call -> Account \cup {NoAccount}]
         /\ rejected' \in [Call -> BOOLEAN]
<1> USE DEF TypeOK, Forget
<1>1. pc' \in [Call -> Steps] /\ canceled' \in [Call -> BOOLEAN]
  BY DEF Steps
<1>2. timeout' \in [Call -> Timeouts \cup {0}] /\ left' \in [Call -> Nat]
  OBVIOUS
<1>3. acct' \in [Call -> Account \cup {NoAccount}] /\ rejected' \in [Call -> BOOLEAN]
  OBVIOUS
<1>4. busy' \in [Call -> SUBSET Account]
  OBVIOUS
<1>5. excluded' \in [Call -> SUBSET Account]
  OBVIOUS
<1>6. QED
  BY <1>1, <1>2, <1>3, <1>4, <1>5

\* Every step keeps every variable in its range.
LEMMA NextTypeOK == TypeOK /\ HoldsWhatItChose /\ [Next]_vars => TypeOK'
<1> SUFFICES ASSUME TypeOK, HoldsWhatItChose, [Next]_vars PROVE TypeOK'
  OBVIOUS
<1> USE DEF TypeOK
<1>1. ASSUME NEW g \in Call, Start(g) PROVE TypeOK'
  BY <1>1, ConstantFacts DEF Start, Steps
<1>2. ASSUME NEW g \in Call, SnapshotLeases(g) PROVE TypeOK'
  BY <1>2 DEF SnapshotLeases, Steps
<1>3. ASSUME NEW g \in Call, NEW a \in Account, Pick(g, a) PROVE TypeOK'
  BY <1>3 DEF Pick, Steps
<1>4. ASSUME NEW g \in Call, NoneUsable(g) PROVE TypeOK'
  <2>1. CASE Forget(g)
    BY <1>4, <2>1, ForgetTypeOK DEF NoneUsable
  <2>2. CASE ~Forget(g)
    BY <1>4, <2>2 DEF NoneUsable, Steps
  <2>3. QED
    BY <2>1, <2>2
<1>5. ASSUME NEW g \in Call, TryLease(g) PROVE TypeOK'
  <2>1. pc' \in [Call -> Steps] /\ acct' \in [Call -> Account \cup {NoAccount}]
    BY <1>5 DEF TryLease, Steps
  <2>2. busy' \in [Call -> SUBSET Account]
    BY <1>5 DEF TryLease
  <2>3. leases' \in [Account -> Nat]
    <3>1. timeout[g] \in Nat
      BY ConstantFacts
    <3>2. QED
      BY <1>5, <3>1 DEF TryLease
  <2>4. owed' \in [Call -> SUBSET Account]
    <3>1. acct[g] \in Account
      BY <1>5 DEF TryLease, HoldsWhatItChose
    <3>2. QED
      BY <1>5, <3>1 DEF TryLease
  <2>5. QED
    BY <1>5, <2>1, <2>2, <2>3, <2>4 DEF TryLease
<1>6. ASSUME NEW g \in Call, AwaitRetry(g) PROVE TypeOK'
  <2>1. CASE CtxDone(g)
    BY <1>6, <2>1, ForgetTypeOK DEF AwaitRetry
  <2>2. CASE ~CtxDone(g)
    BY <1>6, <2>2 DEF AwaitRetry, Steps
  <2>3. QED
    BY <2>1, <2>2
<1>7. ASSUME NEW g \in Call, Work(g) \/ StopOnCtx(g) PROVE TypeOK'
  <2>1. CASE Succeed(g)
    <3>1. errors' \in [Account -> 0 .. Threshold]
      <4>1. 0 \in 0 .. Threshold
        BY ConstantFacts
      <4>2. QED
        BY <2>1, <4>1 DEF Succeed
    <3>2. QED
      BY <2>1, <3>1 DEF Succeed, Outcome, Steps
  <2>2. CASE EndQuietly(g)
    BY <2>2 DEF EndQuietly, Outcome, Steps
  <2>3. ASSUME NEW auth \in BOOLEAN, Fail(g, auth) PROVE TypeOK'
    <3>1. pc' \in [Call -> Steps] /\ rejected' \in [Call -> BOOLEAN]
      BY <2>3 DEF Fail, Outcome, Recorded, Steps
    <3>2. errors' \in [Account -> 0 .. Threshold]
      <4>1. CASE errors' = errors
        BY <4>1
      <4>2. CASE errors[acct[g]] # Threshold /\ errors' = [errors EXCEPT ![acct[g]] = @ + 1]
        <5>1. acct[g] \in Account => errors[acct[g]] + 1 \in 0 .. Threshold
          BY <4>2, ConstantFacts
        <5>2. QED
          BY <4>2, <5>1
      <4>3. QED
        BY <2>3, <4>1, <4>2 DEF Fail
    <3>3. QED
      BY <2>3, <3>1, <3>2 DEF Fail, Outcome
  <2>4. QED
    BY <1>7, <2>1, <2>2, <2>3 DEF Work, StopOnCtx
<1>8. ASSUME NEW g \in Call, Judge(g) PROVE TypeOK'
  BY <1>8 DEF Judge, Recorded, Steps
<1>9. ASSUME NEW g \in Call, Ban(g) PROVE TypeOK'
  BY <1>9 DEF Ban, Recorded, Steps
<1>10. ASSUME NEW g \in Call, FallBack(g) PROVE TypeOK'
  <2>1. pc' \in [Call -> Steps] /\ leases' \in [Account -> Nat]
    BY <1>10 DEF FallBack, Release, Steps
  <2>2. owed' \in [Call -> SUBSET Account]
    BY <1>10 DEF FallBack
  <2>3. excluded' \in [Call -> SUBSET Account]
    <3>1. acct[g] \in Account
      BY <1>10 DEF FallBack, HoldsWhatItChose, Holding
    <3>2. QED
      BY <1>10, <3>1 DEF FallBack
  <2>4. QED
    BY <1>10, <2>1, <2>2, <2>3 DEF FallBack
<1>11. ASSUME NEW g \in Call, Return(g) PROVE TypeOK'
  <2>1. leases' \in [Account -> Nat] /\ owed' \in [Call -> SUBSET Account]
    BY <1>11 DEF Return, Release
  <2>2. QED
    BY <1>11, <2>1, ForgetTypeOK DEF Return
<1>12. ASSUME NEW g \in Call, Disconnect(g) PROVE TypeOK'
  BY <1>12 DEF Disconnect
<1>13. ASSUME NEW a \in Account, DeleteToken(a) PROVE TypeOK'
  BY <1>13, ConstantFacts DEF DeleteToken
<1>14. ASSUME NEW a \in Account, NEW to \in {"active", "disabled"}, SetTokenActive(a, to)
       PROVE TypeOK'
  BY <1>14 DEF SetTokenActive
<1>15. CASE Tick
  BY <1>15 DEF Tick, CountDown
<1>16. CASE UNCHANGED vars
  BY <1>16 DEF vars
<1>17. QED
  BY <1>1, <1>2, <1>3, <1>4, <1>5, <1>6, <1>7, <1>8, <1>9, <1>10, <1>11, <1>12,
     <1>13, <1>14, <1>15, <1>16 DEF Next, Acquire, Record

\* Every step keeps the account of a call in step with its release closures.
LEMMA NextHoldsWhatItChose ==
  TypeOK /\ HoldsWhatItChose /\ [Next]_vars => HoldsWhatItChose'
<1> SUFFICES ASSUME TypeOK, HoldsWhatItChose, [Next]_vars PROVE HoldsWhatItChose'
  OBVIOUS
<1> USE DEF TypeOK, HoldsWhatItChose, Holding
<1>1. ASSUME NEW g \in Call, Start(g) PROVE HoldsWhatItChose'
  BY <1>1 DEF Start
<1>2. ASSUME NEW g \in Call, SnapshotLeases(g) PROVE HoldsWhatItChose'
  BY <1>2 DEF SnapshotLeases
<1>3. ASSUME NEW g \in Call, NEW a \in Account, Pick(g, a) PROVE HoldsWhatItChose'
  BY <1>3 DEF Pick
<1>4. ASSUME NEW g \in Call, NoneUsable(g) PROVE HoldsWhatItChose'
  BY <1>4 DEF NoneUsable, Forget
<1>5. ASSUME NEW g \in Call, TryLease(g) PROVE HoldsWhatItChose'
  BY <1>5 DEF TryLease
<1>6. ASSUME NEW g \in Call, AwaitRetry(g) PROVE HoldsWhatItChose'
  BY <1>6 DEF AwaitRetry, Forget
<1>7. ASSUME NEW g \in Call, Work(g) \/ StopOnCtx(g) PROVE HoldsWhatItChose'
  BY <1>7 DEF Work, StopOnCtx, Succeed, EndQuietly, Fail, Outcome, Recorded
<1>8. ASSUME NEW g \in Call, Judge(g) PROVE HoldsWhatItChose'
  BY <1>8 DEF Judge, Recorded
<1>9. ASSUME NEW g \in Call, Ban(g) PROVE HoldsWhatItChose'
  BY <1>9 DEF Ban, Recorded
<1>10. ASSUME NEW g \in Call, FallBack(g) PROVE HoldsWhatItChose'
  BY <1>10 DEF FallBack
<1>11. ASSUME NEW g \in Call, Return(g) PROVE HoldsWhatItChose'
  BY <1>11 DEF Return, Forget
<1>12. ASSUME UNCHANGED <<pc, acct, owed>> PROVE HoldsWhatItChose'
  BY <1>12
<1>13. QED
  BY <1>1, <1>2, <1>3, <1>4, <1>5, <1>6, <1>7, <1>8, <1>9, <1>10, <1>11, <1>12
     DEF Next, Acquire, Record, Disconnect, DeleteToken, SetTokenActive, Tick, vars

\* Type correctness of the pool, for every value of the constants.
THEOREM TypeCorrect == Spec => []TypeOK
<1>1. Init => HoldsWhatItChose
  BY DEF Init, HoldsWhatItChose, Holding
<1>2. QED
  BY <1>1, InitTypeOK, NextTypeOK, NextHoldsWhatItChose, PTL DEF Spec
-----------------------------------------------------------------------------
(* The exclusive lease.                                                     *)

\* Every step keeps a call away from the accounts that rejected it.
LEMMA NextNoSecondTry ==
  TypeOK /\ HoldsWhatItChose /\ NoSecondTry /\ [Next]_vars => NoSecondTry'
<1> SUFFICES ASSUME TypeOK, HoldsWhatItChose, NoSecondTry, [Next]_vars PROVE NoSecondTry'
  OBVIOUS
<1> USE DEF TypeOK, NoSecondTry, Holding
<1>1. ASSUME NEW g \in Call, Start(g) \/ SnapshotLeases(g) PROVE NoSecondTry'
  BY <1>1 DEF Start, SnapshotLeases
<1>2. ASSUME NEW g \in Call, NEW a \in Account, Pick(g, a) PROVE NoSecondTry'
  BY <1>2 DEF Pick, Candidates
<1>3. ASSUME NEW g \in Call, NoneUsable(g) PROVE NoSecondTry'
  BY <1>3 DEF NoneUsable, Forget
<1>4. ASSUME NEW g \in Call, TryLease(g) PROVE NoSecondTry'
  BY <1>4 DEF TryLease
<1>5. ASSUME NEW g \in Call, AwaitRetry(g) PROVE NoSecondTry'
  BY <1>5 DEF AwaitRetry, Forget
<1>6. ASSUME NEW g \in Call, Work(g) \/ StopOnCtx(g) PROVE NoSecondTry'
  BY <1>6 DEF Work, StopOnCtx, Succeed, EndQuietly, Fail, Outcome, Recorded
<1>7. ASSUME NEW g \in Call, Judge(g) \/ Ban(g) PROVE NoSecondTry'
  BY <1>7 DEF Judge, Ban, Recorded
<1>8. ASSUME NEW g \in Call, FallBack(g) PROVE NoSecondTry'
  BY <1>8 DEF FallBack
<1>9. ASSUME NEW g \in Call, Return(g) PROVE NoSecondTry'
  BY <1>9 DEF Return, Forget
<1>10. ASSUME UNCHANGED <<pc, acct, excluded>> PROVE NoSecondTry'
  BY <1>10
<1>11. QED
  BY <1>1, <1>2, <1>3, <1>4, <1>5, <1>6, <1>7, <1>8, <1>9, <1>10
     DEF Next, Acquire, Record, Disconnect, DeleteToken, SetTokenActive, Tick, vars

\* The deadline of a call's context is at most its timeout away, at every step.
LEMMA NextDeadlineWithinTimeout ==
  TypeOK /\ DeadlineWithinTimeout /\ [Next]_vars => DeadlineWithinTimeout'
<1> SUFFICES ASSUME TypeOK, DeadlineWithinTimeout, [Next]_vars PROVE DeadlineWithinTimeout'
  OBVIOUS
<1> USE DEF TypeOK, DeadlineWithinTimeout
<1>1. ASSUME NEW g \in Call, Start(g) PROVE DeadlineWithinTimeout'
  BY <1>1, ConstantFacts DEF Start
<1>2. ASSUME NEW g \in Call, Forget(g) PROVE DeadlineWithinTimeout'
  BY <1>2 DEF Forget
<1>3. CASE Tick
  BY <1>3, ConstantFacts DEF Tick, CountDown
<1>4. ASSUME UNCHANGED <<timeout, left>>,
             \A g \in Call : pc'[g] # "idle" => pc[g] # "idle"
      PROVE  DeadlineWithinTimeout'
  BY <1>4
<1>5. ASSUME NEW g \in Call, Acquire(g), ~Forget(g) PROVE DeadlineWithinTimeout'
  <2>1. UNCHANGED <<timeout, left>> /\ pc[g] # "idle" /\ \A h \in Call \ {g} : pc'[h] = pc[h]
    BY <1>5 DEF Acquire, SnapshotLeases, Pick, NoneUsable, TryLease, AwaitRetry
  <2>2. QED
    BY <1>4, <2>1
<1>6. ASSUME NEW g \in Call, Work(g) \/ StopOnCtx(g) PROVE DeadlineWithinTimeout'
  <2>1. UNCHANGED <<timeout, left>> /\ pc[g] # "idle" /\ \A h \in Call \ {g} : pc'[h] = pc[h]
    BY <1>6 DEF Work, StopOnCtx, Succeed, EndQuietly, Fail, Outcome
  <2>2. QED
    BY <1>4, <2>1
<1>7. ASSUME NEW g \in Call, Record(g), ~Forget(g) PROVE DeadlineWithinTimeout'
  <2>1. UNCHANGED <<timeout, left>> /\ pc[g] # "idle" /\ \A h \in Call \ {g} : pc'[h] = pc[h]
    BY <1>7 DEF Record, Judge, Ban, FallBack, Return
  <2>2. QED
    BY <1>4, <2>1
<1>8. ASSUME UNCHANGED <<timeout, left, pc>> PROVE DeadlineWithinTimeout'
  BY <1>8
<1>9. QED
  BY <1>1, <1>2, <1>3, <1>5, <1>6, <1>7, <1>8
     DEF Next, Disconnect, DeleteToken, SetTokenActive, vars

\* An account without a lease in the table is owed by no call, unless a call
\* overstayed: this is what makes tryLease's look at the table decisive.
LEMMA FreeAccountIsOwedByNobody ==
  ASSUME TypeOK, LeaseCoversCall, ~overstay, NEW a \in Account, ~Leased(a), NEW g \in Call
  PROVE  a \notin owed[g]
BY DEF LeaseCoversCall

\* Every step keeps leases exclusive, and in the table as long as they are owed.
LEMMA NextExclusiveLease ==
  IInv /\ [Next]_vars => LeaseCoversCall' /\ ExclusiveLease'
<1> DEFINE Good == LeaseCoversCall' /\ ExclusiveLease'
<1> SUFFICES ASSUME IInv, [Next]_vars PROVE Good
  OBVIOUS
<1>0. TypeOK /\ HoldsWhatItChose /\ DeadlineWithinTimeout /\ LeaseCoversCall /\ ExclusiveLease
  BY DEF IInv
<1>1. ASSUME NEW g \in Call, Start(g) PROVE Good
  BY <1>0, <1>1 DEF Start, TypeOK, HoldsWhatItChose, Holding, LeaseCoversCall, ExclusiveLease, Leased
<1>2. ASSUME NEW g \in Call, TryLease(g) PROVE Good
  <2>1. CASE Leased(acct[g])
    BY <1>0, <1>2, <2>1 DEF TryLease, LeaseCoversCall, ExclusiveLease, Leased
  <2>2. CASE ~Leased(acct[g]) /\ ~overstay
    <3> DEFINE a == acct[g]
    <3>1. a \in Account /\ owed[g] = {}
      BY <1>0, <1>2 DEF TryLease, HoldsWhatItChose, Holding
    <3>2. \A h \in Call : a \notin owed[h]
      BY <1>0, <2>2, <3>1, FreeAccountIsOwedByNobody
    <3>3. owed' = [owed EXCEPT ![g] = {a}] /\ leases' = [leases EXCEPT ![a] = timeout[g]]
          /\ UNCHANGED <<left, overstay>>
      BY <1>2, <2>2, <3>1 DEF TryLease
    <3>4. timeout[g] \in Nat /\ timeout[g] > 0 /\ timeout[g] >= left[g]
      <4>1. timeout[g] \in Timeouts /\ timeout[g] >= left[g]
        BY <1>0, <1>2, ConstantFacts DEF TryLease, DeadlineWithinTimeout, TypeOK
      <4>2. QED
        BY <4>1, ConstantFacts
    <3>5. LeaseCoversCall'
      BY <1>0, <3>1, <3>2, <3>3, <3>4 DEF LeaseCoversCall, Leased, TypeOK
    <3>6. ExclusiveLease'
      BY <1>0, <3>1, <3>2, <3>3 DEF ExclusiveLease, TypeOK
    <3>7. QED
      BY <3>5, <3>6
  <2>3. CASE overstay
    BY <1>2, <2>3 DEF TryLease, LeaseCoversCall, ExclusiveLease
  <2>4. QED
    BY <2>1, <2>2, <2>3
<1>3. ASSUME NEW g \in Call, FallBack(g) PROVE Good
  <2>1. owed[g] = {acct[g]}
    BY <1>0, <1>3 DEF FallBack, HoldsWhatItChose, Holding
  <2>2. owed' = [owed EXCEPT ![g] = {}] /\ UNCHANGED <<left, overstay>>
        /\ \A a \in Account \ {acct[g]} : leases'[a] = leases[a]
    BY <1>3, <2>1 DEF FallBack, Release
  <2>3. QED
    BY <1>0, <2>1, <2>2 DEF LeaseCoversCall, ExclusiveLease, Leased, TypeOK
<1>4. ASSUME NEW g \in Call, Return(g) PROVE Good
  <2>1. owed' = [owed EXCEPT ![g] = {}] /\ left' = [left EXCEPT ![g] = 0] /\ UNCHANGED overstay
        /\ \A a \in Account \ owed[g] : leases'[a] = leases[a]
    BY <1>4 DEF Return, Release, Forget
  <2>2. QED
    BY <1>0, <2>1 DEF LeaseCoversCall, ExclusiveLease, Leased, TypeOK
<1>5. ASSUME NEW g \in Call, NoneUsable(g) \/ AwaitRetry(g) PROVE Good
  <2>1. UNCHANGED <<owed, leases, overstay>> /\ \A h \in Call : left'[h] <= left[h] /\ left'[h] \in Nat
    BY <1>0, <1>5 DEF NoneUsable, AwaitRetry, Forget, TypeOK
  <2>2. QED
    BY <1>0, <2>1 DEF LeaseCoversCall, ExclusiveLease, Leased, TypeOK
<1>6. CASE Tick
  <2>1. ExclusiveLease'
    BY <1>0, <1>6 DEF Tick, ExclusiveLease
  <2>2. ASSUME ~overstay', NEW g \in Call, NEW a \in owed'[g]
        PROVE  leases'[a] > 0 /\ leases'[a] >= left'[g]
    <3>1. ~overstay /\ a \in owed[g] /\ ~(left[g] <= 1 /\ leases[a] <= 1)
      BY <1>6, <2>2 DEF Tick
    <3>2. a \in Account /\ leases[a] \in Nat /\ left[g] \in Nat
      BY <1>0, <3>1 DEF TypeOK
    <3>3. leases[a] > 0 /\ leases[a] >= left[g]
      BY <1>0, <3>1 DEF LeaseCoversCall, Leased
    <3>4. leases'[a] = leases[a] - 1 /\ left'[g] = CountDown(left[g])
      BY <1>6, <3>2, <3>3 DEF Tick, CountDown
    <3>5. QED
      BY <3>1, <3>2, <3>3, <3>4 DEF CountDown
  <2>3. QED
    BY <2>1, <2>2 DEF LeaseCoversCall, Leased
<1>7. ASSUME UNCHANGED <<leases, left, owed, overstay>> PROVE Good
  BY <1>0, <1>7 DEF LeaseCoversCall, ExclusiveLease, Leased
<1>8. QED
  BY <1>1, <1>2, <1>3, <1>4, <1>5, <1>6, <1>7
     DEF Next, Acquire, SnapshotLeases, Pick, Work, StopOnCtx, Succeed, EndQuietly, Fail,
         Outcome, Record, Judge, Ban, Disconnect, DeleteToken, SetTokenActive, vars

\* The conjunction of the above holds in every reachable state.
LEMMA InductiveInvariant == Spec => []IInv
<1>1. Init => IInv
  BY InitTypeOK DEF Init, IInv, HoldsWhatItChose, Holding, NoSecondTry,
     DeadlineWithinTimeout, LeaseCoversCall, ExclusiveLease
<1>2. IInv /\ [Next]_vars => IInv'
  BY NextTypeOK, NextHoldsWhatItChose, NextNoSecondTry, NextDeadlineWithinTimeout,
     NextExclusiveLease DEF IInv
<1>3. QED
  BY <1>1, <1>2, PTL DEF Spec

\* No two calls lease the same account unless some call outlived its lease.
THEOREM LeaseIsExclusive == Spec => []ExclusiveLease
<1>1. IInv => ExclusiveLease
  BY DEF IInv
<1>2. QED
  BY <1>1, InductiveInvariant, PTL

\* Every lease a call takes is released: a call owes a release, and of the account it
\* works with alone, in all steps from tryLease to its return, and in no other; the
\* next attempt of a call that fell back is with an account it did not try yet.
LeasesAreGivenBack == HoldsWhatItChose /\ NoSecondTry

\* A call that is not between a lease and its release owes nothing, and no attempt of a
\* call repeats an account: also if calls outlive their leases.
THEOREM LeasesComeBack == Spec => []LeasesAreGivenBack
<1>1. IInv => LeasesAreGivenBack
  BY DEF IInv, LeasesAreGivenBack
<1>2. QED
  BY <1>1, InductiveInvariant, PTL

\* Nobody but its holder takes a lease out of the table or shortens it, unless
\* some call outlived its lease.
THEOREM LeaseLastsAsLongAsTheCall == Spec => []LeaseCoversCall
<1>1. IInv => LeaseCoversCall
  BY DEF IInv
<1>2. QED
  BY <1>1, InductiveInvariant, PTL
-----------------------------------------------------------------------------
(* Bans.                                                                    *)

\* No step breaks a run of errors on which another call is about to ban.
LEMMA NextBanIsDeserved ==
  IInv /\ BanIsDeserved /\ [Next]_vars => BanIsDeserved'
<1> SUFFICES ASSUME IInv, BanIsDeserved, [Next]_vars, ~overstay',
                    NEW h \in Call, pc'[h] = "banning", row'[acct'[h]] # "deleted"
             PROVE  errors'[acct'[h]] >= Threshold
  BY DEF BanIsDeserved
<1>0. TypeOK /\ HoldsWhatItChose /\ ExclusiveLease
  BY DEF IInv
<1>1. ~overstay
  BY <1>0 DEF Next, Acquire, Start, SnapshotLeases, Pick, NoneUsable, TryLease, AwaitRetry, Work,
     StopOnCtx, Succeed, EndQuietly, Fail, Outcome, Record, Judge, Ban, FallBack, Return,
     Disconnect, DeleteToken, SetTokenActive, Tick, vars, TypeOK
<1>2. ASSUME NEW g \in Call, g # h, pc[h] = "banning", pc[g] \in Holding
      PROVE  acct[h] \in Account /\ acct[g] # acct[h]
  BY <1>0, <1>1, <1>2 DEF HoldsWhatItChose, Holding, ExclusiveLease
<1>3. ASSUME pc[h] = "banning", acct'[h] = acct[h], row'[acct[h]] # "deleted" => row[acct[h]] # "deleted",
             errors'[acct[h]] = errors[acct[h]]
      PROVE  errors'[acct'[h]] >= Threshold
  BY <1>1, <1>3 DEF BanIsDeserved
<1>4. ASSUME NEW g \in Call, Start(g) \/ Acquire(g) PROVE errors'[acct'[h]] >= Threshold
  <2>1. pc[h] = "banning" /\ acct'[h] = acct[h] /\ UNCHANGED <<row, errors>>
    BY <1>0, <1>4 DEF Start, Acquire, SnapshotLeases, Pick, NoneUsable, TryLease, AwaitRetry, Forget, TypeOK
  <2>2. QED
    BY <1>3, <2>1
<1>5. ASSUME NEW g \in Call, Work(g) \/ StopOnCtx(g) PROVE errors'[acct'[h]] >= Threshold
  <2>1. g # h /\ pc[h] = "banning" /\ pc[g] = "generating" /\ UNCHANGED <<acct, row>>
    BY <1>0, <1>5 DEF Work, StopOnCtx, Succeed, EndQuietly, Fail, Outcome, Recorded, TypeOK
  <2>2. acct[h] \in Account /\ acct[g] # acct[h]
    BY <1>2, <2>1 DEF Holding
  <2>3. errors'[acct[h]] = errors[acct[h]]
    BY <1>0, <1>5, <2>2 DEF Work, StopOnCtx, Succeed, EndQuietly, Fail, TypeOK
  <2>4. QED
    BY <1>3, <2>1, <2>3
<1>6. ASSUME NEW g \in Call, Judge(g) PROVE errors'[acct'[h]] >= Threshold
  <2>1. CASE g = h
    BY <1>0, <1>6, <2>1 DEF Judge, TypeOK, Recorded
  <2>2. CASE g # h
    BY <1>0, <1>3, <1>6, <2>2 DEF Judge, TypeOK
  <2>3. QED
    BY <2>1, <2>2
<1>7. ASSUME NEW g \in Call, Ban(g) PROVE errors'[acct'[h]] >= Threshold
  <2>1. pc[h] = "banning" /\ UNCHANGED <<acct, errors>>
    BY <1>0, <1>7 DEF Ban, TypeOK, Recorded
  <2>2. acct[h] \in Account
    BY <1>0, <2>1 DEF HoldsWhatItChose, Holding
  <2>3. row'[acct[h]] # "deleted" => row[acct[h]] # "deleted"
    BY <1>0, <1>7, <2>2 DEF Ban, TypeOK
  <2>4. QED
    BY <1>3, <2>1, <2>3
<1>8. ASSUME NEW g \in Call, FallBack(g) \/ Return(g) PROVE errors'[acct'[h]] >= Threshold
  <2>1. pc[h] = "banning" /\ acct'[h] = acct[h] /\ UNCHANGED <<row, errors>>
    BY <1>0, <1>8 DEF FallBack, Return, Forget, TypeOK
  <2>2. QED
    BY <1>3, <2>1
<1>9. ASSUME NEW a \in Account, DeleteToken(a) PROVE errors'[acct'[h]] >= Threshold
  <2>1. pc[h] = "banning" /\ UNCHANGED acct
    BY <1>9 DEF DeleteToken
  <2>2. acct[h] \in Account
    BY <1>0, <2>1 DEF HoldsWhatItChose, Holding
  <2>3. acct[h] # a
    BY <1>0, <1>9, <2>1, <2>2 DEF DeleteToken, TypeOK
  <2>4. row'[acct[h]] = row[acct[h]] /\ errors'[acct[h]] = errors[acct[h]]
    BY <1>0, <1>9, <2>2, <2>3 DEF DeleteToken, TypeOK
  <2>5. QED
    BY <1>3, <2>1, <2>4
<1>10. ASSUME NEW a \in Account, NEW to \in {"active", "disabled"}, SetTokenActive(a, to)
       PROVE  errors'[acct'[h]] >= Threshold
  <2>1. pc[h] = "banning" /\ UNCHANGED <<acct, errors>>
    BY <1>10 DEF SetTokenActive
  <2>2. row'[acct[h]] # "deleted" => row[acct[h]] # "deleted"
    BY <1>0, <1>10 DEF SetTokenActive, TypeOK
  <2>3. QED
    BY <1>3, <2>1, <2>2
<1>11. CASE Tick \/ (\E g \in Call : Disconnect(g)) \/ UNCHANGED vars
  BY <1>3, <1>11 DEF Tick, Disconnect, vars
<1>12. QED
  BY <1>4, <1>5, <1>6, <1>7, <1>8, <1>9, <1>10, <1>11 DEF Next, Record

\* An account is only banned on a run of errors no success has broken since.
THEOREM BansAreDeserved == Spec => []BanIsDeserved
<1>1. Init => BanIsDeserved
  BY DEF Init, BanIsDeserved
<1>2. QED
  BY <1>1, InductiveInvariant, NextBanIsDeserved, PTL DEF Spec
-----------------------------------------------------------------------------
(* Refinement.  TryLease takes an account, FallBack gives it back, the      *)
(* steps that forget a call end it, Tick may lapse; every other step        *)
(* stutters.                                                                *)

\* Every step of the pool is a step of ExclusiveAccounts, or changes none of its
\* variables.
LEMMA StepRefines ==
  IInv /\ [Next]_vars => [Exclusive!Next]_Exclusive!abstractVars
<1> SUFFICES ASSUME IInv, [Next]_vars PROVE [Exclusive!Next]_Exclusive!abstractVars
  OBVIOUS
<1> DEFINE Goal == [Exclusive!Next]_Exclusive!abstractVars
<1>0. TypeOK /\ HoldsWhatItChose /\ NoSecondTry /\ LeaseCoversCall /\ ExclusiveLease
  BY DEF IInv
<1>1. ASSUME UNCHANGED <<owed, excluded, overstay>>,
             \A h \in Call : owed[h] # {} => acct'[h] = acct[h]
      PROVE  Goal
  <2>1. UNCHANGED holder
    BY <1>1 DEF holder
  <2>2. QED
    BY <1>1, <2>1 DEF Exclusive!abstractVars
<1>2. ASSUME NEW g \in Call, TryLease(g) PROVE Goal
  <2>1. acct[g] \in Account /\ owed[g] = {} /\ acct[g] \notin excluded[g]
    BY <1>0, <1>2 DEF TryLease, HoldsWhatItChose, NoSecondTry, Holding
  <2>2. CASE Leased(acct[g])
    BY <1>0, <1>1, <1>2, <2>1, <2>2 DEF TryLease, TypeOK
  <2>3. CASE ~Leased(acct[g])
    <3>1. UNCHANGED <<acct, excluded, overstay>> /\ owed' = [owed EXCEPT ![g] = {acct[g]}]
      BY <1>2, <2>1, <2>3 DEF TryLease
    <3>2. holder' = [holder EXCEPT ![g] = acct[g]]
      BY <1>0, <2>1, <3>1 DEF holder, TypeOK
    <3>3. holder[g] = NoAccount
      BY <2>1 DEF holder
    <3>4. overstay \/ \A h \in Call : holder[h] # acct[g]
      <4>1. ASSUME ~overstay, NEW h \in Call, holder[h] = acct[g] PROVE FALSE
        <5>1. owed[h] # {}
          BY <2>1, <4>1, ConstantFacts DEF holder
        <5>2. owed[h] = {acct[h]} /\ acct[h] = acct[g]
          BY <1>0, <4>1, <5>1 DEF holder, HoldsWhatItChose
        <5>3. QED
          BY <1>0, <2>1, <2>3, <4>1, <5>2, FreeAccountIsOwedByNobody
      <4>2. QED
        BY <4>1
    <3>5. Exclusive!Take(g, acct[g])
      BY <2>1, <3>1, <3>2, <3>3, <3>4 DEF Exclusive!Take
    <3>6. QED
      BY <2>1, <3>5 DEF Exclusive!Next
  <2>4. QED
    BY <2>2, <2>3
<1>3. ASSUME NEW g \in Call, FallBack(g) PROVE Goal
  <2>1. acct[g] \in Account /\ owed[g] = {acct[g]}
    BY <1>0, <1>3 DEF FallBack, HoldsWhatItChose, Holding
  <2>2. owed' = [owed EXCEPT ![g] = {}] /\ acct' = [acct EXCEPT ![g] = NoAccount]
        /\ excluded' = [excluded EXCEPT ![g] = @ \cup {acct[g]}] /\ UNCHANGED overstay
    BY <1>3, <2>1 DEF FallBack
  <2>3. holder[g] = acct[g] /\ holder' = [holder EXCEPT ![g] = NoAccount]
    BY <1>0, <2>1, <2>2 DEF holder, TypeOK
  <2>4. Exclusive!GiveBack(g)
    BY <2>1, <2>2, <2>3, ConstantFacts DEF Exclusive!GiveBack
  <2>5. QED
    BY <2>4 DEF Exclusive!Next
<1>4. ASSUME NEW g \in Call, Forget(g), owed' = [owed EXCEPT ![g] = {}], UNCHANGED overstay
      PROVE  Goal
  <2>1. holder' = [holder EXCEPT ![g] = NoAccount]
    BY <1>0, <1>4 DEF holder, Forget, TypeOK
  <2>2. Exclusive!End(g)
    BY <1>4, <2>1 DEF Exclusive!End, Forget
  <2>3. QED
    BY <2>2 DEF Exclusive!Next
<1>5. ASSUME NEW g \in Call, Return(g) PROVE Goal
  BY <1>4, <1>5 DEF Return
<1>6. ASSUME NEW g \in Call, NoneUsable(g) \/ AwaitRetry(g) PROVE Goal
  <2>1. owed[g] = {} /\ UNCHANGED <<owed, overstay>>
    BY <1>0, <1>6 DEF NoneUsable, AwaitRetry, HoldsWhatItChose, Holding
  <2>2. CASE Forget(g)
    BY <1>0, <1>4, <2>1, <2>2 DEF TypeOK
  <2>3. CASE ~Forget(g)
    BY <1>1, <1>6, <2>1, <2>3 DEF NoneUsable, AwaitRetry
  <2>4. QED
    BY <2>2, <2>3
<1>7. CASE Tick
  <2>1. UNCHANGED <<owed, excluded, acct>> /\ (overstay' = overstay \/ overstay' = TRUE)
    BY <1>0, <1>7 DEF Tick, TypeOK
  <2>2. UNCHANGED holder
    BY <2>1 DEF holder
  <2>3. QED
    BY <2>1, <2>2 DEF Exclusive!Next, Exclusive!Lapse, Exclusive!abstractVars
<1>8. ASSUME NEW g \in Call, NEW a \in Account, Pick(g, a) PROVE Goal
  <2>1. owed[g] = {}
    BY <1>0, <1>8 DEF Pick, HoldsWhatItChose, Holding
  <2>2. QED
    BY <1>0, <1>1, <1>8, <2>1 DEF Pick, TypeOK
<1>9. ASSUME UNCHANGED <<owed, excluded, overstay, acct>> PROVE Goal
  BY <1>1, <1>9
<1>10. QED
  BY <1>2, <1>3, <1>5, <1>6, <1>7, <1>8, <1>9
     DEF Next, Acquire, Start, SnapshotLeases, Work, StopOnCtx, Succeed, EndQuietly, Fail,
         Outcome, Record, Judge, Ban, Disconnect, DeleteToken, SetTokenActive, vars

\* The account pool implements ExclusiveAccounts.
THEOREM PoolImplementsExclusive == Spec => ImplementsExclusive
<1>1. Init => Exclusive!Init
  BY DEF Init, Exclusive!Init, holder
<1>2. QED
  BY <1>1, InductiveInvariant, StepRefines, PTL DEF Spec, ImplementsExclusive, Exclusive!Spec
=============================================================================
