------------------------------ MODULE ServerProofs ------------------------------
(***************************************************************************)
(* Proofs about what the server keeps beside accounts and generations.     *)
(* GuestQuota: typing, one generation per address, the slot table, and the *)
(* bounds on how far the daily limits are overrun.  StartUp and            *)
(* Configuration: every statement of a start finds what it needs, a server *)
(* that listens is complete, and settings are lost to overlapping updates  *)
(* and failed reads only.                                                  *)
(***************************************************************************)
EXTENDS Configuration, GuestQuota, FiniteSetTheorems, TLAPS

\* What the proofs about guests use of the constants.
LEMMA GuestConstants ==
  /\ NoIP \notin IP /\ MaxDaily \in Nat /\ GlobalMax \in Nat /\ MaxCount \in Nat
  /\ IsFiniteSet(GuestRequest) /\ IsFiniteSet(IP)
BY GuestAssumption

\* The initial states are well typed.
LEMMA GuestInitTypeOK == GuestInit => GuestTypeOK
<1> SUFFICES ASSUME GuestInit PROVE GuestTypeOK
  OBVIOUS
<1>1. used \in [IP -> 0 .. MaxCount] BY GuestConstants DEF GuestInit
<1>2. /\ enabled \in BOOLEAN /\ slot \in SUBSET IP /\ failedOpen \in BOOLEAN
      /\ pc \in [GuestRequest -> GuestSteps] /\ gone \in [GuestRequest -> BOOLEAN]
      /\ ip \in [GuestRequest -> IP \cup {NoIP}]
  BY DEF GuestInit, GuestSteps
<1>3. \A r \in GuestRequest : ip[r] = NoIP <=> pc[r] = "idle" BY DEF GuestInit
<1> QED BY <1>1, <1>2, <1>3 DEF GuestTypeOK

\* Every step of the handlers and of their environment keeps the types.
LEMMA GuestNextTypeOK == GuestTypeOK /\ [GuestNext]_guestVars => GuestTypeOK'
<1> SUFFICES ASSUME GuestTypeOK, [GuestNext]_guestVars PROVE GuestTypeOK'
  OBVIOUS
<1> USE GuestConstants
<1>1. ASSUME NEW r \in GuestRequest, NEW i \in IP, Arrive(r, i) PROVE GuestTypeOK'
  BY <1>1 DEF Arrive, GuestTypeOK, GuestSteps
<1>2. ASSUME NEW r \in GuestRequest, CheckIP(r) PROVE GuestTypeOK'
  BY <1>2 DEF CheckIP, Check, Answer, Proceed, GuestTypeOK, GuestSteps
<1>3. ASSUME NEW r \in GuestRequest, CheckGlobal(r) PROVE GuestTypeOK'
  BY <1>3 DEF CheckGlobal, Check, Answer, Proceed, GuestTypeOK, GuestSteps
<1>4. ASSUME NEW r \in GuestRequest, AcquireSlot(r) PROVE GuestTypeOK'
  <2>1. CASE ip[r] \in slot
    BY <1>4, <2>1 DEF AcquireSlot, Answer, GuestTypeOK, GuestSteps
  <2>2. CASE ip[r] \notin slot
    <3>1. slot' \in SUBSET IP BY <1>4, <2>2 DEF AcquireSlot, GuestTypeOK
    <3> QED BY <1>4, <2>2, <3>1 DEF AcquireSlot, Proceed, GuestTypeOK, GuestSteps
  <2> QED BY <2>1, <2>2
<1>5. ASSUME NEW r \in GuestRequest, Generated(r) PROVE GuestTypeOK'
  BY <1>5 DEF Generated, Proceed, GuestTypeOK, GuestSteps
<1>6. ASSUME NEW r \in GuestRequest, Panic(r) PROVE GuestTypeOK'
  BY <1>6 DEF Panic, Proceed, GuestTypeOK, GuestSteps
<1>7. ASSUME NEW r \in GuestRequest, Count(r) PROVE GuestTypeOK'
  <2>1. \A n \in 0 .. MaxCount : Counted(n) \in 0 .. MaxCount
    BY GuestConstants DEF Counted
  <2>2. used' \in [IP -> 0 .. MaxCount]
    BY <1>7, <2>1 DEF Count, GuestTypeOK
  <2> QED BY <1>7, <2>2 DEF Count, Proceed, GuestTypeOK, GuestSteps
<1>8. ASSUME NEW r \in GuestRequest, ReleaseSlot(r) PROVE GuestTypeOK'
  BY <1>8 DEF ReleaseSlot, Answer, GuestTypeOK, GuestSteps
<1>9. ASSUME NEW r \in GuestRequest, Disconnect(r) PROVE GuestTypeOK'
  BY <1>9 DEF Disconnect, GuestTypeOK, GuestSteps
<1>10. CASE NextDay
  BY <1>10 DEF NextDay, GuestTypeOK, GuestSteps
<1>11. CASE Toggle
  BY <1>11 DEF Toggle, GuestTypeOK, GuestSteps
<1>13. CASE Restart
  BY <1>13 DEF Restart, GuestTypeOK, GuestSteps
<1>12. CASE UNCHANGED guestVars
  BY <1>12 DEF guestVars, GuestTypeOK, GuestSteps
<1> QED
  BY <1>1, <1>2, <1>3, <1>4, <1>5, <1>6, <1>7, <1>8, <1>9, <1>10, <1>11, <1>12,
     <1>13
  DEF GuestNext, Serve

\* The variables keep their types in every reachable state.
THEOREM GuestTypeCorrect == GuestSpec => []GuestTypeOK
<1>1. GuestInit => GuestTypeOK BY GuestInitTypeOK
<1>2. GuestTypeOK /\ [GuestNext]_guestVars => GuestTypeOK' BY GuestNextTypeOK
<1> QED BY <1>1, <1>2, PTL DEF GuestSpec
-----------------------------------------------------------------------------
\* Neither part of SlotsAreOwned is inductive alone: exclusion needs the table to name every
\* owner, and releasing keeps the table exact only under exclusion.
SlotInvariant == GuestTypeOK /\ SlotTableIsExact /\ OneRunningPerIP

\* Owners and their addresses, and the slot table, do not change.
LEMMA SlotsUntouched ==
  ASSUME SlotInvariant, GuestTypeOK', Owners' = Owners, slot' = slot,
         \A r \in Owners : ip'[r] = ip[r]
  PROVE  SlotInvariant'
BY DEF SlotInvariant, SlotTableIsExact, OneRunningPerIP

\* Every step keeps the table exact and the owners' addresses distinct.
LEMMA NextSlotInvariant == SlotInvariant /\ [GuestNext]_guestVars => SlotInvariant'
<1> SUFFICES ASSUME SlotInvariant, [GuestNext]_guestVars PROVE SlotInvariant'
  OBVIOUS
<1>0. GuestTypeOK /\ GuestTypeOK' BY GuestNextTypeOK DEF SlotInvariant
<1>1. ASSUME NEW r \in GuestRequest, NEW i \in IP, Arrive(r, i) PROVE SlotInvariant'
  <2>1. Owners' = Owners BY <1>0, <1>1 DEF Arrive, Owners, GuestTypeOK
  <2>2. \A s \in Owners : ip'[s] = ip[s] BY <1>0, <1>1 DEF Arrive, Owners, GuestTypeOK
  <2> QED BY <1>0, <1>1, <2>1, <2>2, SlotsUntouched DEF Arrive
<1>2. ASSUME NEW r \in GuestRequest, CheckIP(r) \/ CheckGlobal(r) PROVE SlotInvariant'
  <2>1. Owners' = Owners
    BY <1>0, <1>2 DEF CheckIP, CheckGlobal, Check, Answer, Proceed, Owners, GuestTypeOK
  <2>2. \A s \in Owners : ip'[s] = ip[s]
    BY <1>0, <1>2 DEF CheckIP, CheckGlobal, Check, Answer, Proceed, Owners, GuestTypeOK
  <2>3. slot' = slot BY <1>2 DEF CheckIP, CheckGlobal
  <2> QED BY <1>0, <2>1, <2>2, <2>3, SlotsUntouched
<1>3. ASSUME NEW r \in GuestRequest, AcquireSlot(r) PROVE SlotInvariant'
  <2>1. CASE ip[r] \in slot
    <3>1. Owners' = Owners /\ slot' = slot
      BY <1>0, <1>3, <2>1 DEF AcquireSlot, Answer, Owners, GuestTypeOK
    <3>2. \A s \in Owners : ip'[s] = ip[s]
      BY <1>0, <1>3, <2>1 DEF AcquireSlot, Answer, Owners, GuestTypeOK
    <3> QED BY <1>0, <3>1, <3>2, SlotsUntouched
  <2>2. CASE ip[r] \notin slot
    <3>1. Owners' = Owners \cup {r} /\ ip' = ip /\ slot' = slot \cup {ip[r]}
      BY <1>0, <1>3, <2>2 DEF AcquireSlot, Proceed, Owners, GuestTypeOK
    <3>2. \A s \in Owners : ip[s] # ip[r]
      BY <2>2 DEF SlotInvariant, SlotTableIsExact
    <3>3. SlotTableIsExact' BY <3>1 DEF SlotInvariant, SlotTableIsExact
    <3>4. OneRunningPerIP' BY <3>1, <3>2 DEF SlotInvariant, OneRunningPerIP
    <3> QED BY <1>0, <3>3, <3>4 DEF SlotInvariant
  <2> QED BY <2>1, <2>2
<1>4. ASSUME NEW r \in GuestRequest, Generated(r) \/ Panic(r) \/ Count(r)
      PROVE SlotInvariant'
  <2>1. Owners' = Owners
    BY <1>0, <1>4 DEF Generated, Panic, Count, Proceed, Owners, GuestTypeOK
  <2>2. ip' = ip /\ slot' = slot BY <1>4 DEF Generated, Panic, Count, Proceed
  <2> QED BY <1>0, <2>1, <2>2, SlotsUntouched
<1>5. ASSUME NEW r \in GuestRequest, ReleaseSlot(r) PROVE SlotInvariant'
  <2>1. r \in Owners /\ Owners' = Owners \ {r}
    BY <1>0, <1>5 DEF ReleaseSlot, Answer, Owners, GuestTypeOK
  <2>2. \A s \in Owners \ {r} : ip'[s] = ip[s]
    BY <1>0, <1>5 DEF ReleaseSlot, Answer, Owners, GuestTypeOK
  <2>3. slot' = slot \ {ip[r]} BY <1>5 DEF ReleaseSlot
  <2>4. \A s \in Owners \ {r} : ip[s] # ip[r]
    BY <2>1 DEF SlotInvariant, OneRunningPerIP
  <2>5. slot = {ip[s] : s \in Owners} BY DEF SlotInvariant, SlotTableIsExact
  <2>6. slot' = {ip[s] : s \in Owners \ {r}} BY <2>1, <2>3, <2>4, <2>5
  <2>7. SlotTableIsExact' BY <2>1, <2>2, <2>6 DEF SlotTableIsExact
  <2>8. OneRunningPerIP' BY <2>1, <2>2 DEF SlotInvariant, OneRunningPerIP
  <2> QED BY <1>0, <2>7, <2>8 DEF SlotInvariant
<1>6. ASSUME NEW r \in GuestRequest, Disconnect(r) PROVE SlotInvariant'
  BY <1>0, <1>6, SlotsUntouched DEF Disconnect, Owners
<1>7. CASE NextDay \/ Toggle \/ UNCHANGED guestVars
  BY <1>0, <1>7, SlotsUntouched DEF NextDay, Toggle, guestVars, Owners
<1>8. CASE Restart
  <2>1. Owners' = {} /\ slot' = {} BY <1>8 DEF Restart, Owners
  <2> QED BY <1>0, <2>1 DEF SlotInvariant, SlotTableIsExact, OneRunningPerIP
<1> QED
  BY <1>1, <1>2, <1>3, <1>4, <1>5, <1>6, <1>7, <1>8 DEF GuestNext, Serve

\* The invariant holds in every reachable state.
LEMMA SlotInvariantHolds == GuestSpec => []SlotInvariant
<1>1. GuestInit => SlotInvariant
  BY GuestInitTypeOK DEF GuestInit, SlotInvariant, SlotTableIsExact, OneRunningPerIP, Owners
<1>2. SlotInvariant /\ [GuestNext]_guestVars => SlotInvariant' BY NextSlotInvariant
<1> QED BY <1>1, <1>2, PTL DEF GuestSpec

\* The slot table holds the addresses of the requests under way, each once, for
\* any number of requests and addresses, with clients leaving and handlers
\* panicking: no two requests of one address generate at the same time, no slot
\* leaks and none is given back twice.
THEOREM SlotsHaveOneOwner == GuestSpec => []SlotsAreOwned
<1>1. SlotInvariant => SlotsAreOwned BY DEF SlotInvariant, SlotsAreOwned
<1> QED BY <1>1, SlotInvariantHolds, PTL
-----------------------------------------------------------------------------
\* The bound needs only the types beside itself.
QuotaInvariant == GuestTypeOK /\ IPOvershootIsBounded

\* Any set of requests is finite and no larger than GuestRequest.
LEMMA RequestSets ==
  ASSUME NEW S \in SUBSET GuestRequest
  PROVE  /\ IsFiniteSet(S) /\ Cardinality(S) \in Nat
         /\ Cardinality(GuestRequest) \in Nat /\ Cardinality(S) <= Cardinality(GuestRequest)
BY GuestConstants, FS_Subset, FS_CardinalityType

\* The counter did not grow and nobody joined those who will count themselves.
LEMMA QuotaUnderPressure ==
  ASSUME QuotaInvariant, GuestTypeOK', failedOpen' = FALSE => failedOpen = FALSE,
         NEW i \in IP, used'[i] <= used[i], Uncounted(i)' \subseteq Uncounted(i)
  PROVE  MaxDaily > 0 /\ ~failedOpen' =>
           used'[i] + Cardinality(Uncounted(i)') <= MaxDaily - 1 + Cardinality(GuestRequest)
<1>1. Uncounted(i) \in SUBSET GuestRequest /\ Uncounted(i)' \in SUBSET GuestRequest
  BY DEF Uncounted
<1>2. Cardinality(Uncounted(i)') <= Cardinality(Uncounted(i))
  BY <1>1, RequestSets, FS_Subset
<1>3. /\ Cardinality(Uncounted(i)') \in Nat /\ Cardinality(Uncounted(i)) \in Nat
      /\ Cardinality(GuestRequest) \in Nat
  BY <1>1, RequestSets
<1>4. used[i] \in Nat /\ used'[i] \in Nat /\ failedOpen \in BOOLEAN /\ failedOpen' \in BOOLEAN
  BY DEF QuotaInvariant, GuestTypeOK
<1> QED BY <1>2, <1>3, <1>4, GuestConstants DEF QuotaInvariant, IPOvershootIsBounded

\* Every step keeps the bound: passing the check bounds the counter, counting
\* moves a request from the set to the counter, everything else only removes.
LEMMA NextQuotaInvariant == QuotaInvariant /\ [GuestNext]_guestVars => QuotaInvariant'
<1> SUFFICES ASSUME QuotaInvariant, [GuestNext]_guestVars PROVE QuotaInvariant'
  OBVIOUS
<1>0. GuestTypeOK /\ GuestTypeOK' BY GuestNextTypeOK DEF QuotaInvariant
<1> SUFFICES ASSUME NEW i \in IP, MaxDaily > 0, ~failedOpen'
             PROVE  used'[i] + Cardinality(Uncounted(i)')
                      <= MaxDaily - 1 + Cardinality(GuestRequest)
  BY <1>0 DEF QuotaInvariant, IPOvershootIsBounded
<1> DEFINE Bounded == used'[i] + Cardinality(Uncounted(i)')
                        <= MaxDaily - 1 + Cardinality(GuestRequest)
<1>20. /\ used[i] \in Nat /\ used'[i] \in Nat
          /\ failedOpen \in BOOLEAN /\ failedOpen' \in BOOLEAN
  BY <1>0 DEF GuestTypeOK
<1>21. ASSUME failedOpen' = failedOpen, used'[i] <= used[i],
                Uncounted(i)' \subseteq Uncounted(i)
         PROVE  Bounded
  BY <1>0, <1>21, QuotaUnderPressure
<1>22. /\ Cardinality(Uncounted(i)') \in Nat /\ Cardinality(Uncounted(i)) \in Nat
         /\ Cardinality(GuestRequest) \in Nat
         /\ Cardinality(Uncounted(i)') <= Cardinality(GuestRequest)
  BY RequestSets DEF Uncounted
<1>1. ASSUME NEW r \in GuestRequest, NEW j \in IP, Arrive(r, j) PROVE Bounded
  <2>1. Uncounted(i)' \subseteq Uncounted(i)
    BY <1>0, <1>1 DEF Arrive, Uncounted, GuestTypeOK
  <2> QED BY <1>1, <2>1, <1>21, <1>20 DEF Arrive
<1>2. ASSUME NEW r \in GuestRequest, CheckIP(r) PROVE Bounded
  <2>1. used' = used BY <1>2 DEF CheckIP
  <2>2. CASE ~gone[r] /\ used[ip[r]] < MaxDaily /\ ip[r] = i
    <3>1. used'[i] <= MaxDaily - 1 BY <2>1, <2>2, <1>20, GuestConstants
    <3> QED BY <3>1, <1>20, <1>22, GuestConstants
  <2>3. CASE ~(~gone[r] /\ used[ip[r]] < MaxDaily /\ ip[r] = i)
    <3>1. used[ip[r]] \in Nat
      BY <1>0, <1>2, GuestConstants DEF CheckIP, GuestTypeOK
    <3>2. gone[r] \/ ip[r] # i \/ (used[ip[r]] >= MaxDaily)
      BY <2>3, <3>1, GuestConstants
    <3>3. Uncounted(i)' \subseteq Uncounted(i)
      <4>1. CASE gone[r] \/ ip[r] # i
        BY <1>0, <1>2, <4>1 DEF CheckIP, Check, Answer, Proceed, Uncounted, GuestTypeOK
      <4>2. CASE ~gone[r] /\ used[ip[r]] >= MaxDaily
        <5>1. Answer(r)
          BY <1>0, <1>2, <4>2 DEF CheckIP, Check, GuestTypeOK
        <5> QED BY <1>0, <5>1 DEF Answer, Uncounted, GuestTypeOK
      <4> QED BY <3>2, <4>1, <4>2 DEF GuestTypeOK
    <3>4. failedOpen' = failedOpen
      BY <1>0, <1>2 DEF CheckIP, Check, GuestTypeOK
    <3> QED BY <2>1, <3>3, <3>4, <1>21, <1>20
  <2> QED BY <2>2, <2>3
<1>3. ASSUME NEW r \in GuestRequest, CheckGlobal(r) PROVE Bounded
  <2>1. Uncounted(i)' \subseteq Uncounted(i)
    BY <1>0, <1>3 DEF CheckGlobal, Check, Answer, Proceed, Uncounted, GuestTypeOK
  <2>2. used' = used /\ failedOpen' = failedOpen
    BY <1>0, <1>3 DEF CheckGlobal, Check, GuestTypeOK
  <2> QED BY <2>1, <2>2, <1>21, <1>20
<1>4. ASSUME NEW r \in GuestRequest, AcquireSlot(r) PROVE Bounded
  <2>1. Uncounted(i)' \subseteq Uncounted(i)
    BY <1>0, <1>4 DEF AcquireSlot, Answer, Proceed, Uncounted, GuestTypeOK
  <2> QED BY <1>4, <2>1, <1>21, <1>20 DEF AcquireSlot
<1>5. ASSUME NEW r \in GuestRequest, Generated(r) \/ Panic(r) PROVE Bounded
  <2>1. Uncounted(i)' \subseteq Uncounted(i)
    BY <1>0, <1>5 DEF Generated, Panic, Proceed, Uncounted, GuestTypeOK
  <2> QED BY <1>5, <2>1, <1>21, <1>20 DEF Generated, Panic
<1>6. ASSUME NEW r \in GuestRequest, Count(r) PROVE Bounded
  <2>1. failedOpen' = failedOpen /\ Proceed(r, "releasing") BY <1>6 DEF Count
  <2>2. Uncounted(i)' \subseteq Uncounted(i)
    BY <1>0, <1>6 DEF Count, Proceed, Uncounted, GuestTypeOK
  <2>3. CASE used'[i] <= used[i]
    BY <2>1, <2>2, <2>3, <1>21
  <2>4. CASE used'[i] > used[i]
    <3>1. ~gone[r] /\ ip[r] = i /\ used'[i] = Counted(used[i])
      BY <1>0, <1>6, <2>4, <1>20 DEF Count, GuestTypeOK
    <3>2. used'[i] = used[i] + 1
      BY <3>1, <2>4, <1>20, GuestConstants DEF Counted
    <3>3. r \in Uncounted(i) /\ r \notin Uncounted(i)'
      BY <1>0, <1>6, <3>1 DEF Count, Proceed, Uncounted, GuestTypeOK
    <3>4. Uncounted(i)' \subseteq Uncounted(i) \ {r} BY <2>2, <3>3
    <3>5. IsFiniteSet(Uncounted(i)) BY RequestSets DEF Uncounted
    <3>6. Cardinality(Uncounted(i) \ {r}) = Cardinality(Uncounted(i)) - 1
          /\ IsFiniteSet(Uncounted(i) \ {r})
      BY <3>3, <3>5, FS_RemoveElement
    <3>7. Cardinality(Uncounted(i)') <= Cardinality(Uncounted(i)) - 1
      BY <3>4, <3>6, FS_Subset
    <3>8. used[i] + Cardinality(Uncounted(i)) <= MaxDaily - 1 + Cardinality(GuestRequest)
      BY <2>1 DEF QuotaInvariant, IPOvershootIsBounded
    <3> QED BY <3>2, <3>7, <3>8, <1>20, <1>22, GuestConstants
  <2> QED BY <2>3, <2>4, <1>20
<1>7. ASSUME NEW r \in GuestRequest, ReleaseSlot(r) PROVE Bounded
  <2>1. Uncounted(i)' \subseteq Uncounted(i)
    BY <1>0, <1>7 DEF ReleaseSlot, Answer, Uncounted, GuestTypeOK
  <2> QED BY <1>7, <2>1, <1>21, <1>20 DEF ReleaseSlot
<1>8. ASSUME NEW r \in GuestRequest, Disconnect(r) PROVE Bounded
  <2>1. Uncounted(i)' \subseteq Uncounted(i)
    BY <1>0, <1>8 DEF Disconnect, Uncounted, GuestTypeOK
  <2> QED BY <1>8, <2>1, <1>21, <1>20 DEF Disconnect
<1>9. CASE NextDay
  <2>1. Uncounted(i)' \subseteq Uncounted(i) BY <1>9 DEF NextDay, Uncounted
  <2>2. used'[i] <= used[i] BY <1>9, <1>20 DEF NextDay
  <2> QED BY <1>9, <2>1, <2>2, <1>21 DEF NextDay
<1>11. CASE Restart
  <2>1. Uncounted(i)' \subseteq Uncounted(i) BY <1>11 DEF Restart, Uncounted
  <2> QED BY <1>11, <2>1, <1>21, <1>20 DEF Restart
<1>10. CASE Toggle \/ UNCHANGED guestVars
  <2>1. Uncounted(i)' \subseteq Uncounted(i)
    BY <1>10 DEF Toggle, guestVars, Uncounted
  <2> QED BY <1>10, <2>1, <1>21, <1>20 DEF Toggle, guestVars
<1> QED
  BY <1>1, <1>2, <1>3, <1>4, <1>5, <1>6, <1>7, <1>8, <1>9, <1>10, <1>11
  DEF GuestNext, Serve

\* However many requests an address sends at once, it exceeds its daily limit
\* by less than their number, as long as the counters can be read.
THEOREM OvershootIsBounded == GuestSpec => []IPOvershootIsBounded
<1>1. GuestInit => QuotaInvariant
  <2> SUFFICES ASSUME GuestInit, NEW i \in IP, MaxDaily > 0
               PROVE  used[i] + Cardinality(Uncounted(i))
                        <= MaxDaily - 1 + Cardinality(GuestRequest)
    BY GuestInitTypeOK DEF QuotaInvariant, IPOvershootIsBounded
  <2>1. Cardinality(Uncounted(i)) \in Nat /\ Cardinality(GuestRequest) \in Nat
        /\ Cardinality(Uncounted(i)) <= Cardinality(GuestRequest)
    BY RequestSets DEF Uncounted
  <2>2. used[i] = 0 BY DEF GuestInit
  <2> QED BY <2>1, <2>2, GuestConstants
<1>2. QuotaInvariant /\ [GuestNext]_guestVars => QuotaInvariant' BY NextQuotaInvariant
<1>3. QuotaInvariant => IPOvershootIsBounded BY DEF QuotaInvariant
<1> QED BY <1>1, <1>2, <1>3, PTL DEF GuestSpec
-----------------------------------------------------------------------------
\* The bound on the sum needs only the types beside itself, too.
GlobalInvariant == GuestTypeOK /\ GlobalOvershootIsBounded

\* Whatever the counters say, there are finitely many uses.
LEMMA UseSets ==
  ASSUME NEW S \in SUBSET (IP \X (1 .. MaxCount))
  PROVE  IsFiniteSet(S) /\ Cardinality(S) \in Nat
<1>1. IsFiniteSet(1 .. MaxCount) BY GuestConstants, FS_Interval
<1>2. IsFiniteSet(IP \X (1 .. MaxCount)) BY <1>1, GuestConstants, FS_Product
<1>3. IsFiniteSet(S) BY <1>2, FS_Subset
<1> QED BY <1>3, FS_CardinalityType

\* Counting a request adds one use to the sum, or none.
LEMMA CountAddsOneUse ==
  ASSUME GuestTypeOK, NEW i \in IP, used' = [used EXCEPT ![i] = Counted(@)]
  PROVE  Total' <= Total + 1
<1> DEFINE new == <<i, used[i] + 1>>
<1>1. used[i] \in Nat /\ \A j \in IP : used[j] \in Nat
  BY GuestConstants DEF GuestTypeOK
<1>2. ASSUME NEW u \in IP \X (1 .. MaxCount), u[2] <= used'[u[1]], u # new
      PROVE  u[2] <= used[u[1]]
  <2>1. u[1] \in IP /\ u[2] \in Nat /\ u = <<u[1], u[2]>>
    BY GuestConstants
  <2>2. CASE u[1] # i
    BY <1>2, <2>1, <2>2 DEF GuestTypeOK
  <2>3. CASE u[1] = i
    <3>1. used'[i] = Counted(used[i]) BY DEF GuestTypeOK
    <3>2. u[2] # used[i] + 1 BY <1>2, <2>1, <2>3
    <3> QED BY <1>1, <1>2, <2>1, <2>3, <3>1, <3>2, GuestConstants DEF Counted
  <2> QED BY <2>2, <2>3
<1>3. Uses' \subseteq Uses \cup {new}
  BY <1>2 DEF Uses
<1> HIDE DEF new
<1>4. IsFiniteSet(Uses) /\ Total \in Nat /\ Total' \in Nat
  BY UseSets DEF Uses, Total
<1>5. /\ IsFiniteSet(Uses \cup {new})
      /\ Cardinality(Uses \cup {new})
           = IF new \in Uses THEN Cardinality(Uses) ELSE Cardinality(Uses) + 1
  BY <1>4, FS_AddElement
<1>6. Cardinality(Uses') <= Cardinality(Uses \cup {new})
  BY <1>3, <1>5, FS_Subset
<1>7. Cardinality(Uses \cup {new}) <= Cardinality(Uses) + 1
  BY <1>4, <1>5 DEF Total
<1>8. Cardinality(Uses \cup {new}) \in Nat BY <1>5, FS_CardinalityType
<1> QED BY <1>4, <1>6, <1>7, <1>8 DEF Total

\* Every step keeps the bound on the sum, by the same count as for one address: whoever
\* passes the check leaves at most all the others uncounted.
LEMMA NextGlobalInvariant == GlobalInvariant /\ [GuestNext]_guestVars => GlobalInvariant'
<1> SUFFICES ASSUME GlobalInvariant, [GuestNext]_guestVars PROVE GlobalInvariant'
  OBVIOUS
<1>0. GuestTypeOK /\ GuestTypeOK' BY GuestNextTypeOK DEF GlobalInvariant
<1> DEFINE Waiting == Cardinality(UncountedGlobally)
           Everyone == Cardinality(GuestRequest)
           Bounded == Total' + Waiting' <= GlobalMax - 1 + Everyone
<1> SUFFICES ASSUME GlobalMax > 0, ~failedOpen' PROVE Bounded
  BY <1>0 DEF GlobalInvariant, GlobalOvershootIsBounded
<1>20. /\ Total \in Nat /\ Total' \in Nat /\ IsFiniteSet(Uses)
       /\ failedOpen \in BOOLEAN /\ failedOpen' \in BOOLEAN
  BY <1>0, UseSets DEF GuestTypeOK, Total, Uses
<1>22. /\ Waiting \in Nat /\ Waiting' \in Nat /\ Everyone \in Nat /\ Waiting' <= Everyone
       /\ IsFiniteSet(UncountedGlobally)
  BY RequestSets DEF UncountedGlobally
<1>23. ~failedOpen => Total + Waiting <= GlobalMax - 1 + Everyone
  BY DEF GlobalInvariant, GlobalOvershootIsBounded
<1>21. ASSUME failedOpen' = failedOpen, Total' <= Total,
              UncountedGlobally' \subseteq UncountedGlobally
       PROVE  Bounded
  <2>1. Waiting' <= Waiting BY <1>21, <1>22, FS_Subset
  <2> QED BY <2>1, <1>20, <1>21, <1>22, <1>23, GuestConstants
<1>24. ASSUME used' = used PROVE Total' = Total
  BY <1>24 DEF Total, Uses
<1>1. ASSUME NEW r \in GuestRequest, NEW j \in IP, Arrive(r, j) PROVE Bounded
  <2>1. UncountedGlobally' \subseteq UncountedGlobally
    BY <1>0, <1>1 DEF Arrive, UncountedGlobally, GuestTypeOK
  <2>2. used' = used /\ failedOpen' = failedOpen BY <1>1 DEF Arrive
  <2> QED BY <2>1, <2>2, <1>20, <1>21, <1>24
<1>2. ASSUME NEW r \in GuestRequest, CheckIP(r) PROVE Bounded
  <2>1. UncountedGlobally' \subseteq UncountedGlobally
    BY <1>0, <1>2 DEF CheckIP, Check, Answer, Proceed, UncountedGlobally, GuestTypeOK
  <2>2. used' = used /\ failedOpen' = failedOpen
    BY <1>0, <1>2 DEF CheckIP, Check, GuestTypeOK
  <2> QED BY <2>1, <2>2, <1>20, <1>21, <1>24
<1>3. ASSUME NEW r \in GuestRequest, CheckGlobal(r) PROVE Bounded
  <2>1. used' = used BY <1>3 DEF CheckGlobal
  <2>2. CASE Total < GlobalMax
    <3>1. Total' <= GlobalMax - 1 BY <2>1, <2>2, <1>20, <1>24, GuestConstants
    <3> QED BY <3>1, <1>20, <1>22, GuestConstants
  <2>3. CASE Total >= GlobalMax
    <3>1. gone[r] \/ Answer(r)
      BY <1>0, <1>3, <2>3 DEF CheckGlobal, Check, GuestTypeOK
    <3>2. gone[r] => UncountedGlobally' \subseteq UncountedGlobally
      BY <1>0, <1>3 DEF CheckGlobal, Check, Answer, Proceed, UncountedGlobally,
                              GuestTypeOK
    <3>3. Answer(r) => UncountedGlobally' \subseteq UncountedGlobally
      BY <1>0 DEF Answer, UncountedGlobally, GuestTypeOK
    <3>4. failedOpen' = failedOpen
      BY <1>0, <1>3 DEF CheckGlobal, Check, GuestTypeOK
    <3> QED BY <2>1, <3>1, <3>2, <3>3, <3>4, <1>20, <1>21, <1>24
  <2> QED BY <2>2, <2>3, <1>20, GuestConstants
<1>4. ASSUME NEW r \in GuestRequest, AcquireSlot(r) PROVE Bounded
  <2>1. UncountedGlobally' \subseteq UncountedGlobally
    BY <1>0, <1>4 DEF AcquireSlot, Answer, Proceed, UncountedGlobally, GuestTypeOK
  <2>2. used' = used /\ failedOpen' = failedOpen BY <1>4 DEF AcquireSlot
  <2> QED BY <2>1, <2>2, <1>20, <1>21, <1>24
<1>5. ASSUME NEW r \in GuestRequest, Generated(r) \/ Panic(r) PROVE Bounded
  <2>1. UncountedGlobally' \subseteq UncountedGlobally
    BY <1>0, <1>5 DEF Generated, Panic, Proceed, UncountedGlobally, GuestTypeOK
  <2>2. used' = used /\ failedOpen' = failedOpen BY <1>5 DEF Generated, Panic
  <2> QED BY <2>1, <2>2, <1>20, <1>21, <1>24
<1>6. ASSUME NEW r \in GuestRequest, Count(r) PROVE Bounded
  <2>1. failedOpen' = failedOpen BY <1>6 DEF Count
  <2>2. UncountedGlobally' \subseteq UncountedGlobally
    BY <1>0, <1>6 DEF Count, Proceed, UncountedGlobally, GuestTypeOK
  <2>3. CASE UNCHANGED used
    BY <2>1, <2>2, <2>3, <1>20, <1>21, <1>24
  <2>4. CASE ~gone[r] /\ used' = [used EXCEPT ![ip[r]] = Counted(@)]
    <3>1. ip[r] \in IP BY <1>0, <1>6, GuestConstants DEF Count, GuestTypeOK
    <3>2. Total' <= Total + 1 BY <1>0, <2>4, <3>1, CountAddsOneUse
    <3>3. r \in UncountedGlobally /\ r \notin UncountedGlobally'
      BY <1>0, <1>6, <2>4 DEF Count, Proceed, UncountedGlobally, GuestTypeOK
    <3>4. UncountedGlobally' \subseteq UncountedGlobally \ {r} BY <2>2, <3>3
    <3>5. /\ Cardinality(UncountedGlobally \ {r}) = Waiting - 1
          /\ IsFiniteSet(UncountedGlobally \ {r})
      BY <3>3, <1>22, FS_RemoveElement
    <3>6. Waiting' <= Waiting - 1 BY <3>4, <3>5, FS_Subset
    <3> QED BY <2>1, <3>2, <3>6, <1>20, <1>22, <1>23, GuestConstants
  <2> QED BY <1>6, <2>3, <2>4 DEF Count
<1>7. ASSUME NEW r \in GuestRequest, ReleaseSlot(r) PROVE Bounded
  <2>1. UncountedGlobally' \subseteq UncountedGlobally
    BY <1>0, <1>7 DEF ReleaseSlot, Answer, UncountedGlobally, GuestTypeOK
  <2>2. used' = used /\ failedOpen' = failedOpen BY <1>7 DEF ReleaseSlot
  <2> QED BY <2>1, <2>2, <1>20, <1>21, <1>24
<1>8. ASSUME NEW r \in GuestRequest, Disconnect(r) PROVE Bounded
  <2>1. UncountedGlobally' \subseteq UncountedGlobally
    BY <1>0, <1>8 DEF Disconnect, UncountedGlobally, GuestTypeOK
  <2>2. used' = used /\ failedOpen' = failedOpen BY <1>8 DEF Disconnect
  <2> QED BY <2>1, <2>2, <1>20, <1>21, <1>24
<1>9. CASE NextDay
  <2>1. UncountedGlobally' \subseteq UncountedGlobally
    BY <1>9 DEF NextDay, UncountedGlobally
  <2>2. Uses' = {} BY <1>9, GuestConstants DEF NextDay, Uses
  <2>3. Total' = 0 BY <2>2, FS_EmptySet DEF Total
  <2> QED BY <1>9, <2>1, <2>3, <1>20, <1>21 DEF NextDay
<1>10. CASE Restart
  <2>1. UncountedGlobally' \subseteq UncountedGlobally
    BY <1>10 DEF Restart, UncountedGlobally
  <2>2. used' = used /\ failedOpen' = failedOpen BY <1>10 DEF Restart
  <2> QED BY <2>1, <2>2, <1>20, <1>21, <1>24
<1>11. CASE Toggle \/ UNCHANGED guestVars
  <2>1. UncountedGlobally' \subseteq UncountedGlobally
    BY <1>11 DEF Toggle, guestVars, UncountedGlobally
  <2>2. used' = used /\ failedOpen' = failedOpen BY <1>11 DEF Toggle, guestVars
  <2> QED BY <2>1, <2>2, <1>20, <1>21, <1>24
<1> HIDE DEF Bounded
<1> QED
  BY <1>1, <1>2, <1>3, <1>4, <1>5, <1>6, <1>7, <1>8, <1>9, <1>10, <1>11
  DEF GuestNext, Serve

\* However many requests arrive at once, from however many addresses, the day's limit
\* on all guests together is exceeded by less than their number, as long as the
\* counters can be read.
THEOREM GlobalOvershoot == GuestSpec => []GlobalOvershootIsBounded
<1>1. GuestInit => GlobalInvariant
  <2> SUFFICES ASSUME GuestInit, GlobalMax > 0
               PROVE  Total + Cardinality(UncountedGlobally)
                        <= GlobalMax - 1 + Cardinality(GuestRequest)
    BY GuestInitTypeOK DEF GlobalInvariant, GlobalOvershootIsBounded
  <2>1. Cardinality(UncountedGlobally) \in Nat /\ Cardinality(GuestRequest) \in Nat
        /\ Cardinality(UncountedGlobally) <= Cardinality(GuestRequest)
    BY RequestSets DEF UncountedGlobally
  <2>2. Uses = {} BY GuestConstants DEF GuestInit, Uses
  <2>3. Total = 0 BY <2>2, FS_EmptySet DEF Total
  <2> QED BY <2>1, <2>3, GuestConstants
<1>2. GlobalInvariant /\ [GuestNext]_guestVars => GlobalInvariant' BY NextGlobalInvariant
<1>3. GlobalInvariant => GlobalOvershootIsBounded BY DEF GlobalInvariant
<1> QED BY <1>1, <1>2, <1>3, PTL DEF GuestSpec
-----------------------------------------------------------------------------
\* What the proofs use of the schema.
LEMMA SchemaFacts ==
  /\ Config \subseteq Table /\ Numbered \subseteq Table /\ Accounts \in Table
  /\ Table \cap Column = {} /\ Table \cap Index = {} /\ Column \cap Index = {}
  /\ TableOf \in [Column -> Table] /\ Needs \in [Index -> SUBSET Column]
  /\ MaxRow \in Nat \ {0}
  /\ SettingsTable \in Config
  /\ Zero \in Value /\ Default \in Value /\ Unset \notin Value
BY StartAssumption, SettingsAssumption

\* The stages of a start, spelled out.
LEMMA StageNames ==
  /\ DOMAIN Stages = 1 .. 6 /\ Len(Stages) = 6
  /\ Stages[1] = "tables" /\ Stages[2] = "columns" /\ Stages[3] = "numbers"
  /\ Stages[4] = "indexes" /\ Stages[5] = "rows" /\ Stages[6] = "account"
BY DEF Stages

\* What a start has behind it in each stage.
Progress ==
  /\ stage = "tables" => Table \ todo \subseteq tables
  /\ stage = "columns" => Column \ todo \subseteq columns
  /\ stage = "numbers" => Numbered \ todo \subseteq linked
  /\ stage = "indexes" => Index \ todo \subseteq indexes
  /\ stage = "rows" => Config \ todo \subseteq filled
  /\ stage \notin {"down", "tables"} => tables = Table
  /\ stage \notin {"down", "tables", "columns"} => columns = Column
  /\ stage \in {"indexes", "rows", "account", "up"} => linked = Numbered
  /\ stage \in {"rows", "account", "up"} => indexes = Index
  /\ stage \in {"account", "up"} => filled = Config

\* A sequence is ahead before it numbers anything, and a table that does not exist
\* has no rows.
NumbersAhead ==
  /\ NewIdsAreFresh
  /\ \A t \in Numbered : step[t] = "default" => sequence[t] > top[t]
  /\ \A t \in Numbered \ tables : top[t] = 0

StartInvariant == StartTypeOK /\ Progress /\ NumbersAhead

\* The stages by name.
AllStages == {"down", "up", "tables", "columns", "numbers", "indexes", "rows", "account"}

\* The type of the stage is that set.
LEMMA StagesAre == Stage = AllStages
<1>1. {Stages[i] : i \in DOMAIN Stages}
        = {"tables", "columns", "numbers", "indexes", "rows", "account"}
  <2>1. {Stages[i] : i \in DOMAIN Stages} = {Stages[i] : i \in {1, 2, 3, 4, 5, 6}}
    <3>1. 1 .. 6 = {1, 2, 3, 4, 5, 6} OBVIOUS
    <3> QED BY <3>1, StageNames
  <2> QED BY <2>1, StageNames, Zenon
<1> QED BY <1>1 DEF Stage, AllStages

\* A stage and the one that follows it.
Follows(s, next) ==
  \/ s = "tables" /\ next = "columns"
  \/ s = "columns" /\ next = "numbers"
  \/ s = "numbers" /\ next = "indexes"
  \/ s = "indexes" /\ next = "rows"
  \/ s = "rows" /\ next = "account"
  \/ s = "account" /\ next = "up"

\* Whatever the position, the entry after a stage is the one that follows it.
LEMMA AdvanceFollows ==
  ASSUME NEW i \in DOMAIN Stages
  PROVE  Follows(Stages[i], IF i = Len(Stages) THEN "up" ELSE Stages[i + 1])
<1> DEFINE next == IF i = Len(Stages) THEN "up" ELSE Stages[i + 1]
<1>1. i \in {1, 2, 3, 4, 5, 6} BY StageNames
<1>2. i # 6 => next = Stages[i + 1] BY StageNames
<1>3. i = 6 => next = "up" BY StageNames
<1>4. CASE i = 1
  <2>1. next = Stages[2] BY <1>2, <1>4
  <2> QED BY <1>4, <2>1, StageNames DEF Follows
<1>5. CASE i = 2
  <2>1. next = Stages[3] BY <1>2, <1>5
  <2> QED BY <1>5, <2>1, StageNames DEF Follows
<1>6. CASE i = 3
  <2>1. next = Stages[4] BY <1>2, <1>6
  <2> QED BY <1>6, <2>1, StageNames DEF Follows
<1>7. CASE i = 4
  <2>1. next = Stages[5] BY <1>2, <1>7
  <2> QED BY <1>7, <2>1, StageNames DEF Follows
<1>8. CASE i = 5
  <2>1. next = Stages[6] BY <1>2, <1>8
  <2> QED BY <1>8, <2>1, StageNames DEF Follows
<1>9. CASE i = 6
  <2> QED BY <1>9, <1>3, StageNames DEF Follows
<1> QED BY <1>1, <1>4, <1>5, <1>6, <1>7, <1>8, <1>9

\* Any database an earlier version may have left is a good one to start on.
LEMMA StartInitInvariant == StartInit => StartInvariant
<1> SUFFICES ASSUME StartInit PROVE StartInvariant
  OBVIOUS
<1>1. /\ stage = "down" /\ todo = {} /\ tables \subseteq Table /\ indexes = {}
      /\ filled \subseteq Config /\ filled \subseteq tables
      /\ linked \subseteq Numbered /\ linked \subseteq tables
      /\ columns \subseteq Column /\ \A c \in columns : TableOf[c] \in tables
      /\ step \in [Numbered -> Steps] /\ \A t \in Numbered : step[t] = "check"
  BY DEF StartInit, Steps
<1>2. top \in [Numbered -> 0 .. MaxRow] BY SchemaFacts DEF StartInit
<1>3. sequence \in [Numbered -> 0 .. MaxRow + 1]
  <2>1. \A t \in Numbered : (IF t \in linked THEN top[t] + 1 ELSE 0) \in 0 .. MaxRow + 1
    BY <1>2, SchemaFacts
  <2> QED BY <2>1 DEF StartInit
<1>4. StartTypeOK BY <1>1, <1>2, <1>3, StagesAre DEF StartTypeOK, AllStages
<1>5. NumbersAhead
  <2>1. NewIdsAreFresh
    BY <1>1, <1>2, SchemaFacts DEF NewIdsAreFresh, StartInit
  <2> QED BY <1>1, <2>1 DEF NumbersAhead, StartInit
<1> QED BY <1>1, <1>4, <1>5 DEF StartInvariant, Progress

\* The parts of the typing that most steps leave alone.
LEMMA StartParts ==
  ASSUME StartTypeOK
  PROVE  /\ stage \in AllStages /\ todo \subseteq Work(stage)
         /\ tables \subseteq Table /\ columns \subseteq Column /\ indexes \subseteq Index
         /\ filled \subseteq Config /\ linked \subseteq Numbered
         /\ filled \subseteq tables /\ linked \subseteq tables
         /\ \A t \in Numbered :
              /\ top[t] \in 0 .. MaxRow /\ sequence[t] \in 0 .. MaxRow + 1
              /\ step[t] # "check" => stage = "numbers" /\ t \in todo \ linked
BY StagesAre DEF StartTypeOK

\* The stage that a statement belongs to.
LEMMA StageOfWork ==
  ASSUME StartTypeOK, NEW x \in todo
  PROVE  /\ x \in Column => stage = "columns"
         /\ x \in Index => stage = "indexes"
         /\ x \in Table => stage \in {"tables", "numbers", "rows", "account"}
<1>1. x \in Work(stage) /\ stage \in AllStages BY StartParts
<1>2. stage \notin {"down", "up"} BY <1>1 DEF Work
<1>3. stage \in {"tables", "columns", "numbers", "indexes", "rows", "account"}
  BY <1>1, <1>2 DEF AllStages
<1>4. /\ stage = "columns" => x \in Column
      /\ stage = "indexes" => x \in Index
      /\ stage \in {"tables", "numbers", "rows", "account"} => x \in Table
  BY <1>1, SchemaFacts DEF Work
<1>5. /\ ~(x \in Column /\ x \in Table) /\ ~(x \in Column /\ x \in Index)
      /\ ~(x \in Table /\ x \in Index)
  BY SchemaFacts
<1> QED BY <1>3, <1>4, <1>5

\* A start begins with nothing behind it.
LEMMA BootKeeps == StartInvariant /\ Boot => StartInvariant'
<1> SUFFICES ASSUME StartInvariant, Boot PROVE StartInvariant'
  OBVIOUS
<1>1. StartTypeOK'
  BY StagesAre DEF StartInvariant, StartTypeOK, Boot, numbers, AllStages, Work
<1>2. Progress' BY DEF StartInvariant, Progress, Boot, Work
<1>3. NumbersAhead' BY DEF StartInvariant, NumbersAhead, NewIdsAreFresh, Boot, numbers
<1> QED BY <1>1, <1>2, <1>3 DEF StartInvariant

\* A process that stops leaves the database as it is, wherever it was.
LEMMA StopKeeps == StartInvariant /\ Stop => StartInvariant'
<1> SUFFICES ASSUME StartInvariant, Stop PROVE StartInvariant'
  OBVIOUS
<1>1. StartTypeOK'
  BY StagesAre DEF StartInvariant, StartTypeOK, Stop, AllStages, Work, Steps
<1>2. Progress' BY DEF StartInvariant, Progress, Stop
<1>3. NumbersAhead' BY DEF StartInvariant, NumbersAhead, NewIdsAreFresh, Stop, Steps
<1> QED BY <1>1, <1>2, <1>3 DEF StartInvariant

\* A stage that has nothing left to do is behind the next one.
LEMMA AdvanceKeeps == StartInvariant /\ Advance => StartInvariant'
<1> SUFFICES ASSUME StartInvariant, Advance PROVE StartInvariant'
  OBVIOUS
<1>0. StartTypeOK BY DEF StartInvariant
<1>1. Follows(stage, stage') BY AdvanceFollows DEF Advance
<1>3. /\ todo = {} /\ todo' = Work(stage') /\ UNCHANGED <<tables, columns, indexes, filled>>
      /\ UNCHANGED <<top, sequence, linked, step>>
  BY DEF Advance, numbers
<1>4. stage' \in Stage BY <1>1, StagesAre DEF AllStages, Follows
<1>5. \A t \in Numbered : step[t] = "check" BY <1>0, <1>3, StartParts
<1>6. StartTypeOK' BY <1>0, <1>3, <1>4, <1>5 DEF StartTypeOK
<1>7. Progress'
  <2> USE <1>0, <1>3, StartParts DEF StartInvariant, Progress, Work
  <2>1. CASE stage = "tables" /\ stage' = "columns" BY <2>1
  <2>2. CASE stage = "columns" /\ stage' = "numbers" BY <2>2
  <2>3. CASE stage = "numbers" /\ stage' = "indexes" BY <2>3
  <2>4. CASE stage = "indexes" /\ stage' = "rows" BY <2>4
  <2>5. CASE stage = "rows" /\ stage' = "account" BY <2>5
  <2>6. CASE stage = "account" /\ stage' = "up" BY <2>6
  <2> QED BY <1>1, <2>1, <2>2, <2>3, <2>4, <2>5, <2>6 DEF Follows
<1>8. NumbersAhead' BY <1>3 DEF StartInvariant, NumbersAhead, NewIdsAreFresh
<1> QED BY <1>6, <1>7, <1>8 DEF StartInvariant

\* A statement of the stage is done.
LEMMA ExecutedKeeps ==
  ASSUME StartInvariant, NEW x, Executed(x)
  PROVE  /\ x \in todo /\ todo' \subseteq todo /\ todo' = todo \ {x} /\ stage' = stage
         /\ stage' \in Stage /\ todo' \subseteq Work(stage')
BY DEF Executed, StartInvariant, StartTypeOK

\* A table that is created has its later columns, and a sequence that nothing was taken from.
LEMMA CreateTableKeeps ==
  ASSUME StartInvariant, NEW t \in Table, CreateTable(t)
  PROVE  StartInvariant'
<1>0. StartTypeOK BY DEF StartInvariant
<1>1. /\ stage = "tables" /\ Executed(t) /\ UNCHANGED <<indexes, filled, top, step>>
  BY DEF CreateTable
<1>2. /\ todo' = todo \ {t} /\ stage' = stage /\ stage' \in Stage /\ todo' \subseteq Work(stage')
  BY <1>1, ExecutedKeeps
<1>3. \A u \in Numbered : step[u] = "check" BY <1>0, <1>1, StartParts
<1>4. CASE t \in tables
  <2>1. UNCHANGED <<tables, columns, sequence, linked>> BY <1>4 DEF CreateTable
  <2>2. StartTypeOK' BY <1>0, <1>1, <1>2, <1>3, <2>1 DEF StartTypeOK
  <2>3. Progress' BY <1>1, <1>2, <1>4, <2>1 DEF StartInvariant, Progress
  <2>4. NumbersAhead' BY <1>1, <2>1 DEF StartInvariant, NumbersAhead, NewIdsAreFresh
  <2> QED BY <2>2, <2>3, <2>4 DEF StartInvariant
<1>5. CASE t \notin tables
  <2>1. /\ tables' = tables \cup {t}
        /\ columns' = columns \cup Missing(t)
        /\ linked' = linked \cup ({t} \cap Numbered)
        /\ sequence' = [u \in Numbered |-> IF u = t THEN 1 ELSE sequence[u]]
    BY <1>5 DEF CreateTable
  <2>2. sequence' \in [Numbered -> 0 .. MaxRow + 1]
    <3>1. \A u \in Numbered : (IF u = t THEN 1 ELSE sequence[u]) \in 0 .. MaxRow + 1
      BY <1>0, StartParts, SchemaFacts
    <3> QED BY <2>1, <3>1
  <2>3. /\ columns' \subseteq Column /\ \A c \in columns' : TableOf[c] \in tables'
    BY <1>0, <2>1 DEF StartTypeOK, Missing
  <2>4. \A i \in indexes' : Needs[i] \subseteq columns'
    BY <1>0, <1>1, <2>1 DEF StartTypeOK
  <2>5. StartTypeOK'
    BY <1>0, <1>1, <1>2, <1>3, <2>1, <2>2, <2>3, <2>4 DEF StartTypeOK
  <2>6. Progress' BY <1>1, <1>2, <2>1 DEF StartInvariant, Progress
  <2>7. NumbersAhead'
    <3>1. t \in Numbered => top[t] = 0 BY <1>5 DEF StartInvariant, NumbersAhead
    <3>2. NewIdsAreFresh'
      BY <1>0, <1>1, <2>1, <3>1, StartParts DEF StartInvariant, NumbersAhead, NewIdsAreFresh
    <3> QED BY <1>1, <1>3, <2>1, <3>2 DEF StartInvariant, NumbersAhead
  <2> QED BY <2>5, <2>6, <2>7 DEF StartInvariant
<1> QED BY <1>4, <1>5

\* ensureColumn keeps the invariant.
LEMMA EnsureColumnKeeps ==
  ASSUME StartInvariant, NEW c \in Column, EnsureColumn(c)
  PROVE  StartInvariant'
<1>0. StartTypeOK BY DEF StartInvariant
<1>1. /\ Executed(c) /\ TableOf[c] \in tables /\ columns' = columns \cup {c}
      /\ UNCHANGED <<tables, indexes, filled>> /\ UNCHANGED <<top, sequence, linked, step>>
  BY DEF EnsureColumn, numbers
<1>2. /\ c \in todo /\ todo' = todo \ {c} /\ stage' = stage /\ stage' \in Stage
      /\ todo' \subseteq Work(stage')
  BY <1>1, ExecutedKeeps
<1>3. stage = "columns" BY <1>0, <1>2, StageOfWork
<1>4. \A u \in Numbered : step[u] = "check" BY <1>0, <1>3, StartParts
<1>5. StartTypeOK' BY <1>0, <1>1, <1>2, <1>4 DEF StartTypeOK
<1>6. Progress' BY <1>1, <1>2, <1>3 DEF StartInvariant, Progress
<1>7. NumbersAhead' BY <1>1 DEF StartInvariant, NumbersAhead, NewIdsAreFresh
<1> QED BY <1>5, <1>6, <1>7 DEF StartInvariant

\* An index is created over columns that exist.
LEMMA CreateIndexKeeps ==
  ASSUME StartInvariant, NEW i \in Index, CreateIndex(i)
  PROVE  StartInvariant'
<1>0. StartTypeOK BY DEF StartInvariant
<1>1. /\ Executed(i) /\ Needs[i] \subseteq columns /\ indexes' = indexes \cup {i}
      /\ UNCHANGED <<tables, columns, filled>> /\ UNCHANGED <<top, sequence, linked, step>>
  BY DEF CreateIndex, numbers
<1>2. /\ i \in todo /\ todo' = todo \ {i} /\ stage' = stage /\ stage' \in Stage
      /\ todo' \subseteq Work(stage')
  BY <1>1, ExecutedKeeps
<1>3. stage = "indexes" BY <1>0, <1>2, StageOfWork
<1>4. \A u \in Numbered : step[u] = "check" BY <1>0, <1>3, StartParts
<1>5. StartTypeOK' BY <1>0, <1>1, <1>2, <1>4 DEF StartTypeOK
<1>6. Progress' BY <1>1, <1>2, <1>3 DEF StartInvariant, Progress
<1>7. NumbersAhead' BY <1>1 DEF StartInvariant, NumbersAhead, NewIdsAreFresh
<1> QED BY <1>5, <1>6, <1>7 DEF StartInvariant

\* Looking for a default, or creating the sequence, touches no sequence in use.
LEMMA CheckNumbersKeeps ==
  ASSUME StartInvariant, NEW t \in Numbered, CheckNumbers(t)
  PROVE  StartInvariant'
<1>0. StartTypeOK BY DEF StartInvariant
<1>1. /\ stage = "numbers" /\ step[t] = "check"
      /\ UNCHANGED <<tables, columns, indexes, filled, top, linked>>
  BY DEF CheckNumbers
<1>4. CASE t \in linked
  <2>1. Executed(t) /\ UNCHANGED <<sequence, step>> BY <1>4 DEF CheckNumbers
  <2>2. /\ todo' = todo \ {t} /\ stage' = stage /\ stage' \in Stage
        /\ todo' \subseteq Work(stage')
    BY <2>1, ExecutedKeeps
  <2>3. \A u \in Numbered : step'[u] # "check" => stage' = "numbers" /\ u \in todo' \ linked'
    BY <1>0, <1>1, <1>4, <2>1, <2>2, StartParts
  <2>5. StartTypeOK' BY <1>0, <1>1, <2>1, <2>2, <2>3 DEF StartTypeOK
  <2>6. Progress' BY <1>1, <1>4, <2>2 DEF StartInvariant, Progress
  <2>7. NumbersAhead' BY <1>1, <2>1 DEF StartInvariant, NumbersAhead, NewIdsAreFresh
  <2> QED BY <2>5, <2>6, <2>7 DEF StartInvariant
<1>5. CASE t \notin linked
  <2>1. /\ t \in todo
        /\ sequence' = [sequence EXCEPT ![t] = IF @ = 0 THEN 1 ELSE @]
        /\ step' = [step EXCEPT ![t] = "setval"]
        /\ UNCHANGED <<stage, todo>>
    BY <1>5 DEF CheckNumbers
  <2>2. step' \in [Numbered -> Steps] BY <1>0, <2>1 DEF StartTypeOK, Steps
  <2>3. sequence' \in [Numbered -> 0 .. MaxRow + 1]
    <3>1. (IF sequence[t] = 0 THEN 1 ELSE sequence[t]) \in 0 .. MaxRow + 1
      BY <1>0, StartParts, SchemaFacts
    <3> QED BY <1>0, <2>1, <3>1 DEF StartTypeOK
  <2>4. \A u \in Numbered : step'[u] # "check" => stage' = "numbers" /\ u \in todo' \ linked'
    BY <1>0, <1>1, <1>5, <2>1, StartParts DEF StartTypeOK
  <2>5. StartTypeOK' BY <1>0, <1>1, <2>1, <2>2, <2>3, <2>4 DEF StartTypeOK
  <2>6. Progress' BY <1>1, <2>1 DEF StartInvariant, Progress
  <2>7. \A u \in linked : sequence'[u] = sequence[u]
    BY <1>0, <1>5, <2>1, StartParts DEF StartTypeOK
  <2>8. \A u \in Numbered : step'[u] = "default" =>
          step[u] = "default" /\ sequence'[u] = sequence[u]
    BY <1>0, <2>1 DEF StartTypeOK
  <2>9. NumbersAhead'
    BY <1>1, <2>7, <2>8 DEF StartInvariant, NumbersAhead, NewIdsAreFresh
  <2> QED BY <2>5, <2>6, <2>9 DEF StartInvariant
<1> QED BY <1>4, <1>5

\* setval moves the sequence ahead of the rows.
LEMMA SetValueKeeps ==
  ASSUME StartInvariant, NEW t \in Numbered, SetValue(t)
  PROVE  StartInvariant'
<1>0. StartTypeOK BY DEF StartInvariant
<1>1. /\ step[t] = "setval" /\ sequence' = [sequence EXCEPT ![t] = top[t] + 1]
      /\ step' = [step EXCEPT ![t] = "default"]
      /\ UNCHANGED <<stage, todo, tables, columns, indexes, filled, top, linked>>
  BY DEF SetValue
<1>2. stage = "numbers" /\ t \in todo \ linked BY <1>0, <1>1, StartParts
<1>3. step' \in [Numbered -> Steps] BY <1>0, <1>1 DEF StartTypeOK, Steps
<1>4. sequence' \in [Numbered -> 0 .. MaxRow + 1]
  <2>1. top[t] + 1 \in 0 .. MaxRow + 1 BY <1>0, StartParts, SchemaFacts
  <2> QED BY <1>0, <1>1, <2>1 DEF StartTypeOK
<1>5. \A u \in Numbered : step'[u] # "check" => stage' = "numbers" /\ u \in todo' \ linked'
  BY <1>0, <1>1, <1>2, StartParts DEF StartTypeOK
<1>6. StartTypeOK' BY <1>0, <1>1, <1>3, <1>4, <1>5 DEF StartTypeOK
<1>7. Progress' BY <1>1 DEF StartInvariant, Progress
<1>8. \A u \in Numbered : u # t => sequence'[u] = sequence[u] /\ step'[u] = step[u]
  BY <1>0, <1>1 DEF StartTypeOK
<1>9. sequence'[t] > top'[t]
  <2>1. sequence'[t] = top[t] + 1 BY <1>0, <1>1 DEF StartTypeOK
  <2> QED BY <1>0, <1>1, <2>1, StartParts, SchemaFacts
<1>10. NumbersAhead'
  BY <1>0, <1>1, <1>8, <1>9, StartParts DEF StartInvariant, NumbersAhead, NewIdsAreFresh
<1> QED BY <1>6, <1>7, <1>10 DEF StartInvariant

\* The default is set while the sequence is still ahead.
LEMMA SetDefaultKeeps ==
  ASSUME StartInvariant, NEW t \in Numbered, SetDefault(t)
  PROVE  StartInvariant'
<1>0. StartTypeOK BY DEF StartInvariant
<1>1. /\ step[t] = "default" /\ Executed(t) /\ linked' = linked \cup {t}
      /\ step' = [step EXCEPT ![t] = "check"]
      /\ UNCHANGED <<tables, columns, indexes, filled, top, sequence>>
  BY DEF SetDefault
<1>2. stage = "numbers" /\ t \in todo \ linked BY <1>0, <1>1, StartParts
<1>3. /\ todo' = todo \ {t} /\ stage' = stage /\ stage' \in Stage
      /\ todo' \subseteq Work(stage')
  BY <1>1, ExecutedKeeps
<1>4. step' \in [Numbered -> Steps] BY <1>0, <1>1 DEF StartTypeOK, Steps
<1>5. \A u \in Numbered : step'[u] # "check" => stage' = "numbers" /\ u \in todo' \ linked'
  BY <1>0, <1>1, <1>2, <1>3, StartParts DEF StartTypeOK
<1>6. t \in tables
  BY <1>2, SchemaFacts DEF StartInvariant, Progress
<1>7. StartTypeOK' BY <1>0, <1>1, <1>3, <1>4, <1>5, <1>6 DEF StartTypeOK
<1>8. Progress' BY <1>1, <1>2, <1>3 DEF StartInvariant, Progress
<1>9. \A u \in Numbered : step'[u] = "default" => step[u] = "default"
  BY <1>0, <1>1 DEF StartTypeOK
<1>10. NumbersAhead'
  BY <1>1, <1>9 DEF StartInvariant, NumbersAhead, NewIdsAreFresh
<1> QED BY <1>7, <1>8, <1>10 DEF StartInvariant

\* A row of settings is inserted into a table that exists.
LEMMA InsertDefaultKeeps ==
  ASSUME StartInvariant, NEW t \in Table, InsertDefault(t)
  PROVE  StartInvariant'
<1>0. StartTypeOK BY DEF StartInvariant
<1>1. /\ stage = "rows" /\ Executed(t) /\ t \in tables /\ filled' = filled \cup {t}
      /\ UNCHANGED <<tables, columns, indexes>> /\ UNCHANGED <<top, sequence, linked, step>>
  BY DEF InsertDefault, numbers
<1>2. /\ t \in todo /\ todo' = todo \ {t} /\ stage' = stage /\ stage' \in Stage
      /\ todo' \subseteq Work(stage')
  BY <1>1, ExecutedKeeps
<1>3. t \in Config BY <1>0, <1>1, <1>2, StartParts DEF Work
<1>4. \A u \in Numbered : step[u] = "check" BY <1>0, <1>1, StartParts
<1>5. StartTypeOK' BY <1>0, <1>1, <1>2, <1>3, <1>4 DEF StartTypeOK
<1>6. Progress' BY <1>1, <1>2 DEF StartInvariant, Progress
<1>7. NumbersAhead' BY <1>1 DEF StartInvariant, NumbersAhead, NewIdsAreFresh
<1> QED BY <1>5, <1>6, <1>7 DEF StartInvariant

\* A row gets its number from a sequence that is ahead, which stays ahead.
LEMMA NumberKeeps ==
  ASSUME StartInvariant, NEW t \in Numbered, Number(t)
  PROVE  /\ top' \in [Numbered -> 0 .. MaxRow] /\ sequence' \in [Numbered -> 0 .. MaxRow + 1]
         /\ UNCHANGED <<linked, step>>
         /\ \A u \in Numbered : u # t => top'[u] = top[u] /\ sequence'[u] = sequence[u]
         /\ t \in linked /\ sequence'[t] > top'[t]
<1>0. StartTypeOK BY DEF StartInvariant
<1>1. /\ t \in linked /\ sequence[t] <= MaxRow /\ UNCHANGED <<linked, step>>
      /\ sequence' = [sequence EXCEPT ![t] = @ + 1]
      /\ top' = [top EXCEPT ![t] = IF @ < sequence[t] THEN sequence[t] ELSE @]
  BY DEF Number
<1>2. /\ top[t] \in 0 .. MaxRow /\ sequence[t] \in 0 .. MaxRow + 1
  BY <1>0, StartParts
<1>3. sequence[t] > top[t]
  BY <1>1 DEF StartInvariant, NumbersAhead, NewIdsAreFresh
<1>4. sequence[t] + 1 \in 0 .. MaxRow + 1 BY <1>1, <1>2, SchemaFacts
<1>5. (IF top[t] < sequence[t] THEN sequence[t] ELSE top[t]) \in 0 .. MaxRow
  BY <1>1, <1>2, SchemaFacts
<1>6. sequence' \in [Numbered -> 0 .. MaxRow + 1] BY <1>0, <1>1, <1>4 DEF StartTypeOK
<1>7. top' \in [Numbered -> 0 .. MaxRow] BY <1>0, <1>1, <1>5 DEF StartTypeOK
<1>8. \A u \in Numbered : u # t => top'[u] = top[u] /\ sequence'[u] = sequence[u]
  BY <1>0, <1>1 DEF StartTypeOK
<1>9. sequence'[t] = sequence[t] + 1 /\ top'[t] = sequence[t]
  BY <1>0, <1>1, <1>2, <1>3 DEF StartTypeOK
<1>10. sequence'[t] > top'[t] BY <1>2, <1>9, SchemaFacts
<1> QED BY <1>1, <1>6, <1>7, <1>8, <1>10

\* Numbering a row keeps the rest of the invariant, too.
LEMMA NumberedKeeps ==
  ASSUME StartInvariant, NEW t \in Numbered, Number(t), stage \in {"account", "up"},
         stage' = stage, todo' \subseteq todo, UNCHANGED <<tables, columns, indexes, filled>>
  PROVE  StartInvariant'
<1>0. StartTypeOK BY DEF StartInvariant
<1>1. /\ top' \in [Numbered -> 0 .. MaxRow] /\ sequence' \in [Numbered -> 0 .. MaxRow + 1]
      /\ UNCHANGED <<linked, step>> /\ t \in linked /\ sequence'[t] > top'[t]
      /\ \A u \in Numbered : u # t => top'[u] = top[u] /\ sequence'[u] = sequence[u]
  BY NumberKeeps
<1>2. \A u \in Numbered : step[u] = "check" BY <1>0, StartParts
<1>3. StartTypeOK' BY <1>0, <1>1, <1>2 DEF StartTypeOK
<1>4. Progress' BY <1>1 DEF StartInvariant, Progress
<1>5. NumbersAhead'
  <2>1. t \in tables BY <1>0, <1>1, StartParts
  <2> QED BY <1>0, <1>1, <1>2, <2>1, StartParts DEF StartInvariant, NumbersAhead, NewIdsAreFresh
<1> QED BY <1>3, <1>4, <1>5 DEF StartInvariant

\* The account of the environment gets a number of its own, if any.
LEMMA InitialAccountKeeps == StartInvariant /\ InitialAccount => StartInvariant'
<1> SUFFICES ASSUME StartInvariant, InitialAccount PROVE StartInvariant'
  OBVIOUS
<1>0. StartTypeOK BY DEF StartInvariant
<1>1. /\ stage = "account" /\ Executed(Accounts) /\ UNCHANGED <<tables, columns, indexes, filled>>
  BY DEF InitialAccount
<1>2. /\ todo' = todo \ {Accounts} /\ todo' \subseteq todo /\ stage' = stage /\ stage' \in Stage
      /\ todo' \subseteq Work(stage')
  BY <1>1, ExecutedKeeps
<1>3. CASE Accounts \in Numbered /\ Number(Accounts)
  BY <1>1, <1>2, <1>3, NumberedKeeps
<1>4. CASE UNCHANGED numbers
  <2>1. UNCHANGED <<top, sequence, linked, step>> BY <1>4 DEF numbers
  <2>2. \A u \in Numbered : step[u] = "check" BY <1>0, <1>1, StartParts
  <2>3. StartTypeOK' BY <1>0, <1>1, <1>2, <2>1, <2>2 DEF StartTypeOK
  <2>4. Progress' BY <1>1, <1>2, <2>1 DEF StartInvariant, Progress
  <2>5. NumbersAhead' BY <1>1, <2>1 DEF StartInvariant, NumbersAhead, NewIdsAreFresh
  <2> QED BY <2>3, <2>4, <2>5 DEF StartInvariant
<1> QED BY <1>3, <1>4 DEF InitialAccount

\* Every statement of a start, and every step of the server that concerns the schema or
\* the numbers, keeps the invariant.
LEMMA NextStartInvariant == StartInvariant /\ (StartNext \/ UNCHANGED startVars) => StartInvariant'
<1> SUFFICES ASSUME StartInvariant, StartNext \/ UNCHANGED startVars PROVE StartInvariant'
  OBVIOUS
<1>1. ASSUME NEW t \in Numbered, AddRow(t) PROVE StartInvariant'
  BY <1>1, NumberedKeeps DEF AddRow
<1>2. CASE UNCHANGED startVars
  BY <1>2 DEF StartInvariant, StartTypeOK, Progress, NumbersAhead, NewIdsAreFresh, startVars,
         Missing
<1>3. CASE StartStep
  BY <1>3, BootKeeps, AdvanceKeeps, InitialAccountKeeps, CreateTableKeeps, InsertDefaultKeeps,
     EnsureColumnKeeps, CreateIndexKeeps, CheckNumbersKeeps, SetValueKeeps, SetDefaultKeeps
  DEF StartStep
<1> QED BY <1>1, <1>2, <1>3, StopKeeps DEF StartNext

-----------------------------------------------------------------------------
\* What a request read and nobody wrote since is what the column holds, what it read at
\* all the column has held, and only an update of the cache's configuration writes back
\* what it has not read.
Copies ==
  \A r \in Request :
    /\ request[r].seen = "fresh" => request[r].copy = value
    /\ request[r].seen # "nothing" => request[r].copy \in past
    /\ request[r].seen = "nothing" =>
         (watched \in request[r].update.keeps \cup request[r].update.back => watched \in CacheSettings)

\* What the column holds, it has held.
PastIsComplete == value = Unset \/ value \in past

\* The types of the requests rest on the start: while requests are served there is a row
\* to read. And the start, whose rows come with a value, rests on the types.
SettingsInvariant == TypeOK /\ StartInvariant /\ Copies /\ PastIsComplete /\ SettingsAreKept

\* What a request under way looks like.
Served == [update : Updates \cup {Idle}, copy : Value, seen : {"fresh", "stale", "nothing"}]

\* The settings that no update resets: the secret, and what the administrator's keep.
Lasting == {"username", "api_key", "limits", "s3_secret_key"}

\* No update of the table resets a lasting setting, and only those of the cache's
\* configuration go on without a row.
LEMMA UpdateFacts ==
  ASSUME NEW u \in Updates \cup {Idle}
  PROVE  /\ (u.resets \cup u.voids) \cap Lasting = {}
         /\ u.blind => u.keeps \cup u.back \subseteq CacheSettings
<1>1. CASE u \in AdminUpdates
  <2>1. CASE u = [Idle EXCEPT !.keeps = AdminColumns]
    BY <2>1 DEF Idle
  <2>2. CASE u = [Replace({"password_hash"}) EXCEPT !.keeps = {"username"}]
    BY <2>2 DEF Replace, Idle, Lasting
  <2>3. CASE u = [Idle EXCEPT !.must = {"api_key"}]
    BY <2>3 DEF Idle
  <2>4. CASE u = Replace({"debug_enabled"})
    BY <2>4 DEF Replace, Idle, Lasting
  <2>5. \/ u = [Idle EXCEPT !.keeps = AdminColumns]
        \/ u = [Replace({"password_hash"}) EXCEPT !.keeps = {"username"}]
        \/ u = [Idle EXCEPT !.must = {"api_key"}]
        \/ u = Replace({"debug_enabled"})
    BY <1>1 DEF AdminUpdates
  <2> QED BY <2>1, <2>2, <2>3, <2>4, <2>5, Zenon
<1>2. CASE u \in CacheUpdates
  BY <1>2 DEF CacheUpdates, CacheUpdate, CacheColumns, CacheSettings, Lasting
<1>3. CASE u \in RefreshUpdates
  BY <1>3 DEF RefreshUpdates, Replace, Idle, Lasting
<1>4. CASE u = Replace({"timeouts"})
  BY <1>4 DEF Replace, Idle, Lasting
<1>5. CASE u = Replace({"call_mode"})
  BY <1>5 DEF Replace, Idle, Lasting
<1>6. CASE u = ProxyUpdate
  BY <1>6 DEF ProxyUpdate, Replace, Idle, Lasting
<1>7. CASE u = Idle
  BY <1>7 DEF Idle
<1>8. \/ u \in AdminUpdates \/ u \in CacheUpdates \/ u \in RefreshUpdates
      \/ u = Replace({"timeouts"}) \/ u = Replace({"call_mode"}) \/ u = ProxyUpdate \/ u = Idle
  BY DEF Updates
<1> QED BY <1>1, <1>2, <1>3, <1>4, <1>5, <1>6, <1>7, <1>8, Zenon

\* A request that is not under way has read nothing and writes nothing back.
LEMMA NobodyIsServed ==
  /\ Nobody \in Served /\ Nobody.seen = "nothing"
  /\ Nobody.update.keeps \cup Nobody.update.back = {}
BY SchemaFacts DEF Served, Nobody, Idle

\* Marking a request's copy as old leaves it a request of the same kind.
LEMMA StaleRequest ==
  ASSUME NEW q \in Served
  PROVE  LET old == [q EXCEPT !.seen = "stale"]
         IN  old \in Served /\ old.seen = "stale" /\ old.copy = q.copy
<1> DEFINE U == Updates \cup {Idle}
<1> HIDE DEF U
<1>1. ASSUME NEW p \in [update : U, copy : Value, seen : {"fresh", "stale", "nothing"}]
      PROVE  LET old == [p EXCEPT !.seen = "stale"]
             IN  /\ old \in [update : U, copy : Value, seen : {"fresh", "stale", "nothing"}]
                 /\ old.seen = "stale" /\ old.copy = p.copy
  OBVIOUS
<1> QED BY <1>1 DEF U, Served

\* A field that is left out becomes a value of the column.
LEMMA LeftOutIsValue == LeftOut \subseteq Value
BY SchemaFacts DEF LeftOut

\* Initially no request is under way, and the column holds what was asked for.
LEMMA SettingsInit == Init => SettingsInvariant
<1> SUFFICES ASSUME Init PROVE SettingsInvariant
  OBVIOUS
<1>1. StartInvariant BY StartInitInvariant DEF Init
<1>2. request \in [Request -> Served] /\ \A r \in Request : request[r] = Nobody
  BY NobodyIsServed DEF Init
<1>3. /\ value \in Value \cup {Unset} /\ (value = Unset <=> SettingsTable \notin filled)
      /\ asked = value /\ watched \in Settings /\ past = {value} \ {Unset} /\ causes = {}
  BY SchemaFacts DEF Init
<1>4. TypeOK BY <1>1, <1>2, <1>3 DEF TypeOK, StartInvariant, Served
<1>5. Copies BY <1>2, NobodyIsServed DEF Copies
<1>6. PastIsComplete BY <1>3 DEF PastIsComplete
<1> QED BY <1>1, <1>3, <1>4, <1>5, <1>6 DEF SettingsInvariant, SettingsAreKept

\* The parts of the typing.
LEMMA SettingsParts ==
  ASSUME SettingsInvariant
  PROVE  /\ watched \in Settings /\ value \in Value \cup {Unset} /\ asked \in Value \cup {Unset}
         /\ past \subseteq Value /\ causes \subseteq {"reset", "stale", "nothing"}
         /\ request \in [Request -> Served]
         /\ (value = Unset <=> SettingsTable \notin filled)
         /\ \A r \in Request : request[r] # Nobody => stage = "up"
BY DEF SettingsInvariant, TypeOK, Served

\* Rows of settings appear while the rows are inserted, and at no other time.
LEMMA RowsAppear ==
  ASSUME StartInvariant, StartNext, filled' # filled
  PROVE  stage = "rows" /\ stage' = "rows"
<1>1. PICK t \in Table : InsertDefault(t)
  BY DEF StartNext, StartStep, Boot, Advance, InitialAccount, CreateTable, EnsureColumn, CreateIndex,
         CheckNumbers, SetValue, SetDefault, Stop, AddRow, numbers
<1> QED BY <1>1 DEF InsertDefault, Executed

\* A server that listens goes on listening or stops.
LEMMA UpStaysOrStops ==
  ASSUME StartInvariant, StartNext, stage = "up"
  PROVE  stage' \in {"up", "down"}
<1>1. todo = {} BY DEF StartInvariant, StartTypeOK, Work
<1>2. ~Advance
  <2>1. ASSUME NEW i \in DOMAIN Stages, stage = Stages[i] PROVE FALSE
    <3>1. i \in {1, 2, 3, 4, 5, 6} BY StageNames
    <3> QED BY <2>1, <3>1, StageNames
  <2> QED BY <2>1 DEF Advance
<1>3. \A t \in Numbered : step[t] = "check" BY StartParts DEF StartInvariant
<1> QED
  BY <1>1, <1>2, <1>3
  DEF StartNext, StartStep, Boot, InitialAccount, CreateTable, EnsureColumn, CreateIndex,
      InsertDefault, CheckNumbers, SetValue, SetDefault, Executed, Stop, AddRow

\* A step of a start, or a crash, keeps the settings' invariant.
LEMMA SettleKeeps == SettingsInvariant /\ StartNext /\ Settle => SettingsInvariant'
<1> SUFFICES ASSUME SettingsInvariant, StartNext, Settle PROVE SettingsInvariant'
  OBVIOUS
<1>0. StartInvariant /\ StartInvariant'
  BY NextStartInvariant DEF SettingsInvariant
<1>1. /\ watched \in Settings /\ value \in Value \cup {Unset} /\ asked \in Value \cup {Unset}
      /\ past \subseteq Value /\ causes \subseteq {"reset", "stale", "nothing"}
      /\ request \in [Request -> Served]
      /\ (value = Unset <=> SettingsTable \notin filled)
      /\ \A r \in Request : request[r] # Nobody => stage = "up"
  BY SettingsParts
<1>2. watched' = watched /\ causes' = causes BY DEF Settle
<1>3. request' \in [Request -> Served]
  <2>1. [r \in Request |-> Nobody] \in [Request -> Served] BY NobodyIsServed
  <2> QED BY <1>1, <2>1 DEF Settle
<1>4. \A r \in Request : request'[r] # Nobody => stage' = "up" /\ request'[r] = request[r]
  <2>1. CASE stage' = "down" BY <2>1 DEF Settle
  <2>2. CASE stage' # "down"
    <3>1. request' = request BY <2>2 DEF Settle
    <3>2. stage = "up" => stage' = "up" BY <1>0, <2>2, UpStaysOrStops
    <3> QED BY <1>1, <3>1, <3>2
  <2> QED BY <2>1, <2>2
<1>5. CASE SettingsTable \in filled' \ filled
  <2>1. value' = Default /\ past' = past \cup {Default} /\ asked' = Default BY <1>5 DEF Settle
  <2>2. stage = "rows" /\ stage' = "rows" BY <1>0, <1>5, RowsAppear
  <2>3. \A r \in Request : request'[r] = Nobody BY <1>4, <2>2
  <2>4. Copies' BY <2>3, NobodyIsServed DEF Copies
  <2>5. PastIsComplete' /\ SettingsAreKept' BY <2>1 DEF PastIsComplete, SettingsAreKept
  <2>6. value' \in Value \cup {Unset} /\ value' # Unset /\ past' \subseteq Value
    BY <1>1, <2>1, SchemaFacts
  <2> QED
    BY <1>0, <1>1, <1>2, <1>3, <1>4, <1>5, <2>1, <2>3, <2>4, <2>5, <2>6
    DEF SettingsInvariant, TypeOK, Served, StartInvariant
<1>6. CASE ~(SettingsTable \in filled' \ filled)
  <2>1. value' = value /\ past' = past /\ asked' = asked BY <1>6 DEF Settle
  <2>2. SettingsTable \in filled => SettingsTable \in filled'
    BY DEF StartNext, StartStep, Boot, Advance, InitialAccount, CreateTable, EnsureColumn, CreateIndex,
           InsertDefault, CheckNumbers, SetValue, SetDefault, Stop, AddRow, numbers
  <2>3. value' = Unset <=> SettingsTable \notin filled' BY <1>1, <1>6, <2>1, <2>2
  <2>4. Copies'
    <3>1. ASSUME NEW r \in Request, request'[r] # Nobody PROVE request'[r] = request[r]
      BY <1>4, <3>1
    <3> QED BY <1>2, <2>1, <3>1, NobodyIsServed DEF SettingsInvariant, Copies
  <2>5. PastIsComplete' /\ SettingsAreKept'
    BY <1>2, <2>1 DEF SettingsInvariant, PastIsComplete, SettingsAreKept
  <2> QED
    BY <1>0, <1>1, <1>2, <1>3, <1>4, <2>1, <2>3, <2>4, <2>5
    DEF SettingsInvariant, TypeOK, Served, StartInvariant
<1> QED BY <1>5, <1>6

\* What other requests see of a write.
LEMMA WrittenKeeps ==
  ASSUME SettingsInvariant, NEW r \in Request, NEW v \in Value, Write(r, v)
  PROVE  /\ value' = v /\ past' = past \cup {v} /\ watched' = watched /\ stage = "up"
         /\ request' \in [Request -> Served]
         /\ \A q \in Request : request'[q] # Nobody => request[q] # Nobody
         /\ Copies' /\ PastIsComplete'
<1>1. /\ request \in [Request -> Served]
      /\ \A q \in Request : request[q] # Nobody => stage = "up"
  BY SettingsParts
<1>2. /\ value' = v /\ past' = past \cup {v} /\ watched' = watched /\ request[r] # Nobody
  BY DEF Write
<1> DEFINE after(q) == IF q = r THEN Nobody
                       ELSE IF request[q].seen = "fresh" THEN [request[q] EXCEPT !.seen = "stale"]
                       ELSE request[q]
           Copied(p) == /\ p.seen \in {"stale", "nothing"}
                        /\ p.seen # "nothing" => p.copy \in past
                        /\ p.seen = "nothing" =>
                             (watched \in p.update.keeps \cup p.update.back => watched \in CacheSettings)
<1>3. ASSUME NEW q \in Request
      PROVE  /\ after(q) \in Served /\ Copied(after(q))
             /\ after(q) # Nobody => request[q] # Nobody
  <2>0. /\ request[q] \in Served /\ request[q].seen \in {"fresh", "stale", "nothing"}
        /\ request[q].seen # "nothing" => request[q].copy \in past
        /\ request[q].seen = "nothing" =>
             (watched \in request[q].update.keeps \cup request[q].update.back => watched \in CacheSettings)
    BY <1>1 DEF SettingsInvariant, Copies, Served
  <2>1. CASE q = r
    <3>1. after(q) = Nobody BY <2>1
    <3> HIDE DEF after
    <3> QED BY <3>1, NobodyIsServed
  <2>2. CASE q # r /\ request[q].seen = "fresh"
    <3>1. after(q) = [request[q] EXCEPT !.seen = "stale"] BY <2>2
    <3>2. after(q) \in Served /\ after(q).seen = "stale" /\ after(q).copy = request[q].copy
      BY <2>0, <3>1, StaleRequest, Zenon
    <3>3. request[q] # Nobody BY <2>2, NobodyIsServed
    <3> HIDE DEF after
    <3> QED BY <2>0, <2>2, <3>2, <3>3
  <2>3. CASE q # r /\ request[q].seen # "fresh"
    <3>1. after(q) = request[q] BY <2>3
    <3> HIDE DEF after
    <3> QED BY <2>0, <2>3, <3>1
  <2> QED BY <2>1, <2>2, <2>3
<1>4. request' = [q \in Request |-> after(q)] BY Zenon DEF Write
<1> HIDE DEF after
<1>5. \A q \in Request : request'[q] \in Served /\ Copied(request'[q])
  BY <1>3, <1>4
<1>6. Copies' BY <1>2, <1>5 DEF Copies
<1>7. PastIsComplete' BY <1>2 DEF PastIsComplete
<1> QED BY <1>1, <1>2, <1>3, <1>4, <1>6, <1>7

\* A write of v keeps the invariant if the loss of a setting, if it is one, has its cause.
LEMMA WriteKeeps ==
  ASSUME SettingsInvariant, NEW r \in Request, NEW v \in Value, Write(r, v), UNCHANGED startVars,
         asked' \in Value \cup {Unset}, causes' \subseteq {"reset", "stale", "nothing"},
         SettingsAreKept'
  PROVE  SettingsInvariant'
<1>0. /\ StartInvariant /\ StartInvariant' /\ stage' = stage /\ filled' = filled
  BY NextStartInvariant DEF SettingsInvariant, startVars
<1>1. /\ watched \in Settings /\ past \subseteq Value
      /\ (value = Unset <=> SettingsTable \notin filled)
      /\ \A q \in Request : request[q] # Nobody => stage = "up"
  BY SettingsParts
<1>2. /\ value' = v /\ past' = past \cup {v} /\ watched' = watched /\ stage = "up"
      /\ request' \in [Request -> Served]
      /\ \A q \in Request : request'[q] # Nobody => request[q] # Nobody
      /\ Copies' /\ PastIsComplete'
  BY WrittenKeeps
<1>3. value' # Unset /\ SettingsTable \in filled
  BY <1>0, <1>1, <1>2, SchemaFacts DEF StartInvariant, Progress
<1> QED
  BY <1>0, <1>1, <1>2, <1>3 DEF SettingsInvariant, TypeOK, Served, StartInvariant

\* The row is read, or not, and nothing is written.
LEMMA ReceiveKeeps ==
  ASSUME SettingsInvariant, NEW r \in Request, NEW u \in Updates, Receive(r, u), UNCHANGED startVars
  PROVE  SettingsInvariant'
<1>0. /\ StartInvariant /\ StartInvariant' /\ stage' = stage /\ filled' = filled
  BY NextStartInvariant DEF SettingsInvariant, startVars
<1>1. /\ watched \in Settings /\ value \in Value \cup {Unset} /\ asked \in Value \cup {Unset}
      /\ past \subseteq Value /\ causes \subseteq {"reset", "stale", "nothing"}
      /\ request \in [Request -> Served]
      /\ (value = Unset <=> SettingsTable \notin filled)
      /\ \A q \in Request : request[q] # Nobody => stage = "up"
  BY SettingsParts
<1>2. stage = "up" /\ UNCHANGED <<watched, value, asked, past, causes>> BY DEF Receive
<1>3. value \in Value /\ value \in past
  BY <1>0, <1>1, <1>2, SchemaFacts DEF StartInvariant, Progress, SettingsInvariant, PastIsComplete
<1>4. PICK copy \in Value, seen \in {"fresh", "nothing"} :
        /\ request' = [request EXCEPT ![r] = [update |-> u, copy |-> copy, seen |-> seen]]
        /\ seen = "fresh" => copy = value
        /\ seen = "nothing" => u.blind \/ u.keeps \cup u.back = {}
  BY <1>3, LeftOutIsValue DEF Receive
<1> DEFINE new == [update |-> u, copy |-> copy, seen |-> seen]
<1>5. new \in Served /\ new.update = u /\ new.copy = copy /\ new.seen = seen
  BY DEF Served
<1>6. request' = [request EXCEPT ![r] = new] BY <1>4
<1>7. seen = "nothing" => (watched \in u.keeps \cup u.back => watched \in CacheSettings)
  BY <1>4, UpdateFacts
<1> HIDE DEF new
<1>8. /\ request' \in [Request -> Served] /\ request'[r] = new
      /\ \A q \in Request : q # r => request'[q] = request[q]
  BY <1>1, <1>5, <1>6
<1>9. Copies' BY <1>2, <1>3, <1>4, <1>5, <1>7, <1>8 DEF SettingsInvariant, Copies
<1>10. PastIsComplete' /\ SettingsAreKept'
  BY <1>2 DEF SettingsInvariant, PastIsComplete, SettingsAreKept
<1> QED
  BY <1>0, <1>1, <1>2, <1>8, <1>9, <1>10 DEF SettingsInvariant, TypeOK, Served, StartInvariant

\* A request that is refused leaves the row alone.
LEMMA RefuseKeeps ==
  ASSUME SettingsInvariant, NEW r \in Request, Refuse(r), UNCHANGED startVars
  PROVE  SettingsInvariant'
<1>0. /\ StartInvariant /\ StartInvariant' /\ stage' = stage /\ filled' = filled
  BY NextStartInvariant DEF SettingsInvariant, startVars
<1>1. /\ watched \in Settings /\ value \in Value \cup {Unset} /\ asked \in Value \cup {Unset}
      /\ past \subseteq Value /\ causes \subseteq {"reset", "stale", "nothing"}
      /\ request \in [Request -> Served]
      /\ (value = Unset <=> SettingsTable \notin filled)
      /\ \A q \in Request : request[q] # Nobody => stage = "up"
  BY SettingsParts
<1>2. /\ request' = [request EXCEPT ![r] = Nobody]
      /\ UNCHANGED <<watched, value, asked, past, causes>>
  BY DEF Refuse
<1>3. /\ request' \in [Request -> Served] /\ request'[r] = Nobody
      /\ \A q \in Request : q # r => request'[q] = request[q]
  BY <1>1, <1>2, NobodyIsServed
<1>4. Copies' BY <1>2, <1>3, NobodyIsServed DEF SettingsInvariant, Copies
<1>5. PastIsComplete' /\ SettingsAreKept'
  BY <1>2 DEF SettingsInvariant, PastIsComplete, SettingsAreKept
<1> QED
  BY <1>0, <1>1, <1>2, <1>3, <1>4, <1>5 DEF SettingsInvariant, TypeOK, Served, StartInvariant

\* Reading, refusing and writing keep the settings' invariant.
LEMMA HandleKeeps ==
  ASSUME SettingsInvariant, NEW r \in Request, Handle(r), UNCHANGED startVars
  PROVE  SettingsInvariant'
<1>1. /\ request[r].update \in Updates \cup {Idle} /\ request[r].copy \in Value
      /\ request[r].seen \in {"fresh", "stale", "nothing"}
      /\ causes \subseteq {"reset", "stale", "nothing"}
      /\ value \in Value \cup {Unset} /\ asked \in Value \cup {Unset}
  BY SettingsParts DEF Served
<1>2. CASE WriteAsked(r)
  <2>1. PICK v \in Value : Write(r, v) /\ asked' = v BY <1>2 DEF WriteAsked
  <2>2. causes' = {} /\ value' = v BY <1>2, <2>1 DEF WriteAsked, Write
  <2>3. SettingsAreKept' BY <2>1, <2>2 DEF SettingsAreKept
  <2> QED BY <2>1, <2>2, <2>3, WriteKeeps
<1>3. CASE Reset(r)
  <2>1. PICK v \in LeftOut : Write(r, v) BY <1>3 DEF Reset
  <2>2. /\ v \in Value /\ watched' = watched /\ asked' = asked
        /\ causes' = causes \cup {"reset"}
    BY <1>3, <2>1, LeftOutIsValue DEF Reset, Write
  <2>3. watched \notin Lasting
    <3>1. watched \in request[r].update.resets \cup request[r].update.voids BY <1>3 DEF Reset
    <3> QED BY <1>1, <3>1, UpdateFacts
  <2>4. SettingsAreKept' BY <2>2, <2>3 DEF SettingsAreKept, Lasting
  <2> QED BY <1>1, <2>1, <2>2, <2>4, WriteKeeps
<1>4. CASE WriteBack(r)
  <2>1. /\ Write(r, request[r].copy) /\ asked' = asked
        /\ causes' = causes \cup ({request[r].seen} \ {"fresh"})
        /\ watched \in request[r].update.keeps \cup request[r].update.back
    BY <1>4 DEF WriteBack
  <2>2. /\ value' = request[r].copy /\ past' = past \cup {request[r].copy} /\ watched' = watched
    BY <2>1 DEF Write
  <2>3. SettingsAreKept'
    <3>1. CASE request[r].seen = "fresh"
      <4>1. value' = value /\ causes' = causes
        BY <2>1, <2>2, <3>1 DEF SettingsInvariant, Copies
      <4> QED BY <2>1, <2>2, <4>1 DEF SettingsInvariant, SettingsAreKept
    <3>2. CASE request[r].seen = "stale"
      <4>1. "stale" \in causes' /\ value' \in past' BY <2>1, <2>2, <3>2
      <4> QED BY <4>1 DEF SettingsAreKept
    <3>3. CASE request[r].seen = "nothing"
      <4>1. "nothing" \in causes' /\ watched' \in CacheSettings
        BY <2>1, <2>2, <3>3 DEF SettingsInvariant, Copies
      <4> QED BY <4>1 DEF SettingsAreKept
    <3> QED BY <1>1, <3>1, <3>2, <3>3
  <2>4. causes' \subseteq {"reset", "stale", "nothing"} BY <1>1, <2>1
  <2> QED BY <1>1, <2>1, <2>3, <2>4, WriteKeeps
<1> QED BY <1>2, <1>3, <1>4, ReceiveKeeps, RefuseKeeps DEF Handle

\* Starts, crashes and updates keep the invariant.
LEMMA NextSettingsInvariant == SettingsInvariant /\ [Next]_vars => SettingsInvariant'
<1> SUFFICES ASSUME SettingsInvariant, [Next]_vars PROVE SettingsInvariant'
  OBVIOUS
<1>1. CASE StartNext /\ Settle BY <1>1, SettleKeeps
<1>2. CASE (\E r \in Request : Handle(r)) /\ UNCHANGED startVars BY <1>2, HandleKeeps
<1>3. CASE UNCHANGED vars
  <2>1. /\ UNCHANGED startVars /\ UNCHANGED <<watched, value, request, asked, past, causes>>
    BY <1>3 DEF vars, settingsVars
  <2>2. StartInvariant' BY <2>1, NextStartInvariant DEF SettingsInvariant
  <2>3. stage' = stage /\ filled' = filled BY <2>1 DEF startVars
  <2> QED
    BY <2>1, <2>2, <2>3
    DEF SettingsInvariant, TypeOK, Copies, PastIsComplete, SettingsAreKept, StartInvariant
<1> QED BY <1>1, <1>2, <1>3 DEF Next

\* The invariant holds in every reachable state.
LEMMA SettingsInvariantHolds == Spec => []SettingsInvariant
<1>1. Init => SettingsInvariant BY SettingsInit
<1>2. SettingsInvariant /\ [Next]_vars => SettingsInvariant' BY NextSettingsInvariant
<1> QED BY <1>1, <1>2, PTL DEF Spec

\* Schema, settings and requests have their types, in any schema, with any number of
\* updates at once: columns belong to tables that exist, indexes to columns that
\* exist, a setting has a value exactly if its row is there, and only a server that
\* listens serves requests.
THEOREM SettingsTypeCorrect == Spec => []TypeOK
<1>1. SettingsInvariant => TypeOK BY DEF SettingsInvariant
<1> QED BY <1>1, SettingsInvariantHolds, PTL

\* Whatever database an earlier version left, and wherever earlier starts broke off, a
\* server that listens has every table, column, index and row, and its sequences are
\* ahead of the rows they number.
THEOREM StartIsComplete == Spec => []StartedMeansReady
<1>1. SettingsInvariant => StartedMeansReady
  BY DEF SettingsInvariant, StartInvariant, Progress, NumbersAhead, StartedMeansReady
<1> QED BY <1>1, SettingsInvariantHolds, PTL

\* Each statement of a start finds what it needs: a later column its table, an index
\* its columns, a row of settings its table with all columns.
StatementsCanRun ==
  /\ \A c \in Column \cap todo : TableOf[c] \in tables
  /\ \A i \in Index \cap todo : Needs[i] \subseteq columns
  /\ \A t \in todo : stage = "rows" => t \in tables /\ Missing(t) = {}

\* Whatever schema an earlier version left, and wherever earlier starts broke off, the
\* order of the statements is never the reason why one of them fails.
THEOREM StatementsFindWhatTheyNeed == Spec => []StatementsCanRun
<1>1. SettingsInvariant => StatementsCanRun
  <2> SUFFICES ASSUME SettingsInvariant PROVE StatementsCanRun
    OBVIOUS
  <2>1. StartTypeOK /\ Progress
    BY DEF SettingsInvariant, StartInvariant
  <2>2. ASSUME NEW c \in Column \cap todo PROVE TableOf[c] \in tables
    <3>1. stage = "columns"
      BY <2>1, StageOfWork
    <3> QED BY <2>1, <3>1, SchemaFacts DEF Progress
  <2>3. ASSUME NEW i \in Index \cap todo PROVE Needs[i] \subseteq columns
    <3>1. stage = "indexes"
      BY <2>1, StageOfWork
    <3> QED BY <2>1, <3>1, SchemaFacts DEF Progress
  <2>4. ASSUME NEW t \in todo, stage = "rows" PROVE t \in tables /\ Missing(t) = {}
    <3>1. t \in Config
      BY <2>1, <2>4, StartParts DEF Work
    <3> QED BY <2>1, <2>4, <3>1, SchemaFacts DEF Progress, Missing
  <2> QED BY <2>2, <2>3, <2>4 DEF StatementsCanRun
<1> QED BY <1>1, SettingsInvariantHolds, PTL

\* Through crashes, starts and any number of updates at once, a setting is what the last
\* update to mention it asked for, unless an update that replaces its row left it out,
\* which none does to the secret or to what administrators' updates keep, or an
\* overlapping one brought back a value it once had, or an update of the cache's
\* configuration went on after a failed read.
THEOREM SettingsSurvive == Spec => []SettingsAreKept
<1>1. SettingsInvariant => SettingsAreKept BY DEF SettingsInvariant
<1> QED BY <1>1, SettingsInvariantHolds, PTL
=============================================================================
