-------------------------- MODULE AccountChoiceProofs --------------------------
(***************************************************************************)
(* Theorems about AccountChoice, for any accounts, any number of callers   *)
(* and any lifetimes.                                                      *)
(*                                                                         *)
(* A usable account stays on the list until the round ends because the list*)
(* said it was usable too, so that even a failed refresh would not make the*)
(* round pass over it (SteadyIsReady); and the order a round goes by       *)
(* respects the one that is promised (PromisedIsKept).  That order is a    *)
(* well-order whatever the statistics, so a search always has one account  *)
(* that is next (ListsAreWellOrdered).                                     *)
(***************************************************************************)
EXTENDS AccountChoice, WellFoundedInduction, TLAPS

\* What steady accounts are, step by step of the round.
SteadyIsReady ==
  \A p \in Caller :
    /\ pc[p] = "idle" => steady[p] = {}
    /\ pc[p] = "listed" => \A a \in steady[p] : a \in listed[p] /\ Current(copy[p][a])
    /\ pc[p] = "trying" => steady[p] \subseteq ready[p]

PromisedIsKept == \A p \in Caller : promised[p] \subseteq order[p]

IInv == TypeOK /\ SteadyIsReady /\ PromisedIsKept

-----------------------------------------------------------------------------
(* The order.                                                               *)

\* Whatever is promised of two rows, the order of both call modes keeps.
LEMMA PromiseInOrder ==
  ASSUME NEW s \in Statistics, NEW a \in Account, NEW b \in Account, Promised(s, a, b)
  PROVE  Before(s, a, b)
<1>1. /\ s.run[a] \in Nat /\ s.run[b] \in Nat
      /\ s.used[a] \in Nat /\ s.used[b] \in Nat
      /\ s.used[a] <= MaxCount /\ s.used[b] <= MaxCount
  BY ChoiceAssumption DEF Statistics
<1>2. CASE s.polling
  <2>1. s.used[a] < s.used[b] /\ (s.used[a] # 0 \/ NullsFirst)
    BY <1>2 DEF Promised
  <2>2. DatabaseOrder(s, a, b)
    BY <1>1, <2>1, ChoiceAssumption DEF DatabaseOrder
  <2> QED BY <1>2, <2>2 DEF Before
<1>3. CASE ~s.polling
  BY <1>1, <1>3 DEF Promised, Before, CallOrder
<1> QED BY <1>2, <1>3

LEMMA RankingsKeepPromises ==
  ASSUME NEW k \in Rankings
  PROVE  k.promised \subseteq k.order /\ k.order \subseteq Pairs
<1>1. PICK s \in Statistics :
        k = [order |-> {p \in Pairs : Before(s, p[1], p[2])},
             promised |-> {p \in Pairs : Promised(s, p[1], p[2])}]
  BY DEF Rankings
<1>2. ASSUME NEW p \in Pairs, Promised(s, p[1], p[2])
      PROVE  Before(s, p[1], p[2])
  <2>1. p[1] \in Account /\ p[2] \in Account
    BY DEF Pairs
  <2> QED BY <1>2, <2>1, PromiseInOrder
<1> QED BY <1>1, <1>2

-----------------------------------------------------------------------------
(* Types.                                                                   *)

LEMMA ConstantFacts ==
  /\ Lead \in Nat /\ Life \in Nat \ {0} /\ Interval \in Nat /\ MaxCount \in Nat
  /\ NoAccount \notin Account
  /\ Worker \in Round /\ Worker \notin Caller
  /\ \A p \in Caller : p \in Round /\ p # Worker
  /\ Renewable \subseteq Account
BY ChoiceAssumption DEF Round

\* What a refresh may leave of a row is a row.
LEMMA RefreshedRows ==
  ASSUME NEW r \in Row, NEW x \in Attempted(r)
  PROVE  x \in Row
<1>1. CASE x = r
  BY <1>1
<1>2. CASE x \in Refreshed(r)
  <2>1. PICK n \in {r.left, Life, NoExpiry} \cup (IF r.left = 0 THEN 1 .. Life ELSE {}) :
          x = [r EXCEPT !.left = n, !.since = 0]
    BY <1>2 DEF Refreshed
  <2>2. r.left \in 0 .. NoExpiry /\ r.active \in BOOLEAN
    BY DEF Row
  <2>3. n \in 0 .. NoExpiry
    BY <2>2, ConstantFacts DEF NoExpiry
  <2>4. 0 \in 0 .. Never
    BY ConstantFacts DEF Never
  <2>5. x = [active |-> r.active, left |-> n, since |-> 0]
    BY <2>1 DEF Row
  <2> QED BY <2>2, <2>3, <2>4, <2>5 DEF Row
<1> QED BY <1>1, <1>2 DEF Attempted

LEMMA RefreshedIsAttempted ==
  ASSUME NEW r, NEW x \in Refreshed(r)
  PROVE  x \in Attempted(r)
BY DEF Attempted

\* Time makes a row of a row.
LEMMA AgedRows ==
  ASSUME NEW r \in Row
  PROVE  Aged(r) \in Row
<1>1. ASSUME NEW l \in 0 .. NoExpiry, NEW s \in 0 .. Never
      PROVE  [r EXCEPT !.left = l, !.since = s] \in Row
  BY DEF Row
<1>2. r.left \in 0 .. NoExpiry /\ r.since \in 0 .. Never
  BY DEF Row
<1> DEFINE l == IF r.left \in {0, NoExpiry} THEN r.left ELSE r.left - 1
           s == IF r.since >= Interval THEN r.since ELSE r.since + 1
<1>3. l \in 0 .. NoExpiry /\ s \in 0 .. Never
  BY <1>2, ConstantFacts DEF NoExpiry, Never
<1>4. Aged(r) = [r EXCEPT !.left = l, !.since = s]
  BY Zenon DEF Aged
<1> HIDE DEF l, s
<1> QED BY <1>1, <1>3, <1>4, Zenon

\* A row that is rewritten leaves a table.
LEMMA RewriteTyped ==
  ASSUME row \in [Account -> Row], NEW a \in Account, NEW r \in Row, Rewrite(a, r)
  PROVE  row' \in [Account -> Row]
BY DEF Rewrite

LEMMA AttemptTyped ==
  ASSUME row \in [Account -> Row], NEW a \in Account,
         \E r \in Attempted(row[a]) : Rewrite(a, r)
  PROVE  row' \in [Account -> Row]
<1>1. PICK r \in Attempted(row[a]) : Rewrite(a, r)
  OBVIOUS
<1>2. row[a] \in Row
  OBVIOUS
<1>3. r \in Row
  BY <1>2, RefreshedRows
<1> QED BY <1>1, <1>3, RewriteTyped

\* The history is a set of accounts of each caller.
LEMMA WatchTyped ==
  ASSUME listed' \in [Round -> SUBSET Account], steady \in [Caller -> SUBSET Account],
         Watch
  PROVE  steady' \in [Caller -> SUBSET Account]
<1>1. \A p \in Caller : p \in Round
  BY ConstantFacts
<1> QED BY <1>1 DEF Watch

\* The variables of the rounds but the table, the history and the consistency of
\* a caller's list.
RoundsTyped ==
  /\ pc \in [Round -> Steps]
  /\ copy \in [Caller -> [Account -> Row]]
  /\ listed \in [Round -> SUBSET Account]
  /\ renew \in [Caller -> SUBSET Account]
  /\ ready \in [Caller -> SUBSET Account]
  /\ order \in [Caller -> SUBSET Pairs]
  /\ promised \in [Caller -> SUBSET Pairs]
  /\ pick \in [Caller -> Account \cup {NoAccount}]

ListConsistent ==
  \A p \in Caller : pc[p] = "trying" => listed[p] = renew[p] \cup ready[p]

LEMMA Parts ==
  TypeOK <=> /\ row \in [Account -> Row]
             /\ RoundsTyped
             /\ steady \in [Caller -> SUBSET Account]
             /\ ListConsistent
BY DEF TypeOK, RoundsTyped, ListConsistent

LEMMA EndTyped ==
  ASSUME RoundsTyped, ListConsistent, NEW p \in Caller,
         NEW a \in Account \cup {NoAccount}, End(p, a), UNCHANGED copy
  PROVE  RoundsTyped' /\ ListConsistent'
<1> USE ConstantFacts
<1>1. pc' \in [Round -> Steps]
  BY DEF RoundsTyped, End, Steps
<1>2. copy' \in [Caller -> [Account -> Row]]
  BY DEF RoundsTyped
<1>3. listed' \in [Round -> SUBSET Account]
  BY DEF RoundsTyped, End
<1>4. renew' \in [Caller -> SUBSET Account] /\ ready' \in [Caller -> SUBSET Account]
  BY DEF RoundsTyped, End
<1>5. order' \in [Caller -> SUBSET Pairs] /\ promised' \in [Caller -> SUBSET Pairs]
  BY DEF RoundsTyped, End
<1>6. pick' \in [Caller -> Account \cup {NoAccount}]
  BY DEF RoundsTyped, End
<1>7. ASSUME NEW q \in Caller, pc'[q] = "trying"
      PROVE  listed'[q] = renew'[q] \cup ready'[q]
  <2>1. q # p
    BY <1>7 DEF RoundsTyped, End
  <2>2. /\ pc'[q] = pc[q] /\ listed'[q] = listed[q]
        /\ renew'[q] = renew[q] /\ ready'[q] = ready[q]
    BY <2>1 DEF RoundsTyped, End
  <2> QED BY <1>7, <2>2 DEF ListConsistent
<1> QED BY <1>1, <1>2, <1>3, <1>4, <1>5, <1>6, <1>7 DEF RoundsTyped, ListConsistent

LEMMA SkipTyped ==
  ASSUME RoundsTyped, ListConsistent, NEW p \in Caller, NEW a, Skip(p, a),
         UNCHANGED copy
  PROVE  RoundsTyped' /\ ListConsistent'
<1> USE ConstantFacts
<1>1. listed' \in [Round -> SUBSET Account]
  BY DEF RoundsTyped, Skip
<1>2. renew' \in [Caller -> SUBSET Account] /\ ready' \in [Caller -> SUBSET Account]
  BY DEF RoundsTyped, Skip
<1>3. ASSUME NEW q \in Caller, pc'[q] = "trying"
      PROVE  listed'[q] = renew'[q] \cup ready'[q]
  <2>1. listed[q] = renew[q] \cup ready[q]
    BY <1>3 DEF Skip, ListConsistent
  <2>2. CASE q = p
    <3>1. /\ listed'[q] = listed[q] \ {a}
          /\ renew'[q] = renew[q] \ {a} /\ ready'[q] = ready[q] \ {a}
      BY <2>2 DEF RoundsTyped, Skip
    <3> QED BY <2>1, <3>1
  <2>3. CASE q # p
    <3>1. listed'[q] = listed[q] /\ renew'[q] = renew[q] /\ ready'[q] = ready[q]
      BY <2>3 DEF RoundsTyped, Skip
    <3> QED BY <2>1, <3>1
  <2> QED BY <2>2, <2>3
<1> QED BY <1>1, <1>2, <1>3 DEF Skip, RoundsTyped, ListConsistent

LEMMA OthersTyped ==
  ASSUME RoundsTyped, ListConsistent, UNCHANGED <<pc, listed, OtherRounds>>
  PROVE  RoundsTyped' /\ ListConsistent'
BY DEF RoundsTyped, ListConsistent, OtherRounds

LEMMA WorkerTyped ==
  ASSUME RoundsTyped, ListConsistent, UNCHANGED OtherRounds,
         NEW x \in Steps, NEW L \in SUBSET Account,
         pc' = [pc EXCEPT ![Worker] = x], listed' = [listed EXCEPT ![Worker] = L]
  PROVE  RoundsTyped' /\ ListConsistent'
<1>1. pc' \in [Round -> Steps]
  BY DEF RoundsTyped
<1>2. listed' \in [Round -> SUBSET Account]
  BY DEF RoundsTyped
<1>3. \A q \in Caller : pc'[q] = pc[q] /\ listed'[q] = listed[q]
  BY ConstantFacts DEF RoundsTyped
<1> QED BY <1>1, <1>2, <1>3 DEF RoundsTyped, ListConsistent, OtherRounds
\* List leaves types and lists in order.
LEMMA ListTyped ==
  ASSUME TypeOK, NEW p \in Caller, List(p)
  PROVE  row' \in [Account -> Row] /\ RoundsTyped' /\ ListConsistent'
<1> USE ConstantFacts
<1>1. row \in [Account -> Row] /\ RoundsTyped /\ ListConsistent
  BY Parts
<1>2. PICK excluded \in SUBSET Account, k \in Rankings :
        LET found == {a \in Account \ excluded : row[a].active}
        IN  /\ listed' = [listed EXCEPT ![p] = found]
            /\ copy' = [copy EXCEPT ![p] = [a \in Account |->
                                              IF a \in found THEN row[a] ELSE Blank]]
            /\ order' = [order EXCEPT ![p] = k.order \cap (found \X found)]
            /\ promised' = [promised EXCEPT ![p] = k.promised \cap (found \X found)]
  BY DEF List
<1> DEFINE found == {a \in Account \ excluded : row[a].active}
           seen == [a \in Account |-> IF a \in found THEN row[a] ELSE Blank]
<1>3. Blank \in Row
  BY DEF Blank, Row, NoExpiry, Never
<1>4. seen \in [Account -> Row]
  BY <1>1, <1>3
<1>5. listed' \in [Round -> SUBSET Account]
  BY <1>1, <1>2 DEF RoundsTyped
<1>6. copy' = [copy EXCEPT ![p] = seen]
  BY <1>2
<1> HIDE DEF seen
<1>7. copy' \in [Caller -> [Account -> Row]]
  BY <1>1, <1>4, <1>6 DEF RoundsTyped
<1>8. k.order \subseteq Pairs /\ k.promised \subseteq Pairs
  BY RankingsKeepPromises
<1>9. order' \in [Caller -> SUBSET Pairs] /\ promised' \in [Caller -> SUBSET Pairs]
  BY <1>1, <1>2, <1>8 DEF RoundsTyped
<1>10. pc' \in [Round -> Steps] /\ pick' \in [Caller -> Account \cup {NoAccount}]
  BY <1>1 DEF List, RoundsTyped, Steps
<1>11. row' = row /\ renew' = renew /\ ready' = ready
  BY DEF List
<1>12. \A q \in Caller : q # p => pc'[q] = pc[q] /\ listed'[q] = listed[q]
  BY <1>1, <1>2 DEF List, RoundsTyped
<1>13. pc'[p] = "listed"
  BY <1>1 DEF List, RoundsTyped
<1>14. ListConsistent'
  BY <1>1, <1>11, <1>12, <1>13 DEF ListConsistent
<1> QED BY <1>1, <1>5, <1>7, <1>9, <1>10, <1>11, <1>14 DEF RoundsTyped

\* Judge sorts what is listed into what is refreshed and what is ready.
LEMMA JudgeTyped ==
  ASSUME TypeOK, NEW p \in Caller, Judge(p)
  PROVE  row' \in [Account -> Row] /\ RoundsTyped' /\ ListConsistent'
<1> USE ConstantFacts
<1>1. row \in [Account -> Row] /\ RoundsTyped /\ ListConsistent
  BY Parts
<1>2. PICK enabled \in BOOLEAN :
        LET due == {a \in listed[p] \cap Renewable : enabled /\ ShouldRefresh(copy[p][a])}
            good == {a \in listed[p] : Current(copy[p][a])}
        IN  /\ renew' = [renew EXCEPT ![p] = due]
            /\ ready' = [ready EXCEPT ![p] = good]
            /\ listed' = [listed EXCEPT ![p] = due \cup good]
  BY DEF Judge
<1> DEFINE due == {a \in listed[p] \cap Renewable : enabled /\ ShouldRefresh(copy[p][a])}
           good == {a \in listed[p] : Current(copy[p][a])}
<1>3. due \in SUBSET Account /\ good \in SUBSET Account
  BY <1>1 DEF RoundsTyped
<1>4. /\ renew' = [renew EXCEPT ![p] = due]
      /\ ready' = [ready EXCEPT ![p] = good]
      /\ listed' = [listed EXCEPT ![p] = due \cup good]
  BY <1>2
<1> HIDE DEF due, good
<1>5. renew' \in [Caller -> SUBSET Account] /\ ready' \in [Caller -> SUBSET Account]
  BY <1>1, <1>3, <1>4 DEF RoundsTyped
<1>6. listed' \in [Round -> SUBSET Account]
  BY <1>1, <1>3, <1>4 DEF RoundsTyped
<1>7. Blank \in Row
  BY DEF Blank, Row, NoExpiry, Never
<1>8. copy' \in [Caller -> [Account -> Row]]
  BY <1>1, <1>7 DEF Judge, RoundsTyped
<1>9. pc' \in [Round -> Steps]
  BY <1>1 DEF Judge, RoundsTyped, Steps
<1>10. ASSUME NEW q \in Caller, pc'[q] = "trying"
       PROVE  listed'[q] = renew'[q] \cup ready'[q]
  <2>1. CASE q = p
    BY <1>1, <1>4, <2>1 DEF RoundsTyped
  <2>2. CASE q # p
    <3>1. /\ pc'[q] = pc[q] /\ listed'[q] = listed[q]
          /\ renew'[q] = renew[q] /\ ready'[q] = ready[q]
      BY <1>1, <1>4, <2>2 DEF Judge, RoundsTyped
    <3> QED BY <1>1, <1>10, <3>1 DEF ListConsistent
  <2> QED BY <2>1, <2>2
<1> QED BY <1>1, <1>5, <1>6, <1>8, <1>9, <1>10 DEF Judge, RoundsTyped, ListConsistent

LEMMA TypeInit == Init => TypeOK
<1> SUFFICES ASSUME Init PROVE TypeOK
  OBVIOUS
<1>1. Blank \in Row
  BY ConstantFacts DEF Blank, Row, NoExpiry, Never
<1>2. row \in [Account -> Row] /\ copy \in [Caller -> [Account -> Row]]
  BY <1>1 DEF Init
<1>3. /\ pc \in [Round -> Steps]
      /\ listed \in [Round -> SUBSET Account]
      /\ \A p \in Caller : pc[p] # "trying"
  BY ConstantFacts DEF Init, Steps
<1>4. /\ renew \in [Caller -> SUBSET Account]
      /\ ready \in [Caller -> SUBSET Account]
      /\ order \in [Caller -> SUBSET Pairs]
      /\ promised \in [Caller -> SUBSET Pairs]
      /\ pick \in [Caller -> Account \cup {NoAccount}]
      /\ steady \in [Caller -> SUBSET Account]
  BY DEF Init
<1> QED BY <1>2, <1>3, <1>4 DEF TypeOK

\* Type correctness, step by step.
LEMMA TypeNext == TypeOK /\ [Next]_vars => TypeOK'
<1> SUFFICES ASSUME TypeOK, [Next]_vars PROVE TypeOK'
  OBVIOUS
<1>1. /\ row \in [Account -> Row] /\ RoundsTyped /\ ListConsistent
      /\ steady \in [Caller -> SUBSET Account]
  BY Parts
<1>2. CASE UNCHANGED vars
  BY <1>2 DEF vars, TypeOK
<1>3. CASE Next
  <2>1. ASSUME NEW p \in Caller, Search(p)
        PROVE  row' \in [Account -> Row] /\ RoundsTyped' /\ ListConsistent'
    <3>1. CASE List(p)
      BY <3>1, ListTyped
    <3>2. CASE Judge(p)
      BY <3>2, JudgeTyped
    <3>3. CASE Fail(p)
      <4>1. End(p, NoAccount) /\ UNCHANGED <<row, copy>>
        BY <3>3 DEF Fail
      <4> QED BY <1>1, <4>1, EndTyped
    <3>4. ASSUME NEW a \in Account, TakeReady(p, a)
          PROVE  row' \in [Account -> Row] /\ RoundsTyped' /\ ListConsistent'
      <4>1. End(p, a) /\ UNCHANGED <<row, copy>>
        BY <3>4 DEF TakeReady
      <4> QED BY <1>1, <4>1, EndTyped
    <3>5. ASSUME NEW a \in Account, RefreshSucceeds(p, a)
          PROVE  row' \in [Account -> Row] /\ RoundsTyped' /\ ListConsistent'
      <4>1. \E r \in Attempted(row[a]) : Rewrite(a, r)
        BY <3>5, RefreshedIsAttempted DEF RefreshSucceeds
      <4>2. (End(p, a) \/ Skip(p, a)) /\ UNCHANGED copy
        BY <3>5 DEF RefreshSucceeds
      <4> QED BY <1>1, <4>1, <4>2, AttemptTyped, EndTyped, SkipTyped
    <3>6. ASSUME NEW a \in Account, RefreshFails(p, a)
          PROVE  row' \in [Account -> Row] /\ RoundsTyped' /\ ListConsistent'
      <4>1. \E r \in Attempted(row[a]) : Rewrite(a, r)
        BY <3>6 DEF RefreshFails
      <4>2. (End(p, a) \/ Skip(p, a)) /\ UNCHANGED copy
        BY <3>6 DEF RefreshFails
      <4> QED BY <1>1, <4>1, <4>2, AttemptTyped, EndTyped, SkipTyped
    <3> QED BY <2>1, <3>1, <3>2, <3>3, <3>4, <3>5, <3>6 DEF Search
  <2>2. ASSUME Work
        PROVE  row' \in [Account -> Row] /\ RoundsTyped' /\ ListConsistent'
    <3>1. CASE WorkerLists
      <4>1. {a \in Renewable : row[a].active /\ ShouldRefresh(row[a])} \in SUBSET Account
        BY ConstantFacts
      <4>2. "trying" \in Steps
        BY DEF Steps
      <4> QED BY <1>1, <3>1, <4>1, <4>2, WorkerTyped DEF WorkerLists
    <3>2. CASE WorkerEnds
      <4>1. UNCHANGED OtherRounds /\ row' = row
        BY <3>2 DEF WorkerEnds
      <4>2. pc' = [pc EXCEPT ![Worker] = "idle"]
        BY <3>2 DEF WorkerEnds
      <4>3. listed' = [listed EXCEPT ![Worker] = listed[Worker]]
        BY <1>1, <3>2 DEF WorkerEnds, RoundsTyped
      <4>4. "idle" \in Steps /\ listed[Worker] \in SUBSET Account
        BY <1>1, ConstantFacts DEF Steps, RoundsTyped
      <4> QED BY <1>1, <4>1, <4>2, <4>3, <4>4, WorkerTyped
    <3>3. ASSUME NEW a \in Account, WorkerLeaves(a)
          PROVE  RoundsTyped' /\ ListConsistent'
      <4>1. UNCHANGED OtherRounds /\ listed' = [listed EXCEPT ![Worker] = listed[Worker] \ {a}]
        BY <3>3 DEF WorkerLeaves
      <4>2. pc' = [pc EXCEPT ![Worker] = pc[Worker]]
        BY <1>1, <3>3 DEF WorkerLeaves, RoundsTyped
      <4>3. pc[Worker] \in Steps /\ listed[Worker] \ {a} \in SUBSET Account
        BY <1>1, ConstantFacts DEF RoundsTyped
      <4> QED BY <1>1, <4>1, <4>2, <4>3, WorkerTyped
    <3>4. ASSUME NEW a \in Account, WorkerPasses(a) \/ WorkerRefreshes(a)
          PROVE  row' \in [Account -> Row] /\ RoundsTyped' /\ ListConsistent'
      <4>1. WorkerLeaves(a)
        BY <3>4 DEF WorkerPasses, WorkerRefreshes
      <4>2. row' = row \/ \E r \in Attempted(row[a]) : Rewrite(a, r)
        BY <3>4 DEF WorkerPasses, WorkerRefreshes
      <4> QED BY <1>1, <3>3, <4>1, <4>2, AttemptTyped
    <3> QED BY <2>2, <3>1, <3>2, <3>4 DEF Work
  <2>3. ASSUME NEW a \in Account, ManualRefresh(a) \/ Edit(a) \/ SetActive(a)
        PROVE  row' \in [Account -> Row] /\ RoundsTyped' /\ ListConsistent'
    <3>1. RoundsTyped' /\ ListConsistent'
      BY <1>1, <2>3, OthersTyped DEF ManualRefresh, Edit, SetActive
    <3>2. CASE ManualRefresh(a)
      BY <1>1, <3>1, <3>2, RefreshedIsAttempted, AttemptTyped DEF ManualRefresh
    <3>3. CASE Edit(a)
      <4>1. PICK n \in 0 .. NoExpiry : Rewrite(a, [row[a] EXCEPT !.left = n])
        BY <3>3 DEF Edit
      <4>2. [row[a] EXCEPT !.left = n] \in Row
        BY <1>1 DEF Row
      <4> QED BY <1>1, <3>1, <4>1, <4>2, RewriteTyped
    <3>4. CASE SetActive(a)
      <4>1. [row[a] EXCEPT !.active = ~row[a].active] \in Row
        BY <1>1 DEF Row
      <4>2. Rewrite(a, [row[a] EXCEPT !.active = ~row[a].active])
        BY <3>4 DEF SetActive
      <4> QED BY <1>1, <3>1, <4>1, <4>2, RewriteTyped
    <3> QED BY <2>3, <3>2, <3>3, <3>4
  <2>4. ASSUME Tick
        PROVE  row' \in [Account -> Row] /\ RoundsTyped' /\ ListConsistent'
    <3>1. row' \in [Account -> Row]
      BY <1>1, <2>4, AgedRows DEF Tick
    <3>2. \A p \in Caller : \A a \in Account : Aged(copy[p][a]) \in Row
      BY <1>1, AgedRows DEF RoundsTyped
    <3>3. copy' = [p \in Caller |-> IF pc[p] = "listed"
                                      THEN [a \in Account |-> Aged(copy[p][a])]
                                      ELSE copy[p]]
      BY <2>4 DEF Tick
    <3>4. copy' \in [Caller -> [Account -> Row]]
      <4>1. \A p \in Caller : copy[p] \in [Account -> Row]
        BY <1>1 DEF RoundsTyped
      <4>2. \A p \in Caller : [a \in Account |-> Aged(copy[p][a])] \in [Account -> Row]
        BY <3>2
      <4> QED BY <3>3, <4>1, <4>2
    <3> QED BY <1>1, <2>4, <3>1, <3>4 DEF Tick, RoundsTyped, ListConsistent
  <2>5. row' \in [Account -> Row] /\ RoundsTyped' /\ ListConsistent'
    BY <1>3, <2>1, <2>2, <2>3, <2>4 DEF Next
  <2>6. steady' \in [Caller -> SUBSET Account]
    BY <1>1, <1>3, <2>5, WatchTyped DEF Next, RoundsTyped
  <2> QED BY <2>5, <2>6 DEF TypeOK, RoundsTyped, ListConsistent
<1> QED BY <1>2, <1>3
-----------------------------------------------------------------------------
\* Every variable keeps its type, and what a round has still to try is what it
\* refreshes and what is ready.
THEOREM TypeCorrect == Spec => []TypeOK
BY TypeInit, TypeNext, PTL DEF Spec

-----------------------------------------------------------------------------
(* The end of a round.                                                      *)

\* What Watch says of one account.
LEMMA Watched ==
  ASSUME Watch, NEW p \in Caller, NEW a \in steady'[p]
  PROVE  /\ pc'[p] # "idle"
         /\ row'[a].active /\ Current(row'[a])
         /\ pc'[p] = "listed" => Current(copy'[p][a])
         /\ pc[p] = "idle" => a \in listed'[p]
         /\ pc[p] # "idle" => a \in steady[p]
BY DEF Watch

\* A step of others leaves the round of p as it is, up to time.
LEMMA UnmovedSteady ==
  ASSUME TypeOK, SteadyIsReady, Watch, NEW p \in Caller,
         pc'[p] = pc[p], listed'[p] = listed[p], ready'[p] = ready[p]
  PROVE  /\ pc'[p] = "idle" => steady'[p] = {}
         /\ pc'[p] = "listed" =>
              \A a \in steady'[p] : a \in listed'[p] /\ Current(copy'[p][a])
         /\ pc'[p] = "trying" => steady'[p] \subseteq ready'[p]
<1>1. pc'[p] = "idle" => steady'[p] = {}
  BY DEF Watch
<1>2. ASSUME pc'[p] = "listed", NEW a \in steady'[p]
      PROVE  a \in listed'[p] /\ Current(copy'[p][a])
  BY <1>2, Watched DEF SteadyIsReady
<1>3. ASSUME pc'[p] = "trying"
      PROVE  steady'[p] \subseteq ready'[p]
  BY <1>3, Watched DEF SteadyIsReady
<1> QED BY <1>1, <1>2, <1>3

\* A caller's step leaves the rounds of the others as they are.
LEMMA OtherCallers ==
  ASSUME TypeOK, NEW p \in Caller, Search(p), NEW q \in Caller, q # p
  PROVE  /\ pc'[q] = pc[q] /\ listed'[q] = listed[q] /\ ready'[q] = ready[q]
         /\ order'[q] = order[q] /\ promised'[q] = promised[q]
<1>1. RoundsTyped
  BY Parts
<1>2. ASSUME NEW a, End(p, a) \/ Skip(p, a)
      PROVE  /\ pc'[q] = pc[q] /\ listed'[q] = listed[q] /\ ready'[q] = ready[q]
             /\ order'[q] = order[q] /\ promised'[q] = promised[q]
  <2> USE <1>1, ConstantFacts
  <2>1. CASE End(p, a)
    BY <2>1 DEF End, RoundsTyped
  <2>2. CASE Skip(p, a)
    BY <2>2 DEF Skip, RoundsTyped
  <2> QED BY <1>2, <2>1, <2>2
<1>3. CASE List(p)
  BY <1>1, <1>3 DEF List, RoundsTyped
<1>4. CASE Judge(p)
  BY <1>1, <1>4 DEF Judge, RoundsTyped
<1>5. CASE ~List(p) /\ ~Judge(p)
  <2>1. \E a : End(p, a) \/ Skip(p, a)
    BY <1>5 DEF Search, Fail, TakeReady, RefreshSucceeds, RefreshFails
  <2> QED BY <1>2, <2>1
<1> QED BY <1>3, <1>4, <1>5

\* The worker's and other people's steps leave the rounds of the callers alone.
LEMMA NotCallers ==
  ASSUME TypeOK, NEW q \in Caller,
         Work \/ Tick \/ \E a \in Account : ManualRefresh(a) \/ Edit(a) \/ SetActive(a)
  PROVE  /\ pc'[q] = pc[q] /\ listed'[q] = listed[q] /\ ready'[q] = ready[q]
         /\ order'[q] = order[q] /\ promised'[q] = promised[q]
<1>1. RoundsTyped /\ q # Worker
  BY Parts, ConstantFacts
<1>2. CASE Work
  <2>1. UNCHANGED OtherRounds
    BY <1>2 DEF Work, WorkerLists, WorkerEnds, WorkerPasses, WorkerRefreshes, WorkerLeaves
  <2>2. /\ pc' = pc \/ \E x \in Steps : pc' = [pc EXCEPT ![Worker] = x]
        /\ listed' = listed \/ \E L : listed' = [listed EXCEPT ![Worker] = L]
    BY <1>2 DEF Work, WorkerLists, WorkerEnds, WorkerPasses, WorkerRefreshes, WorkerLeaves, Steps
  <2>3. pc'[q] = pc[q] /\ listed'[q] = listed[q]
    BY <1>1, <2>2, ConstantFacts DEF RoundsTyped
  <2> QED BY <2>1, <2>3 DEF OtherRounds
<1>3. CASE Tick
  BY <1>3 DEF Tick
<1>4. CASE \E a \in Account : ManualRefresh(a) \/ Edit(a) \/ SetActive(a)
  BY <1>4 DEF ManualRefresh, Edit, SetActive, OtherRounds
<1> QED BY <1>2, <1>3, <1>4

\* What a caller's own step does to its steady accounts.
LEMMA OwnSteady ==
  ASSUME TypeOK, SteadyIsReady, Watch, NEW p \in Caller, Search(p)
  PROVE  /\ pc'[p] = "idle" => steady'[p] = {}
         /\ pc'[p] = "listed" =>
              \A a \in steady'[p] : a \in listed'[p] /\ Current(copy'[p][a])
         /\ pc'[p] = "trying" => steady'[p] \subseteq ready'[p]
<1>1. RoundsTyped /\ row \in [Account -> Row]
  BY Parts
<1>2. pc'[p] = "idle" => steady'[p] = {}
  BY DEF Watch
<1>3. CASE List(p)
  <2>1. pc[p] = "idle" /\ pc'[p] = "listed"
    BY <1>1, <1>3, ConstantFacts DEF List, RoundsTyped
  <2> QED BY <2>1, Watched
<1>4. CASE Judge(p)
  <2>1. pc[p] = "listed" /\ pc'[p] = "trying"
    BY <1>1, <1>4, ConstantFacts DEF Judge, RoundsTyped
  <2>2. ready'[p] = {a \in listed[p] : Current(copy[p][a])}
    BY <1>1, <1>4 DEF Judge, RoundsTyped
  <2> QED BY <2>1, <2>2, Watched DEF SteadyIsReady
<1>5. CASE \E a \in Account \cup {NoAccount} : End(p, a)
  <2>1. pc'[p] = "idle"
    BY <1>1, <1>5, ConstantFacts DEF End, RoundsTyped
  <2> QED BY <1>2, <2>1
<1>6. ASSUME NEW a \in Account, Skip(p, a), a \notin steady'[p], pc[p] = "trying"
      PROVE  pc'[p] = "trying" /\ steady'[p] \subseteq ready'[p]
  <2>1. pc'[p] = "trying" /\ ready'[p] = ready[p] \ {a}
    BY <1>1, <1>6 DEF Skip, RoundsTyped
  <2> QED BY <1>6, <2>1, Watched DEF SteadyIsReady
<1>7. ASSUME NEW a \in Account, RefreshSucceeds(p, a)
      PROVE  (\E b \in Account \cup {NoAccount} : End(p, b))
             \/ (Skip(p, a) /\ a \notin steady'[p] /\ pc[p] = "trying")
  <2>1. PICK r \in Refreshed(row[a]) :
          Rewrite(a, r) /\ (End(p, a) \/ (~Current(r) /\ Skip(p, a)))
    BY <1>7 DEF RefreshSucceeds
  <2>2. CASE End(p, a)
    BY <2>2
  <2>3. CASE ~Current(r) /\ Skip(p, a)
    <3>1. row'[a] = r
      BY <1>1, <2>1 DEF Rewrite
    <3>2. pc[p] = "trying"
      BY <1>7 DEF RefreshSucceeds, IsNext
    <3> QED BY <2>3, <3>1, <3>2, Watched
  <2> QED BY <2>1, <2>2, <2>3
<1>8. ASSUME NEW a \in Account, RefreshFails(p, a)
      PROVE  (\E b \in Account \cup {NoAccount} : End(p, b))
             \/ (Skip(p, a) /\ a \notin steady'[p] /\ pc[p] = "trying")
  <2>1. pc[p] = "trying"
    BY <1>8 DEF RefreshFails, IsNext
  <2>2. CASE a \in ready[p]
    BY <1>8, <2>2 DEF RefreshFails
  <2>3. CASE a \notin ready[p]
    BY <1>8, <2>1, <2>3, Watched DEF RefreshFails, SteadyIsReady
  <2> QED BY <2>2, <2>3
<1>9. CASE ~List(p) /\ ~Judge(p)
  <2>1. (\E b \in Account \cup {NoAccount} : End(p, b))
        \/ \E a \in Account : Skip(p, a) /\ a \notin steady'[p] /\ pc[p] = "trying"
    BY <1>7, <1>8, <1>9 DEF Search, Fail, TakeReady
  <2> QED BY <1>5, <1>6, <2>1
<1> QED BY <1>3, <1>4, <1>9

\* The order of a list is taken at once with the list.
LEMMA OwnOrder ==
  ASSUME TypeOK, PromisedIsKept, NEW p \in Caller, Search(p)
  PROVE  promised'[p] \subseteq order'[p]
<1>1. RoundsTyped
  BY Parts
<1>2. CASE List(p)
  <2>1. PICK excluded \in SUBSET Account, k \in Rankings :
          LET found == {a \in Account \ excluded : row[a].active}
          IN  /\ order' = [order EXCEPT ![p] = k.order \cap (found \X found)]
              /\ promised' = [promised EXCEPT ![p] = k.promised \cap (found \X found)]
    BY <1>2 DEF List
  <2>2. k.promised \subseteq k.order
    BY RankingsKeepPromises
  <2> QED BY <1>1, <2>1, <2>2 DEF RoundsTyped
<1>3. CASE Judge(p)
  BY <1>3 DEF Judge, PromisedIsKept
<1>4. \A a : End(p, a) => promised'[p] = {} /\ order'[p] = {}
  BY <1>1 DEF End, RoundsTyped
<1>5. \A a : Skip(p, a) => promised' = promised /\ order' = order
  BY DEF Skip
<1>6. CASE ~List(p) /\ ~Judge(p)
  <2>1. \E a : End(p, a) \/ Skip(p, a)
    BY <1>6 DEF Search, Fail, TakeReady, RefreshSucceeds, RefreshFails
  <2> QED BY <1>4, <1>5, <2>1 DEF PromisedIsKept
<1> QED BY <1>2, <1>3, <1>6

LEMMA IInvInit == Init => IInv
<1> SUFFICES ASSUME Init PROVE IInv
  OBVIOUS
<1>1. SteadyIsReady
  BY DEF Init, SteadyIsReady
<1>2. PromisedIsKept
  BY DEF Init, PromisedIsKept
<1> QED BY <1>1, <1>2, TypeInit DEF IInv

LEMMA IInvNext == IInv /\ [Next]_vars => IInv'
<1> SUFFICES ASSUME IInv, [Next]_vars PROVE IInv'
  OBVIOUS
<1>1. TypeOK /\ SteadyIsReady /\ PromisedIsKept
  BY DEF IInv
<1>2. TypeOK'
  BY <1>1, TypeNext
<1>3. CASE UNCHANGED vars
  BY <1>1, <1>2, <1>3 DEF vars, IInv, SteadyIsReady, PromisedIsKept
<1>4. CASE Next
  <2>1. Watch
    BY <1>4 DEF Next
  <2>2. ASSUME NEW q \in Caller
        PROVE  /\ pc'[q] = "idle" => steady'[q] = {}
               /\ pc'[q] = "listed" =>
                    \A a \in steady'[q] : a \in listed'[q] /\ Current(copy'[q][a])
               /\ pc'[q] = "trying" => steady'[q] \subseteq ready'[q]
               /\ promised'[q] \subseteq order'[q]
    <3>1. CASE Search(q)
      BY <1>1, <2>1, <3>1, OwnSteady, OwnOrder
    <3>2. CASE ~Search(q)
      <4>1. /\ pc'[q] = pc[q] /\ listed'[q] = listed[q] /\ ready'[q] = ready[q]
            /\ order'[q] = order[q] /\ promised'[q] = promised[q]
        <5>1. CASE \E p \in Caller : Search(p)
          BY <1>1, <3>2, <5>1, OtherCallers
        <5>2. CASE ~\E p \in Caller : Search(p)
          BY <1>1, <1>4, <5>2, NotCallers DEF Next
        <5> QED BY <5>1, <5>2
      <4>2. promised'[q] \subseteq order'[q]
        BY <1>1, <4>1 DEF PromisedIsKept
      <4> QED BY <1>1, <2>1, <4>1, <4>2, UnmovedSteady
    <3> QED BY <3>1, <3>2
  <2>3. SteadyIsReady' /\ PromisedIsKept'
    BY <2>2 DEF SteadyIsReady, PromisedIsKept
  <2> QED BY <1>2, <2>3 DEF IInv
<1> QED BY <1>3, <1>4

\* A round that ends has what EndsWithBest promises.
LEMMA EndIsBest ==
  ASSUME IInv, Next, NEW p \in Caller, pc[p] = "trying", pc'[p] = "idle"
  PROVE  EndsWithBest(p)
<1>1. /\ TypeOK /\ RoundsTyped /\ ListConsistent
      /\ steady[p] \subseteq ready[p] /\ promised[p] \subseteq order[p]
  BY Parts DEF IInv, SteadyIsReady, PromisedIsKept
<1>2. steady[p] \subseteq listed[p]
  BY <1>1 DEF ListConsistent
<1>3. Search(p)
  <2>1. CASE \E q \in Caller : Search(q)
    BY <1>1, <2>1, OtherCallers
  <2>2. CASE ~\E q \in Caller : Search(q)
    BY <1>1, <2>2, NotCallers DEF Next
  <2> QED BY <2>1, <2>2
<1>4. CASE Fail(p)
  <2>1. listed[p] = {} /\ pick'[p] = NoAccount
    BY <1>1, <1>4 DEF Fail, End, RoundsTyped
  <2> QED BY <1>2, <2>1 DEF EndsWithBest
<1>5. ASSUME NEW a \in Account, IsFirst(p, a), End(p, a)
      PROVE  EndsWithBest(p)
  <2>1. pick'[p] = a /\ a # NoAccount
    BY <1>1, <1>5, ConstantFacts DEF End, RoundsTyped
  <2>2. \A b \in steady[p] : <<b, a>> \notin promised[p]
    BY <1>1, <1>2, <1>5 DEF IsFirst
  <2> QED BY <2>1, <2>2 DEF EndsWithBest
<1>6. ASSUME NEW a \in Account,
             TakeReady(p, a) \/ RefreshSucceeds(p, a) \/ RefreshFails(p, a)
      PROVE  IsFirst(p, a) /\ (End(p, a) \/ Skip(p, a))
  BY <1>6 DEF TakeReady, RefreshSucceeds, RefreshFails, IsNext
<1>7. \A a : ~Skip(p, a)
  BY DEF Skip
<1>8. ~List(p) /\ ~Judge(p)
  BY <1>1, ConstantFacts DEF List, Judge, RoundsTyped
<1> QED BY <1>3, <1>4, <1>5, <1>6, <1>7, <1>8 DEF Search

\* A caller is turned away only if nothing on its list stayed usable, and is never
\* given an account while one promised to come before it stayed usable.
THEOREM BestChoice == Spec => BestUsableIsChosen
<1>1. IInv /\ [Next]_vars
        => [\A p \in Caller : pc[p] = "trying" /\ pc'[p] = "idle" => EndsWithBest(p)]_vars
  <2> SUFFICES ASSUME IInv, Next
               PROVE  \A p \in Caller :
                        pc[p] = "trying" /\ pc'[p] = "idle" => EndsWithBest(p)
    BY DEF vars
  <2> QED BY EndIsBest
<1> QED BY <1>1, IInvInit, IInvNext, PTL DEF Spec, BestUsableIsChosen

-----------------------------------------------------------------------------
(* The order of a list, and that a round always knows how to go on.          *)

\* Every nonempty set of numbers has a smallest one.
LEMMA SmallestNumber ==
  ASSUME NEW T, T \subseteq Nat, T # {}
  PROVE  \E x \in T : \A y \in T : x <= y
<1> DEFINE Less == {p \in Nat \X Nat : p[1] < p[2]}
<1>1. OpToRel(<, Nat) = Less
  BY Zenon DEF OpToRel
<1>2. IsWellFoundedOn(Less, Nat)
  BY <1>1, NatLessThanWellFounded, Zenon
<1>3. PICK x \in T : \A y \in T : ~(<<y, x>> \in Less)
  <2> HIDE DEF Less
  <2> QED BY <1>2, WFMin, Zenon
<1>4. ASSUME NEW y \in T
      PROVE  x <= y
  <2>1. <<y, x>> \notin Less
    BY <1>3
  <2> QED BY <2>1
<1> QED BY <1>4

\* A number assigned to every account is smallest for one of them.
LEMMA SmallestAccount ==
  ASSUME NEW f \in [Account -> Nat], NEW T, T \subseteq Account, T # {}
  PROVE  \E a \in T : \A b \in T : f[a] <= f[b]
<1> DEFINE N == {f[a] : a \in T}
<1>1. N \subseteq Nat /\ N # {}
  OBVIOUS
<1>2. PICK n \in N : \A m \in N : n <= m
  BY <1>1, SmallestNumber
<1>3. PICK a \in T : f[a] = n
  BY <1>2
<1>4. ASSUME NEW b \in T
      PROVE  f[a] <= f[b]
  BY <1>2, <1>3
<1> QED BY <1>4

\* R puts the members of S into one order, in which every nonempty part of S
\* has a first member.
WellOrders(R, S) ==
  /\ \A a, b \in S : a = b \/ <<a, b>> \in R \/ <<b, a>> \in R
  /\ \A T \in SUBSET S : T # {} => \E a \in T : \A b \in T : <<b, a>> \notin R

LEMMA StatisticsTyped ==
  ASSUME NEW s \in Statistics
  PROVE  /\ s.run \in [Account -> Nat] /\ s.total \in [Account -> Nat]
         /\ s.used \in [Account -> 0 .. MaxCount] /\ s.used \in [Account -> Nat]
<1>1. 0 .. MaxCount \subseteq Nat
  OBVIOUS
<1>2. /\ s.run \in [Account -> 0 .. MaxCount] /\ s.total \in [Account -> 0 .. MaxCount]
      /\ s.used \in [Account -> 0 .. MaxCount]
  BY DEF Statistics
<1> QED BY <1>1, <1>2

\* The database's order: what it goes by, and that it has first members.
LEMMA DatabaseOrderFirst ==
  ASSUME NEW s \in Statistics, NEW T, T \subseteq Account, T # {}
  PROVE  \E a \in T : \A b \in T : ~DatabaseOrder(s, b, a)
<1> DEFINE stamp == [c \in Account |->
                       IF s.used[c] = 0 /\ ~NullsFirst THEN MaxCount + 1 ELSE s.used[c]]
           Oldest == {a \in T : \A b \in T : stamp[a] <= stamp[b]}
<1>1. stamp \in [Account -> Nat]
  BY StatisticsTyped, ChoiceAssumption
<1>2. Oldest # {}
  <2> HIDE DEF stamp
  <2>1. PICK a \in T : \A b \in T : stamp[a] <= stamp[b]
    BY <1>1, SmallestAccount
  <2> QED BY <2>1
<1>3. PICK a \in Oldest : \A b \in Oldest : a <= b
  <2> HIDE DEF stamp
  <2>1. Oldest \subseteq Nat
    BY ChoiceAssumption
  <2> QED BY <1>2, <2>1, SmallestNumber
<1>4. ASSUME NEW b \in T, DatabaseOrder(s, b, a)
      PROVE  FALSE
  <2>1. a \in T /\ a \in Account /\ b \in Account /\ a \in Nat /\ b \in Nat
    BY ChoiceAssumption
  <2>2. stamp[b] < stamp[a] \/ (stamp[b] = stamp[a] /\ b < a)
    BY <1>4, <2>1 DEF DatabaseOrder
  <2>3. stamp[a] <= stamp[b]
    OBVIOUS
  <2>4. stamp[a] \in Nat /\ stamp[b] \in Nat
    BY <1>1, <2>1
  <2>5. stamp[b] = stamp[a] /\ b < a
    <3> HIDE DEF stamp
    <3> QED BY <2>2, <2>3, <2>4
  <2>6. b \in Oldest
    <3> HIDE DEF stamp
    <3> QED BY <2>5
  <2> QED BY <1>3, <2>1, <2>5, <2>6
<1> QED BY <1>4

\* The balanced order: fewest errors in a row, of these fewest errors, of these
\* longest unused, of these the smallest id.
LEMMA CallOrderFirst ==
  ASSUME NEW s \in Statistics, NEW T, T \subseteq Account, T # {}
  PROVE  \E a \in T : \A b \in T : ~CallOrder(s, b, a)
<1> DEFINE Least(f, U) == {a \in U : \A b \in U : f[a] <= f[b]}
           Run == Least(s.run, T)
           All == Least(s.total, Run)
           Used == Least(s.used, All)
<1>1. ASSUME NEW f \in [Account -> Nat], NEW U, U \subseteq Account, U # {}
      PROVE  Least(f, U) # {}
  <2>1. PICK a \in U : \A b \in U : f[a] <= f[b]
    BY <1>1, SmallestAccount
  <2> QED BY <2>1
<1>2. Run # {} /\ Run \subseteq T
  BY <1>1, StatisticsTyped
<1>3. All # {} /\ All \subseteq Run
  <2> HIDE DEF Run
  <2>1. Run \subseteq Account
    BY <1>2
  <2> QED BY <1>1, <1>2, <2>1, StatisticsTyped
<1>4. Used # {} /\ Used \subseteq All
  <2> HIDE DEF Run, All
  <2>1. All \subseteq Account
    BY <1>2, <1>3
  <2> QED BY <1>1, <1>3, <2>1, StatisticsTyped
<1>5. PICK a \in Used : \A b \in Used : a <= b
  <2> HIDE DEF Run, All, Used
  <2>1. Used \subseteq Nat
    BY <1>2, <1>3, <1>4, ChoiceAssumption
  <2> QED BY <1>4, <2>1, SmallestNumber
<1>6. ASSUME NEW b \in T, CallOrder(s, b, a)
      PROVE  FALSE
  <2>1. /\ a \in T /\ a \in Run /\ a \in All
        /\ a \in Account /\ b \in Account /\ a \in Nat /\ b \in Nat
    <3> HIDE DEF Run, All, Used
    <3> QED BY <1>2, <1>3, <1>4, ChoiceAssumption
  <2>2. /\ s.run[a] \in Nat /\ s.run[b] \in Nat
        /\ s.total[a] \in Nat /\ s.total[b] \in Nat
        /\ s.used[a] \in Nat /\ s.used[b] \in Nat
    BY <2>1, StatisticsTyped
  <2>3. s.run[a] <= s.run[b]
    BY <2>1
  <2>4. s.run[b] = s.run[a]
    BY <1>6, <2>2, <2>3 DEF CallOrder
  <2>5. b \in Run
    BY <2>1, <2>4
  <2>6. s.total[a] <= s.total[b]
    <3> HIDE DEF Run
    <3> QED BY <2>1, <2>5
  <2>7. s.total[b] = s.total[a]
    BY <1>6, <2>2, <2>4, <2>6 DEF CallOrder
  <2>8. b \in All
    <3> HIDE DEF Run
    <3> QED BY <2>1, <2>5, <2>7
  <2>9. s.used[a] <= s.used[b]
    <3> HIDE DEF Run, All
    <3> QED BY <2>8
  <2>10. s.used[b] = s.used[a] /\ b < a
    BY <1>6, <2>2, <2>4, <2>7, <2>9 DEF CallOrder
  <2>11. b \in Used
    <3> HIDE DEF Run, All
    <3> QED BY <2>8, <2>10
  <2>12. a <= b
    <3> HIDE DEF Used
    <3> QED BY <1>5, <2>11
  <2> QED BY <2>1, <2>10, <2>12
<1> QED BY <1>6

\* Either order compares any two accounts.
LEMMA OrderIsTotal ==
  ASSUME NEW s \in Statistics, NEW a \in Account, NEW b \in Account, a # b
  PROVE  Before(s, a, b) \/ Before(s, b, a)
<1>1. /\ s.run[a] \in Nat /\ s.run[b] \in Nat
      /\ s.total[a] \in Nat /\ s.total[b] \in Nat
      /\ s.used[a] \in Nat /\ s.used[b] \in Nat
      /\ a \in Nat /\ b \in Nat /\ MaxCount \in Nat
  BY StatisticsTyped, ChoiceAssumption
<1>2. CallOrder(s, a, b) \/ CallOrder(s, b, a)
  BY <1>1 DEF CallOrder
<1>3. DatabaseOrder(s, a, b) \/ DatabaseOrder(s, b, a)
  BY <1>1 DEF DatabaseOrder
<1> QED BY <1>2, <1>3 DEF Before

\* Whatever the call mode and the statistics of the rows, orderAccountsForCallMode
\* and the database's ORDER BY put any accounts into one order, with a first one.
THEOREM ChoiceIsWellOrdered ==
  ASSUME NEW k \in Rankings
  PROVE  WellOrders(k.order, Account)
<1>1. PICK s \in Statistics : k.order = {p \in Pairs : Before(s, p[1], p[2])}
  BY DEF Rankings
<1>2. \A a, b \in Account : <<a, b>> \in k.order <=> Before(s, a, b)
  BY <1>1 DEF Pairs
<1>3. ASSUME NEW a \in Account, NEW b \in Account, a # b
      PROVE  <<a, b>> \in k.order \/ <<b, a>> \in k.order
  BY <1>2, <1>3, OrderIsTotal
<1>4. ASSUME NEW T \in SUBSET Account, T # {}
      PROVE  \E a \in T : \A b \in T : <<b, a>> \notin k.order
  <2>1. PICK a \in T : \A b \in T : ~Before(s, b, a)
    BY <1>4, CallOrderFirst, DatabaseOrderFirst DEF Before
  <2> QED BY <1>2, <2>1
<1> QED BY <1>3, <1>4 DEF WellOrders
\* A part of well-ordered accounts is well-ordered, and only pairs inside it matter.
LEMMA PartIsWellOrdered ==
  ASSUME NEW R, NEW S, NEW U, NEW Q, WellOrders(R, S), U \subseteq S,
         \A a, b \in U : <<a, b>> \in R <=> <<a, b>> \in Q
  PROVE  WellOrders(Q, U)
<1>1. \A a, b \in U : a = b \/ <<a, b>> \in Q \/ <<b, a>> \in Q
  BY DEF WellOrders
<1>2. ASSUME NEW T \in SUBSET U, T # {}
      PROVE  \E a \in T : \A b \in T : <<b, a>> \notin Q
  <2>1. PICK a \in T : \A b \in T : <<b, a>> \notin R
    BY <1>2 DEF WellOrders
  <2> QED BY <2>1
<1> QED BY <1>1, <1>2 DEF WellOrders

\* The list of a search is well-ordered from the time it is taken to the end.
ListsAreWellOrdered == \A p \in Caller : WellOrders(order[p], listed[p])

\* A search with accounts left to try has exactly one that is next.
NextIsDetermined ==
  \A p \in Caller :
    listed[p] # {} => \E a \in listed[p] :
                         \A b \in Account : IsFirst(p, b) <=> b = a

LEMMA OwnListOrdered ==
  ASSUME TypeOK, ListsAreWellOrdered, NEW p \in Caller, Search(p)
  PROVE  WellOrders(order'[p], listed'[p])
<1>1. RoundsTyped /\ ListConsistent
  BY Parts
<1>2. CASE List(p)
  <2>1. PICK excluded \in SUBSET Account, k \in Rankings :
          LET found == {a \in Account \ excluded : row[a].active}
          IN  /\ listed' = [listed EXCEPT ![p] = found]
              /\ order' = [order EXCEPT ![p] = k.order \cap (found \X found)]
    BY <1>2 DEF List
  <2> DEFINE found == {a \in Account \ excluded : row[a].active}
  <2>2. listed'[p] = found /\ order'[p] = k.order \cap (found \X found)
    BY <1>1, <2>1, ConstantFacts DEF RoundsTyped
  <2>3. \A a, b \in found : <<a, b>> \in k.order <=> <<a, b>> \in order'[p]
    BY <2>2
  <2>4. found \subseteq Account
    OBVIOUS
  <2> HIDE DEF found
  <2> QED BY <2>2, <2>3, <2>4, ChoiceIsWellOrdered, PartIsWellOrdered
<1>3. \A a : End(p, a) => listed'[p] = {}
  BY <1>1, ConstantFacts DEF End, RoundsTyped
<1>4. ASSUME listed'[p] \subseteq listed[p], order'[p] = order[p]
      PROVE  WellOrders(order'[p], listed'[p])
  BY <1>4, PartIsWellOrdered DEF ListsAreWellOrdered
<1>5. CASE Judge(p)
  <2>1. order'[p] = order[p] /\ listed'[p] \subseteq listed[p]
    BY <1>1, <1>5, ConstantFacts DEF Judge, RoundsTyped
  <2> QED BY <1>4, <2>1
<1>6. ASSUME NEW a, Skip(p, a)
      PROVE  WellOrders(order'[p], listed'[p])
  <2>1. order'[p] = order[p] /\ listed'[p] \subseteq listed[p]
    BY <1>1, <1>6, ConstantFacts DEF Skip, RoundsTyped
  <2> QED BY <1>4, <2>1
<1>7. CASE ~List(p) /\ ~Judge(p)
  <2>1. \E a : End(p, a) \/ Skip(p, a)
    BY <1>7 DEF Search, Fail, TakeReady, RefreshSucceeds, RefreshFails
  <2>2. CASE \E a : End(p, a)
    BY <1>3, <2>2 DEF WellOrders
  <2> QED BY <1>6, <2>1, <2>2
<1> QED BY <1>2, <1>5, <1>7

\* While a search has accounts left to try, exactly one of them is next, so that it
\* can always go on; whatever the lists, and whatever else happens.
THEOREM SearchGoesOn == Spec => []NextIsDetermined
<1>1. Init => ListsAreWellOrdered
  <2> SUFFICES ASSUME Init, NEW p \in Caller PROVE WellOrders(order[p], listed[p])
    BY DEF ListsAreWellOrdered
  <2>1. listed[p] = {}
    BY DEF Init, Round
  <2> QED BY <2>1 DEF WellOrders
<1>2. TypeOK /\ ListsAreWellOrdered /\ [Next]_vars => ListsAreWellOrdered'
  <2> SUFFICES ASSUME TypeOK, ListsAreWellOrdered, [Next]_vars, NEW p \in Caller
               PROVE  WellOrders(order'[p], listed'[p])
    BY DEF ListsAreWellOrdered
  <2>1. CASE UNCHANGED vars
    BY <2>1 DEF vars, ListsAreWellOrdered
  <2>2. CASE Next /\ Search(p)
    BY <2>2, OwnListOrdered
  <2>3. CASE Next /\ ~Search(p)
    <3>1. listed'[p] = listed[p] /\ order'[p] = order[p]
      <4>1. CASE \E q \in Caller : Search(q)
        BY <2>3, <4>1, OtherCallers
      <4>2. CASE ~\E q \in Caller : Search(q)
        BY <2>3, <4>2, NotCallers DEF Next
      <4> QED BY <4>1, <4>2
    <3> QED BY <3>1 DEF ListsAreWellOrdered
  <2> QED BY <2>1, <2>2, <2>3
<1>3. TypeOK /\ ListsAreWellOrdered => NextIsDetermined
  <2> SUFFICES ASSUME TypeOK, ListsAreWellOrdered, NEW p \in Caller, listed[p] # {}
               PROVE  \E a \in listed[p] : \A b \in Account : IsFirst(p, b) <=> b = a
    BY DEF NextIsDetermined
  <2>1. WellOrders(order[p], listed[p])
    BY DEF ListsAreWellOrdered
  <2>2. PICK a \in listed[p] : \A b \in listed[p] : <<b, a>> \notin order[p]
    BY <2>1 DEF WellOrders
  <2>3. ASSUME NEW b \in listed[p], IsFirst(p, b)
        PROVE  b = a
    BY <2>1, <2>2, <2>3 DEF WellOrders, IsFirst
  <2>4. \A b \in Account : IsFirst(p, b) <=> b = a
    BY <2>2, <2>3 DEF IsFirst
  <2> QED BY <2>4
<1> QED BY <1>1, <1>2, <1>3, TypeInit, TypeNext, PTL DEF Spec
=============================================================================
