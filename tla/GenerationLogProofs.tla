------------------------- MODULE GenerationLogProofs --------------------------
(***************************************************************************)
(* Proofs about GenerationLog, for any calls, timeouts and number of rows: *)
(* typing, that a row says what its generation came to, that no active row *)
(* is left without an owner, and that the finalizer and the generations do *)
(* not undo each other's writes.                                           *)
(***************************************************************************)
EXTENDS GenerationLog, TLAPS

\* What the proofs use of the constants.
LEMMA ConstantFacts ==
  /\ MaxLogs \in Nat /\ Grace \in Nat /\ MaxAge \in Nat
  /\ Timeouts \subseteq Nat /\ 0 \notin Timeouts /\ Default \in Timeouts
BY LogAssumption

\* The texts a row may have.
Texts == {"none", "success"} \cup Stages \cup Failures

\* failLog's texts are those of failures.
LEMMA TextIsFailure == \A error : Text(error) \in Failures
BY DEF Text, Failures

\* A stage is followed by a stage.
LEMMA AfterIsStage == \A s \in DOMAIN After : After[s] \in Stages
BY DEF After, Stages

\* An UPDATE leaves texts and ages behind.
LEMMA UpdateTypes ==
  ASSUME log \in [LogId -> Texts], age \in [LogId -> 0 .. MaxAge],
         NEW S, NEW text \in Texts, Update(S, text) \/ NoUpdate
  PROVE  log' \in [LogId -> Texts] /\ age' \in [LogId -> 0 .. MaxAge]
BY ConstantFacts DEF Update, NoUpdate

\* The last write of an attempt keeps the types.
LEMMA CloseTypes ==
  ASSUME TypeOK, NEW g, NEW text \in Texts, NEW result \in {"ok", "error"},
         Close(g, text, result)
  PROVE  /\ log' \in [LogId -> Texts] /\ age' \in [LogId -> 0 .. MaxAge]
         /\ outcome' \in [LogId -> {"open", "ok", "late", "error"}]
         /\ faults' \subseteq LogId
<1>1. log \in [LogId -> Texts] /\ age \in [LogId -> 0 .. MaxAge] BY DEF TypeOK, Texts
<1>2. Update({id[g]}, text) \/ NoUpdate BY DEF Close
<1>3. log' \in [LogId -> Texts] /\ age' \in [LogId -> 0 .. MaxAge]
  BY <1>1, <1>2, UpdateTypes
<1>4. outcome' \in [LogId -> {"open", "ok", "late", "error"}]
  BY DEF Close, Result, TypeOK
<1>5. faults' \subseteq LogId BY DEF Close, OwnRows, TypeOK
<1> QED BY <1>3, <1>4, <1>5

\* A call that returns or falls back keeps its variables in range.
LEMMA LeaveTypes ==
  ASSUME TypeOK, NEW g \in Call, Return(g) \/ FallBack(g)
  PROVE  /\ pc' \in [Call -> {"idle", "selecting"} \cup Stages]
         /\ id' \in [Call -> 0 .. MaxLogs]
         /\ timeout' \in [Call -> Timeouts \cup {0}]
         /\ left' \in [Call -> Nat]
         /\ canceled' \in [Call -> BOOLEAN]
<1> USE ConstantFacts DEF TypeOK
<1>1. CASE Return(g)
  <2>1. pc' \in [Call -> {"idle", "selecting"} \cup Stages] BY <1>1 DEF Return
  <2>2. id' \in [Call -> 0 .. MaxLogs] BY <1>1 DEF Return
  <2>3. timeout' \in [Call -> Timeouts \cup {0}] BY <1>1 DEF Return
  <2>4. left' \in [Call -> Nat] /\ canceled' \in [Call -> BOOLEAN] BY <1>1 DEF Return
  <2> QED BY <2>1, <2>2, <2>3, <2>4
<1>2. CASE FallBack(g)
  <2>1. pc' \in [Call -> {"idle", "selecting"} \cup Stages] BY <1>2 DEF FallBack
  <2>2. id' \in [Call -> 0 .. MaxLogs] BY <1>2 DEF FallBack
  <2> QED BY <1>2, <2>1, <2>2 DEF FallBack, callVars
<1> QED BY <1>1, <1>2

\* The initial states are well typed.
LEMMA InitTypeOK == Init => TypeOK
BY ConstantFacts DEF Init, TypeOK

\* Every step keeps the types.
LEMMA NextTypeOK == TypeOK /\ [Next]_vars => TypeOK'
<1> SUFFICES ASSUME TypeOK, [Next]_vars PROVE TypeOK'
  OBVIOUS
<1> USE ConstantFacts
<1>0. log \in [LogId -> Texts] /\ age \in [LogId -> 0 .. MaxAge] BY DEF TypeOK, Texts
<1>1. ASSUME NEW g \in Call, Start(g) PROVE TypeOK'
  BY <1>1 DEF Start, TypeOK
<1>2. ASSUME NEW g \in Call, NoLease(g) PROVE TypeOK'
  BY <1>2, LeaveTypes DEF NoLease, TypeOK
<1>3. ASSUME NEW g \in Call, Create(g) PROVE TypeOK'
  <2>1. pc' \in [Call -> {"idle", "selecting"} \cup Stages]
    BY <1>3 DEF Create, TypeOK, Stages
  <2>2. CASE UNCHANGED <<lastId, id, log, age>>
    BY <1>3, <2>1, <2>2 DEF Create, TypeOK, callVars
  <2>3. CASE /\ lastId < MaxLogs
             /\ lastId' = lastId + 1
             /\ id' = [id EXCEPT ![g] = lastId + 1]
             /\ log' = [log EXCEPT ![lastId + 1] = "running"]
             /\ age' = [age EXCEPT ![lastId + 1] = 0]
    <3>1. lastId' \in 0 .. MaxLogs BY <2>3 DEF TypeOK
    <3>2. id' \in [Call -> 0 .. MaxLogs] BY <2>3 DEF TypeOK
    <3>3. log' \in [LogId -> Texts] BY <1>0, <2>3 DEF Texts, Stages
    <3>4. age' \in [LogId -> 0 .. MaxAge]
      <4>1. 0 \in 0 .. MaxAge OBVIOUS
      <4> QED BY <1>0, <2>3, <4>1, Zenon
    <3> QED BY <1>3, <2>1, <3>1, <3>2, <3>3, <3>4 DEF Create, TypeOK, Texts, callVars
  <2> QED BY <1>3, <2>2, <2>3 DEF Create
<1>4. ASSUME NEW g \in Call, Advance(g) PROVE TypeOK'
  <2>1. After[pc[g]] \in Stages BY <1>4, AfterIsStage DEF Advance
  <2>2. Update({id[g]}, After[pc[g]]) \/ NoUpdate BY <1>4 DEF Advance, UpdateInCtx
  <2>3. log' \in [LogId -> Texts] /\ age' \in [LogId -> 0 .. MaxAge]
    BY <1>0, <2>1, <2>2, UpdateTypes DEF Texts
  <2> QED BY <1>4, <2>1, <2>3 DEF Advance, TypeOK, Texts, callVars
<1>5. ASSUME NEW g \in Call, NEW error, Fail(g, error) \/ GiveUp(g, error) PROVE TypeOK'
  <2>1. Close(g, Text(error), "error") BY <1>5 DEF Fail, GiveUp, FailLog
  <2>2. Text(error) \in Texts BY TextIsFailure DEF Texts
  <2> QED BY <1>5, <2>1, <2>2, CloseTypes, LeaveTypes DEF Fail, GiveUp, TypeOK, Texts
<1>6. ASSUME NEW g \in Call, Succeed(g) PROVE TypeOK'
  <2>1. CASE CtxDone(g)
    BY <1>6, <2>1, LeaveTypes DEF Succeed, NoUpdate, Result, TypeOK
  <2>2. CASE ~CtxDone(g)
    <3>1. Close(g, "success", "ok") BY <1>6, <2>2 DEF Succeed
    <3> QED BY <1>6, <3>1, CloseTypes, LeaveTypes DEF Succeed, TypeOK, Texts
  <2> QED BY <2>1, <2>2
<1>7. CASE Finalize
  <2>1. PICK S : Update(S, "timeout")
    BY <1>7 DEF Finalize
  <2>2. log' \in [LogId -> Texts] /\ age' \in [LogId -> 0 .. MaxAge]
    BY <1>0, <2>1, UpdateTypes DEF Texts, Failures
  <2>3. early' \subseteq LogId BY <1>7 DEF Finalize, OwnRows, TypeOK
  <2> QED BY <1>7, <2>2, <2>3 DEF Finalize, TypeOK, Texts, callVars
<1>8. ASSUME NEW S, Delete(S)
      PROVE  /\ log' \in [LogId -> Texts] /\ age' \in [LogId -> 0 .. MaxAge]
             /\ outcome' \in [LogId -> {"open", "ok", "late", "error"}]
             /\ early' \subseteq LogId
  <2>1. log' \in [LogId -> Texts] BY <1>0, <1>8 DEF Delete, Texts
  <2>2. age' \in [LogId -> 0 .. MaxAge] BY <1>0, <1>8 DEF Delete
  <2>3. outcome' \in [LogId -> {"open", "ok", "late", "error"}]
    BY <1>8 DEF Delete, TypeOK
  <2> QED BY <1>8, <2>1, <2>2, <2>3 DEF Delete, TypeOK
<1>9. CASE Clear BY <1>8, <1>9 DEF Clear, TypeOK, Texts, callVars
<1>10. CASE Crash
  <2>1. PICK old \in SUBSET LogId :
          Delete(old) /\ faults' = (faults \cup OwnRows(Call)) \ old
    BY <1>10 DEF Crash
  <2>2. faults' \subseteq LogId BY <2>1 DEF OwnRows, TypeOK
  <2> QED BY <1>8, <1>10, <2>1, <2>2 DEF Crash, TypeOK, Texts
<1>11. CASE Tick
  <2>1. age' \in [LogId -> 0 .. MaxAge] BY <1>11 DEF Tick, TypeOK
  <2>2. left' \in [Call -> Nat] BY <1>11 DEF Tick, TypeOK
  <2> QED BY <1>11, <2>1, <2>2 DEF Tick, TypeOK
<1>12. ASSUME NEW g \in Call, Disconnect(g) PROVE TypeOK'
  BY <1>12 DEF Disconnect, TypeOK
<1>13. CASE Configure BY <1>13 DEF Configure, TypeOK, callVars
<1>14. CASE UNCHANGED vars BY <1>14 DEF vars, TypeOK
<1> QED
  BY <1>1, <1>2, <1>3, <1>4, <1>5, <1>6, <1>7, <1>9, <1>10, <1>11, <1>12, <1>13, <1>14
  DEF Next, Generate

\* The variables keep their types in every reachable state.
THEOREM TypeCorrect == Spec => []TypeOK
<1>1. Init => TypeOK BY InitTypeOK
<1>2. TypeOK /\ [Next]_vars => TypeOK' BY NextTypeOK
<1> QED BY <1>1, <1>2, PTL DEF Spec
-----------------------------------------------------------------------------
(* The inductive invariant.                                                 *)

\* An attempt with a row is in a stage and alone with the row, whose outcome is
\* open; the ids above lastId have no row.
IdsInvariant ==
  /\ \A g \in Call : id[g] # 0 =>
       /\ pc[g] \in Stages
       /\ id[g] <= lastId
       /\ outcome[id[g]] = "open" /\ id[g] \notin faults
  /\ \A g, h \in Call : id[g] = id[h] /\ id[g] # 0 => g = h
  /\ \A l \in LogId : l > lastId => ~Exists(l)
  /\ \A l \in LogId : ~Exists(l) => outcome[l] = "open" /\ l \notin faults

\* The text of a row without a fault agrees with its outcome; while that is
\* open, or came late, it is a stage or the finalizer's.
TextInvariant ==
  \A l \in LogId : Exists(l) /\ l \notin faults =>
    /\ outcome[l] = "ok" => log[l] = "success"
    /\ outcome[l] = "error" => log[l] \in Failures
    /\ outcome[l] \in {"open", "late"} => log[l] \in Stages \cup {"timeout"}

\* A row that ended under a call that may still write to it ended early.
EndInvariant ==
  \A g \in Call : id[g] # 0 /\ ~CtxDone(g) /\ Exists(id[g])
    => id[g] \in early \/ Active(id[g])

\* The row of a call with time left is at most as old as the call.
AgeInvariant ==
  \A g \in Call : id[g] # 0 /\ left[g] > 0 => age[id[g]] + left[g] <= timeout[g]

\* The deadline of a call is at most its timeout away.
LeftInvariant == \A g \in Call : left[g] <= timeout[g]

IInv ==
  /\ TypeOK /\ IdsInvariant /\ TextInvariant /\ ActiveRowsAreOwned
  /\ EndInvariant /\ AgeInvariant /\ LeftInvariant

\* Stages, failures, "success" and "none" are different texts.
LEMMA DistinctTexts ==
  /\ Stages \cap Failures = {}
  /\ "success" \notin Stages \cup Failures
  /\ "none" \notin Stages \cup Failures
  /\ "timeout" \in Failures /\ "timeout" \notin Stages
  /\ "running" \in Stages
BY DEF Stages, Failures

\* The initial states satisfy the invariant.
LEMMA InitIInv == Init => IInv
<1> SUFFICES ASSUME Init PROVE IInv
  OBVIOUS
<1>1. TypeOK BY InitTypeOK
<1>2. IdsInvariant BY DEF Init, IdsInvariant, Exists
<1>3. TextInvariant BY DEF Init, TextInvariant, Exists
<1>4. ActiveRowsAreOwned BY DEF Init, ActiveRowsAreOwned, Active, Stages
<1>5. EndInvariant /\ AgeInvariant BY DEF Init, EndInvariant, AgeInvariant
<1>6. LeftInvariant
  <2>1. \A g \in Call : left[g] = 0 /\ timeout[g] = 0 BY DEF Init
  <2>2. 0 <= 0 OBVIOUS
  <2> QED BY <2>1, <2>2, Zenon DEF LeftInvariant
<1> QED BY <1>1, <1>2, <1>3, <1>4, <1>5, <1>6 DEF IInv

\* Times are numbers.
LEMMA TimesAreNaturals ==
  ASSUME TypeOK
  PROVE  /\ \A h \in Call : left[h] \in Nat /\ timeout[h] \in Nat
         /\ \A l \in LogId : age[l] \in Nat
<1>1. \A h \in Call : timeout[h] \in Timeouts \cup {0} BY DEF TypeOK
<1>2. \A t \in Timeouts \cup {0} : t \in Nat BY ConstantFacts
<1>3. \A l \in LogId : age[l] \in 0 .. MaxAge BY DEF TypeOK
<1>4. \A n \in 0 .. MaxAge : n \in Nat BY ConstantFacts
<1> QED BY <1>1, <1>2, <1>3, <1>4, Zenon DEF TypeOK

\* What the end of an attempt changes, row by row and call by call.
EndsAttempt(g, text, result) ==
  /\ \A l \in LogId : l # id[g] \/ ~Exists(l) =>
       /\ log'[l] = log[l] /\ outcome'[l] = outcome[l]
       /\ l \in faults' <=> l \in faults
  /\ \A l \in LogId : l # id[g] => age'[l] = age[l]
  /\ \A l \in LogId : l = id[g] /\ Exists(l) =>
       /\ outcome'[l] = result
       /\ log'[l] = log[l] \/ (log'[l] = text /\ result # "late")
       /\ log'[l] # text /\ result # "late" => l \in faults'
  /\ \A h \in Call : h # g =>
       /\ id'[h] = id[h] /\ pc'[h] = pc[h] /\ timeout'[h] = timeout[h]
       /\ left'[h] = left[h] /\ canceled'[h] = canceled[h]
  /\ id'[g] = 0

\* Close, or a late success, does that.
LEMMA EndOfAttempt ==
  ASSUME TypeOK, NEW g \in Call, NEW text, NEW result, Return(g) \/ FallBack(g),
         \/ Close(g, text, result) /\ result # "late"
         \/ NoUpdate /\ Result(g, result) /\ UNCHANGED faults /\ result = "late"
  PROVE  EndsAttempt(g, text, result)
<1> USE DEF EndsAttempt
<1>1. \A h \in Call : h # g =>
        /\ id'[h] = id[h] /\ pc'[h] = pc[h] /\ timeout'[h] = timeout[h]
        /\ left'[h] = left[h] /\ canceled'[h] = canceled[h]
  BY DEF Return, FallBack, callVars, TypeOK
<1>2. id'[g] = 0 BY DEF Return, FallBack, TypeOK
<1>3. Result(g, result) BY DEF Close
<1>4. \A l \in LogId : outcome'[l] = IF l = id[g] /\ Exists(l) THEN result ELSE outcome[l]
  BY <1>3 DEF Result, OwnRows
<1>5. CASE NoUpdate /\ UNCHANGED faults /\ result = "late"
  BY <1>1, <1>2, <1>4, <1>5 DEF NoUpdate
<1>6. CASE Update({id[g]}, text) /\ UNCHANGED faults /\ result # "late"
  BY <1>1, <1>2, <1>4, <1>6 DEF Update
<1>7. CASE NoUpdate /\ faults' = faults \cup OwnRows({g}) /\ result # "late"
  BY <1>1, <1>2, <1>4, <1>7 DEF NoUpdate, OwnRows
<1> QED BY <1>5, <1>6, <1>7 DEF Close

\* The end of an attempt keeps the invariant.
LEMMA EndKeepsInvariant ==
  ASSUME IInv, TypeOK', NEW g \in Call, Return(g) \/ FallBack(g),
         UNCHANGED <<early, lastId>>, NEW text, NEW result,
         \/ Close(g, text, result) /\ text = "success" /\ result = "ok"
         \/ Close(g, text, result) /\ text \in Failures /\ result = "error"
         \/ NoUpdate /\ Result(g, result) /\ UNCHANGED faults /\ result = "late"
  PROVE  IInv'
<1> USE DistinctTexts DEF Exists
<1>0. TypeOK /\ IdsInvariant /\ TextInvariant /\ ActiveRowsAreOwned /\ EndInvariant
      /\ AgeInvariant /\ LeftInvariant
  BY DEF IInv
<1>1. EndsAttempt(g, text, result)
  BY <1>0, EndOfAttempt
<1> USE DEF EndsAttempt
<1>2. \A h \in Call : id'[h] # 0 => h # g /\ id[h] = id'[h] /\ id[h] # id[g] /\ id[h] \in LogId
  BY <1>0, <1>1, ConstantFacts DEF IdsInvariant, TypeOK, LogId
<1>3. \A l \in LogId : ~Exists(l)' => ~Exists(l)
  BY <1>1
<1>4. IdsInvariant'
  BY <1>0, <1>1, <1>2, <1>3 DEF IdsInvariant
<1>5. TextInvariant'
  <2> SUFFICES ASSUME NEW l \in LogId, Exists(l)', l \notin faults'
               PROVE  /\ outcome'[l] = "ok" => log'[l] = "success"
                      /\ outcome'[l] = "error" => log'[l] \in Failures
                      /\ outcome'[l] \in {"open", "late"} => log'[l] \in Stages \cup {"timeout"}
    BY DEF TextInvariant
  <2>1. CASE l # id[g] \/ ~Exists(l) BY <1>0, <1>1, <2>1 DEF TextInvariant
  <2>2. CASE l = id[g] /\ Exists(l) /\ result # "late"
    BY <1>1, <2>2
  <2>3. CASE l = id[g] /\ Exists(l) /\ NoUpdate /\ result = "late" /\ UNCHANGED faults
    <3>1. id[g] # 0 /\ outcome[l] = "open" /\ l \notin faults
      BY <1>0, <2>3, ConstantFacts DEF IdsInvariant, LogId
    <3> QED BY <1>0, <1>1, <2>3, <3>1 DEF TextInvariant, NoUpdate
  <2> QED BY <2>1, <2>2, <2>3
<1>6. ActiveRowsAreOwned'
  <2> SUFFICES ASSUME NEW l \in LogId, Active(l)'
               PROVE  \/ \E h \in Call : id'[h] = l /\ pc'[h] \in Stages
                      \/ l \in faults' \/ outcome'[l] = "late"
    BY DEF ActiveRowsAreOwned
  <2>1. CASE l # id[g] \/ ~Exists(l)
    <3>1. Active(l) /\ l # id[g] BY <1>1, <2>1 DEF Active
    <3> QED BY <1>0, <1>1, <3>1 DEF ActiveRowsAreOwned
  <2>2. CASE l = id[g] /\ Exists(l) BY <1>1, <2>2 DEF Active
  <2> QED BY <2>1, <2>2
<1>7. EndInvariant' BY <1>0, <1>1, <1>2 DEF EndInvariant, CtxDone, Active
<1>8. AgeInvariant' BY <1>0, <1>1, <1>2 DEF AgeInvariant
<1>9. LeftInvariant'
  <2>1. left'[g] <= timeout'[g]
    BY <1>0 DEF LeftInvariant, Return, FallBack, callVars, TypeOK
  <2> QED BY <1>0, <1>1, <2>1 DEF LeftInvariant
<1> QED BY <1>4, <1>5, <1>6, <1>7, <1>8, <1>9 DEF IInv

\* A row that Create adds is the first above lastId, and new.
LEMMA CreateKeepsInvariant ==
  ASSUME IInv, TypeOK', NEW g \in Call, Create(g)
  PROVE  IInv'
<1> USE DistinctTexts, ConstantFacts DEF Exists
<1>0. TypeOK /\ IdsInvariant /\ TextInvariant /\ ActiveRowsAreOwned /\ EndInvariant
      /\ AgeInvariant /\ LeftInvariant
  BY DEF IInv
<1>1. id[g] = 0 BY <1>0 DEF Create, IdsInvariant, Stages
<1>2. LeftInvariant' BY <1>0 DEF Create, LeftInvariant, callVars
<1>3. CASE UNCHANGED <<lastId, id, log, age>>
  <2>1. \A h \in Call : id[h] # 0 => pc'[h] = pc[h]
    BY <1>0, <1>1 DEF Create, TypeOK
  <2>2. IdsInvariant' BY <1>0, <1>3, <2>1 DEF Create, IdsInvariant, callVars
  <2>3. TextInvariant' BY <1>0, <1>3 DEF Create, TextInvariant, callVars
  <2>4. \A h \in Call : pc[h] \in Stages => pc'[h] \in Stages
    BY <1>0 DEF Create, TypeOK
  <2>5. ActiveRowsAreOwned'
    BY <1>0, <1>3, <2>4 DEF Create, ActiveRowsAreOwned, Active
  <2>6. EndInvariant' BY <1>0, <1>3 DEF Create, EndInvariant, CtxDone, Active, callVars
  <2>7. AgeInvariant' BY <1>0, <1>3 DEF Create, AgeInvariant, callVars
  <2> QED BY <1>2, <2>2, <2>3, <2>5, <2>6, <2>7 DEF IInv
<1>4. CASE lastId' = lastId + 1 /\ lastId < MaxLogs
           /\ id' = [id EXCEPT ![g] = lastId + 1]
           /\ log' = [log EXCEPT ![lastId + 1] = "running"]
           /\ age' = [age EXCEPT ![lastId + 1] = 0]
  <2> DEFINE new == lastId + 1
  <2>1. new \in LogId /\ new # 0 /\ ~Exists(new) /\ new > lastId
    BY <1>0, <1>4 DEF IdsInvariant, TypeOK, LogId
  <2>2. outcome[new] = "open" /\ new \notin faults
    BY <1>0, <2>1 DEF IdsInvariant
  <2>3. \A h \in Call : id[h] # new
    BY <1>0, <2>1 DEF IdsInvariant, TypeOK
  <2>4. \A h \in Call : h # g => id'[h] = id[h] /\ pc'[h] = pc[h]
    BY <1>0, <1>4 DEF Create, TypeOK
  <2>5. id'[g] = new /\ pc'[g] \in Stages
    BY <1>0, <1>4 DEF Create, TypeOK
  <2>6. \A l \in LogId : l # new => log'[l] = log[l] /\ age'[l] = age[l]
    BY <1>0, <1>4 DEF TypeOK
  <2>7. log'[new] = "running" /\ age'[new] = 0
    BY <1>0, <1>4, <2>1 DEF TypeOK
  <2>8. UNCHANGED <<outcome, faults, early, timeout, left, canceled>>
    BY DEF Create, callVars
  <2>9. \A h \in Call : id[h] # 0 => id[h] \in LogId
    BY <1>0 DEF TypeOK, LogId
  <2>10. lastId \in Nat /\ lastId' = new /\ \A h \in Call : id[h] \in Nat
    BY <1>0, <1>4 DEF TypeOK
  <2> HIDE DEF new
  <2>11. IdsInvariant'
    <3>1. \A h \in Call : id'[h] # 0 =>
            /\ pc'[h] \in Stages /\ id'[h] <= lastId'
            /\ outcome'[id'[h]] = "open" /\ id'[h] \notin faults'
      <4> SUFFICES ASSUME NEW h \in Call, id'[h] # 0
                   PROVE  /\ pc'[h] \in Stages /\ id'[h] <= lastId'
                          /\ outcome'[id'[h]] = "open" /\ id'[h] \notin faults'
        OBVIOUS
      <4>1. CASE h = g
        <5>1. new <= new BY <2>10 DEF new
        <5> QED BY <2>2, <2>5, <2>8, <2>10, <4>1, <5>1
      <4>2. CASE h # g
        <5>1. id[h] <= lastId BY <1>0, <2>4, <4>2 DEF IdsInvariant
        <5>2. id'[h] <= lastId' BY <2>4, <2>10, <4>2, <5>1 DEF new
        <5> QED BY <1>0, <2>4, <2>8, <4>2, <5>2 DEF IdsInvariant
      <4> QED BY <4>1, <4>2
    <3>2. \A h, k \in Call : id'[h] = id'[k] /\ id'[h] # 0 => h = k
      BY <1>0, <2>3, <2>4, <2>5 DEF IdsInvariant
    <3>3. \A l \in LogId : l > lastId' => ~Exists(l)'
      <4> SUFFICES ASSUME NEW l \in LogId, l > lastId' PROVE ~Exists(l)'
        OBVIOUS
      <4>1. l > lastId /\ l # new BY <2>10 DEF LogId, new
      <4> QED BY <1>0, <2>6, <4>1 DEF IdsInvariant
    <3>4. \A l \in LogId : ~Exists(l)' => outcome'[l] = "open" /\ l \notin faults'
      BY <1>0, <2>2, <2>6, <2>8 DEF IdsInvariant
    <3> QED BY <3>1, <3>2, <3>3, <3>4 DEF IdsInvariant
  <2>12. TextInvariant'
    BY <1>0, <2>2, <2>6, <2>7, <2>8 DEF TextInvariant
  <2>13. ActiveRowsAreOwned'
    <3> SUFFICES ASSUME NEW l \in LogId, Active(l)'
                 PROVE  \/ \E h \in Call : id'[h] = l /\ pc'[h] \in Stages
                        \/ l \in faults' \/ outcome'[l] = "late"
      BY DEF ActiveRowsAreOwned
    <3>1. CASE l = new BY <2>5, <3>1
    <3>2. CASE l # new
      <4>1. Active(l) BY <2>6, <3>2 DEF Active
      <4>2. \A h \in Call : id[h] = l => h # g BY <1>1 DEF LogId
      <4> QED BY <1>0, <2>4, <2>8, <4>1, <4>2 DEF ActiveRowsAreOwned
    <3> QED BY <3>1, <3>2
  <2>14. EndInvariant'
    BY <1>0, <2>3, <2>4, <2>5, <2>6, <2>7, <2>8, <2>9 DEF EndInvariant, CtxDone, Active
  <2>15. AgeInvariant'
    <3> SUFFICES ASSUME NEW h \in Call, id'[h] # 0, left'[h] > 0
                 PROVE  age'[id'[h]] + left'[h] <= timeout'[h]
      BY DEF AgeInvariant
    <3>1. CASE h = g
      <4>1. left[h] <= timeout[h] /\ left[h] \in Nat
        BY <1>0 DEF LeftInvariant, TypeOK
      <4> QED BY <2>5, <2>7, <2>8, <3>1, <4>1
    <3>2. CASE h # g
      BY <1>0, <2>3, <2>4, <2>6, <2>8, <2>9, <3>2 DEF AgeInvariant
    <3> QED BY <3>1, <3>2
  <2> QED BY <1>2, <2>11, <2>12, <2>13, <2>14, <2>15 DEF IInv
<1> QED BY <1>3, <1>4 DEF Create

\* A row that moves on was not ended, or it ended early.
LEMMA AdvanceKeepsInvariant ==
  ASSUME IInv, TypeOK', NEW g \in Call, Advance(g)
  PROVE  IInv'
<1> USE DistinctTexts, ConstantFacts DEF Exists
<1>0. TypeOK /\ IdsInvariant /\ TextInvariant /\ ActiveRowsAreOwned /\ EndInvariant
      /\ AgeInvariant /\ LeftInvariant
  BY DEF IInv
<1>1. PICK stage \in Stages :
        /\ pc' = [pc EXCEPT ![g] = stage]
        /\ NoUpdate \/ (~CtxDone(g) /\ Update({id[g]}, stage))
  BY AfterIsStage DEF Advance, UpdateInCtx
<1>2. UNCHANGED <<lastId, id, outcome, faults, early, timeout, left, canceled>>
  BY DEF Advance, callVars
<1>3. \A h \in Call : pc[h] \in Stages => pc'[h] \in Stages
  BY <1>0, <1>1 DEF TypeOK
<1>4. /\ \A l \in LogId : l # id[g] \/ ~Exists(l) => log'[l] = log[l]
      /\ \A l \in LogId : l # id[g] => age'[l] = age[l]
      /\ \A l \in LogId : l = id[g] =>
           \/ log'[l] = log[l] /\ age'[l] = age[l]
           \/ age'[l] = 0 /\ (Exists(l) => log'[l] \in Stages)
  BY <1>1 DEF Update, NoUpdate
<1>5. \A l \in LogId : Exists(l)' <=> Exists(l)
  BY <1>4
<1>6. IdsInvariant' BY <1>0, <1>2, <1>3, <1>5 DEF IdsInvariant
<1>7. TextInvariant'
  <2> SUFFICES ASSUME NEW l \in LogId, Exists(l)', l \notin faults'
               PROVE  /\ outcome'[l] = "ok" => log'[l] = "success"
                      /\ outcome'[l] = "error" => log'[l] \in Failures
                      /\ outcome'[l] \in {"open", "late"} => log'[l] \in Stages \cup {"timeout"}
    BY DEF TextInvariant
  <2>1. CASE l # id[g] \/ log'[l] = log[l]
    BY <1>0, <1>2, <1>4, <1>5, <2>1 DEF TextInvariant
  <2>2. CASE l = id[g] /\ log'[l] # log[l]
    <3>1. log'[l] \in Stages BY <1>4, <1>5, <2>2
    <3>2. outcome'[l] = "open"
      BY <1>0, <1>2, <2>2 DEF IdsInvariant, LogId
    <3> QED BY <3>1, <3>2
  <2> QED BY <2>1, <2>2
<1>8. ActiveRowsAreOwned'
  <2>1. pc'[g] \in Stages BY <1>0, <1>1 DEF TypeOK
  <2> QED BY <1>0, <1>2, <1>3, <1>4, <2>1 DEF ActiveRowsAreOwned, Active
<1>9. EndInvariant'
  <2> SUFFICES ASSUME NEW h \in Call, id'[h] # 0, ~(canceled'[h] \/ left'[h] = 0),
                      log'[id'[h]] # "none"
               PROVE  id'[h] \in early' \/ log'[id'[h]] \in Stages
    BY DEF EndInvariant, Active, CtxDone
  <2>1. id[h] \in LogId /\ Exists(id[h]) /\ ~CtxDone(h)
    BY <1>0, <1>2, <1>5 DEF TypeOK, LogId, CtxDone
  <2>2. id[h] \in early \/ log[id[h]] \in Stages
    BY <1>0, <1>2, <2>1 DEF EndInvariant, Active
  <2> QED BY <1>2, <1>4, <2>1, <2>2
<1>10. AgeInvariant'
  <2> SUFFICES ASSUME NEW h \in Call, id'[h] # 0, left'[h] > 0
               PROVE  age'[id'[h]] + left'[h] <= timeout'[h]
    BY DEF AgeInvariant
  <2>1. id[h] \in LogId /\ left[h] \in Nat /\ left[h] <= timeout[h]
    BY <1>0, <1>2 DEF TypeOK, LogId, LeftInvariant
  <2>2. age'[id[h]] = age[id[h]] \/ age'[id[h]] = 0 BY <1>4, <2>1
  <2> QED BY <1>0, <1>2, <2>1, <2>2 DEF AgeInvariant
<1>11. LeftInvariant' BY <1>0, <1>2 DEF LeftInvariant
<1> QED BY <1>6, <1>7, <1>8, <1>9, <1>10, <1>11 DEF IInv

\* The finalizer ends active rows; those of live calls it ends early.
LEMMA FinalizeKeepsInvariant ==
  ASSUME IInv, TypeOK', Finalize
  PROVE  IInv'
<1> USE DistinctTexts, ConstantFacts DEF Exists
<1>0. TypeOK /\ IdsInvariant /\ TextInvariant /\ ActiveRowsAreOwned /\ EndInvariant
      /\ AgeInvariant /\ LeftInvariant
  BY DEF IInv
<1>1. PICK stale \in SUBSET LogId :
        /\ \A l \in stale : Active(l)
        /\ Update(stale, "timeout")
        /\ early' = early \cup (stale \cap OwnRows({g \in Call : ~CtxDone(g)}))
  <2>1. PICK after \in {config, Default} :
          LET stale == {l \in LogId : Stale(l, after)}
          IN  /\ Update(stale, "timeout")
              /\ early' = early \cup (stale \cap OwnRows({g \in Call : ~CtxDone(g)}))
    BY DEF Finalize
  <2>2. \A l \in {l \in LogId : Stale(l, after)} : Active(l) BY DEF Stale
  <2> QED BY <2>1, <2>2
<1>2. UNCHANGED <<lastId, pc, id, outcome, faults, timeout, left, canceled>>
  BY DEF Finalize, callVars
<1>3. \A l \in LogId : IF l \in stale THEN log'[l] = "timeout" /\ age'[l] = 0
                                      ELSE log'[l] = log[l] /\ age'[l] = age[l]
  BY <1>1 DEF Update, Active
<1>4. \A l \in LogId : Exists(l)' <=> Exists(l)
  BY <1>1, <1>3 DEF Active
<1>5. \A h \in Call : id[h] # 0 => id[h] \in LogId BY <1>0 DEF TypeOK, LogId
<1>6. IdsInvariant' BY <1>0, <1>2, <1>4 DEF IdsInvariant
<1>7. TextInvariant'
  BY <1>0, <1>1, <1>2, <1>3, <1>4 DEF TextInvariant, Active
<1>8. ActiveRowsAreOwned'
  BY <1>0, <1>2, <1>3 DEF ActiveRowsAreOwned, Active
<1>9. EndInvariant'
  <2> SUFFICES ASSUME NEW h \in Call, id'[h] # 0, ~(canceled'[h] \/ left'[h] = 0),
                      log'[id'[h]] # "none"
               PROVE  id'[h] \in early' \/ log'[id'[h]] \in Stages
    BY DEF EndInvariant, Active, CtxDone
  <2>1. id[h] \in LogId /\ Exists(id[h]) /\ ~CtxDone(h)
    BY <1>2, <1>4, <1>5 DEF CtxDone
  <2>2. CASE id[h] \in stale
    <3>1. id[h] \in OwnRows({g \in Call : ~CtxDone(g)}) BY <2>1 DEF OwnRows
    <3> QED BY <1>1, <1>2, <2>2, <3>1
  <2>3. CASE id[h] \notin stale
    BY <1>0, <1>1, <1>2, <1>3, <2>1, <2>3 DEF EndInvariant, Active
  <2> QED BY <2>2, <2>3
<1>10. AgeInvariant'
  <2> SUFFICES ASSUME NEW h \in Call, id'[h] # 0, left'[h] > 0
               PROVE  age'[id'[h]] + left'[h] <= timeout'[h]
    BY DEF AgeInvariant
  <2>1. id[h] \in LogId /\ left[h] \in Nat /\ left[h] <= timeout[h]
    BY <1>0, <1>2 DEF TypeOK, LogId, LeftInvariant
  <2>2. age'[id[h]] = age[id[h]] \/ age'[id[h]] = 0 BY <1>3, <2>1
  <2> QED BY <1>0, <1>2, <2>1, <2>2 DEF AgeInvariant
<1>11. LeftInvariant' BY <1>0, <1>2 DEF LeftInvariant
<1> QED BY <1>6, <1>7, <1>8, <1>9, <1>10, <1>11 DEF IInv

\* Deleting rows keeps the invariant, whoever still has their ids.
LEMMA DeleteKeepsInvariant ==
  ASSUME IInv, TypeOK', Clear \/ Crash
  PROVE  IInv'
<1> USE DistinctTexts, ConstantFacts DEF Exists
<1>0. TypeOK /\ IdsInvariant /\ TextInvariant /\ ActiveRowsAreOwned /\ EndInvariant
      /\ AgeInvariant /\ LeftInvariant
  BY DEF IInv
<1>1. ASSUME NEW S, Delete(S)
      PROVE  /\ \A l \in LogId : l \in S =>
                  log'[l] = "none" /\ age'[l] = 0 /\ outcome'[l] = "open"
             /\ \A l \in LogId : l \notin S =>
                  /\ log'[l] = log[l] /\ age'[l] = age[l] /\ outcome'[l] = outcome[l]
                  /\ l \in early' <=> l \in early
  BY <1>1 DEF Delete
<1>2. CASE Clear
  <2>1. /\ \A l \in LogId : log'[l] = "none" /\ age'[l] = 0 /\ outcome'[l] = "open"
        /\ faults' = {} /\ UNCHANGED <<lastId, pc, id, timeout, left, canceled>>
    BY <1>1, <1>2 DEF Clear, callVars
  <2>2. \A h \in Call : id[h] # 0 => id[h] \in LogId BY <1>0 DEF TypeOK, LogId
  <2>3. IdsInvariant' BY <1>0, <2>1, <2>2 DEF IdsInvariant
  <2>4. TextInvariant' /\ ActiveRowsAreOwned'
    BY <2>1 DEF TextInvariant, ActiveRowsAreOwned, Active
  <2>5. EndInvariant' BY <2>1, <2>2 DEF EndInvariant
  <2>6. AgeInvariant'
    <3> SUFFICES ASSUME NEW h \in Call, id'[h] # 0, left'[h] > 0
                 PROVE  age'[id'[h]] + left'[h] <= timeout'[h]
      BY DEF AgeInvariant
    <3>1. left[h] \in Nat /\ left[h] <= timeout[h] BY <1>0 DEF TypeOK, LeftInvariant
    <3> QED BY <2>1, <2>2, <3>1
  <2>7. LeftInvariant' BY <1>0, <2>1 DEF LeftInvariant
  <2> QED BY <2>3, <2>4, <2>5, <2>6, <2>7 DEF IInv
<1>3. CASE Crash
  <2>1. PICK old \in SUBSET LogId :
          Delete(old) /\ faults' = (faults \cup OwnRows(Call)) \ old
    BY <1>3 DEF Crash
  <2>2. \A h \in Call : id'[h] = 0 /\ left'[h] = 0 /\ timeout'[h] = 0
    BY <1>3 DEF Crash
  <2>3. /\ \A l \in LogId : l \in old =>
             log'[l] = "none" /\ outcome'[l] = "open" /\ l \notin faults'
        /\ \A l \in LogId : l \notin old =>
             /\ log'[l] = log[l] /\ outcome'[l] = outcome[l]
             /\ l \in faults' <=> l \in faults \/ l \in OwnRows(Call)
    BY <1>1, <2>1
  <2>4. lastId' = lastId BY <1>3 DEF Crash
  <2>5. IdsInvariant'
    BY <1>0, <2>2, <2>3, <2>4 DEF IdsInvariant, OwnRows
  <2>6. TextInvariant' BY <1>0, <2>3 DEF TextInvariant
  <2>7. ActiveRowsAreOwned'
    BY <1>0, <2>3 DEF ActiveRowsAreOwned, Active, OwnRows
  <2>8. EndInvariant' /\ AgeInvariant' BY <2>2 DEF EndInvariant, AgeInvariant
  <2>9. LeftInvariant'
    <3>1. 0 <= 0 OBVIOUS
    <3> QED BY <2>2, <3>1, Zenon DEF LeftInvariant
  <2> QED BY <2>5, <2>6, <2>7, <2>8, <2>9 DEF IInv
<1> QED BY <1>2, <1>3

\* Steps that write no row.
LEMMA QuietKeepsInvariant ==
  ASSUME IInv, TypeOK',
         \/ \E g \in Call : Start(g) \/ NoLease(g) \/ Disconnect(g)
         \/ Configure \/ Tick \/ UNCHANGED vars
  PROVE  IInv'
<1> USE ConstantFacts DEF Exists
<1>0. TypeOK /\ IdsInvariant /\ TextInvariant /\ ActiveRowsAreOwned /\ EndInvariant
      /\ AgeInvariant /\ LeftInvariant
  BY DEF IInv
<1>1. UNCHANGED <<log, lastId, outcome, faults, early>>
  BY DEF Start, NoLease, Disconnect, Configure, Tick, callVars, vars
<1>2. ASSUME UNCHANGED <<pc, id>> \/ \E g \in Call : Start(g) \/ NoLease(g)
      PROVE  /\ \A h \in Call : id'[h] = id[h]
             /\ \A h \in Call : id[h] # 0 => pc'[h] = pc[h]
  <2>1. ASSUME NEW g \in Call, Start(g) \/ NoLease(g)
        PROVE  /\ \A h \in Call : id'[h] = id[h]
               /\ \A h \in Call : id[h] # 0 => pc'[h] = pc[h]
    <3>1. id[g] = 0 BY <1>0, <2>1 DEF Start, NoLease, IdsInvariant, Stages
    <3> QED BY <1>0, <2>1, <3>1 DEF Start, NoLease, Return, TypeOK
  <2> QED BY <1>2, <2>1
<1>3. /\ \A h \in Call : id'[h] = id[h]
      /\ \A h \in Call : id[h] # 0 => pc'[h] = pc[h]
  BY <1>2 DEF Disconnect, Configure, Tick, callVars, vars
<1>4. IdsInvariant' BY <1>0, <1>1, <1>3 DEF IdsInvariant
<1>5. TextInvariant' BY <1>0, <1>1 DEF TextInvariant
<1>6. ActiveRowsAreOwned'
  <2>1. \A h \in Call : \A l \in LogId : id[h] = l => id[h] # 0 BY DEF LogId
  <2> QED BY <1>0, <1>1, <1>3, <2>1 DEF ActiveRowsAreOwned, Active
<1>7. \A h \in Call : id[h] # 0 /\ ~CtxDone(h)' => ~CtxDone(h)
  <2>1. ASSUME NEW g \in Call, Start(g) \/ NoLease(g), NEW h \in Call, id[h] # 0
        PROVE  canceled'[h] = canceled[h] /\ left'[h] = left[h]
    <3>1. h # g BY <1>0, <2>1 DEF Start, NoLease, IdsInvariant, Stages
    <3> QED BY <1>0, <2>1, <3>1 DEF Start, NoLease, Return, TypeOK
  <2>2. ASSUME NEW g \in Call, Disconnect(g), NEW h \in Call
        PROVE  (canceled[h] => canceled'[h]) /\ left'[h] = left[h]
    BY <1>0, <2>2 DEF Disconnect, TypeOK
  <2>3. ASSUME Tick, NEW h \in Call
        PROVE  canceled'[h] = canceled[h] /\ (left[h] = 0 => left'[h] = 0)
    BY <1>0, <2>3 DEF Tick, TypeOK
  <2>4. ASSUME Configure \/ UNCHANGED vars
        PROVE  UNCHANGED <<canceled, left>>
    BY <2>4 DEF Configure, vars, callVars
  <2> QED BY <2>1, <2>2, <2>3, <2>4 DEF CtxDone
<1>8. EndInvariant' BY <1>0, <1>1, <1>3, <1>7 DEF EndInvariant, Active
<1>9. ASSUME ~Tick, NEW h \in Call
      PROVE  /\ age' = age
             /\ id[h] # 0 => left'[h] = left[h] /\ timeout'[h] = timeout[h]
             /\ left'[h] <= timeout'[h]
  <2>1. ASSUME NEW g \in Call, Start(g)
        PROVE  /\ age' = age
               /\ id[h] # 0 => left'[h] = left[h] /\ timeout'[h] = timeout[h]
               /\ left'[h] <= timeout'[h]
    <3>1. PICK t \in {config, Default} :
            timeout' = [timeout EXCEPT ![g] = t] /\ left' = [left EXCEPT ![g] = t]
      BY <2>1 DEF Start
    <3>2. t \in Nat BY <1>0 DEF TypeOK
    <3>3. CASE h = g
      <4>1. id[h] = 0 BY <1>0, <2>1, <3>3 DEF Start, IdsInvariant, Stages
      <4>2. left'[h] = t /\ timeout'[h] = t BY <1>0, <3>1, <3>3 DEF TypeOK
      <4> QED BY <2>1, <3>2, <4>1, <4>2 DEF Start
    <3>4. CASE h # g
      BY <1>0, <2>1, <3>1, <3>4 DEF Start, TypeOK, LeftInvariant
    <3> QED BY <3>3, <3>4
  <2>2. ASSUME NEW g \in Call, NoLease(g)
        PROVE  /\ age' = age
               /\ id[h] # 0 => left'[h] = left[h] /\ timeout'[h] = timeout[h]
               /\ left'[h] <= timeout'[h]
    <3>1. id[g] = 0 BY <1>0, <2>2 DEF NoLease, IdsInvariant, Stages
    <3> QED BY <1>0, <2>2, <3>1 DEF NoLease, Return, TypeOK, LeftInvariant
  <2>3. CASE UNCHANGED <<age, left, timeout>> BY <1>0, <2>3 DEF LeftInvariant
  <2> QED BY <1>9, <2>1, <2>2, <2>3 DEF Disconnect, Configure, vars, callVars
<1>10. AgeInvariant'
  <2> SUFFICES ASSUME NEW h \in Call, id'[h] # 0, left'[h] > 0
               PROVE  age'[id'[h]] + left'[h] <= timeout'[h]
    BY DEF AgeInvariant
  <2>1. id'[h] = id[h] /\ id[h] \in LogId BY <1>0, <1>3 DEF TypeOK, LogId
  <2>2. CASE Tick
    <3>1. timeout'[h] = timeout[h] /\ left'[h] = left[h] - 1 /\ left[h] > 0
      BY <1>0, <2>2 DEF Tick, TypeOK
    <3>2. age[id[h]] \in Nat /\ left[h] \in Nat /\ timeout[h] \in Nat
      BY <1>0, <2>1, TimesAreNaturals
    <3>3. age'[id[h]] = age[id[h]] \/ age'[id[h]] = age[id[h]] + 1
      BY <2>1, <2>2 DEF Tick
    <3>4. age[id[h]] + left[h] <= timeout[h] BY <1>0, <2>1, <3>1 DEF AgeInvariant
    <3> QED BY <2>1, <3>1, <3>2, <3>3, <3>4
  <2>3. CASE ~Tick BY <1>0, <1>9, <2>1, <2>3 DEF AgeInvariant
  <2> QED BY <2>2, <2>3
<1>11. LeftInvariant'
  <2>1. ASSUME Tick, NEW h \in Call PROVE left'[h] <= timeout'[h]
    <3>1. left[h] \in Nat /\ timeout[h] \in Nat /\ left[h] <= timeout[h]
      BY <1>0, TimesAreNaturals DEF LeftInvariant
    <3> QED BY <2>1, <3>1 DEF Tick
  <2>2. CASE ~Tick BY <1>9, <2>2 DEF LeftInvariant
  <2> QED BY <2>1, <2>2 DEF LeftInvariant
<1> QED BY <1>4, <1>5, <1>6, <1>8, <1>10, <1>11 DEF IInv

\* Every step keeps the invariant.
LEMMA NextIInv == IInv /\ [Next]_vars => IInv'
<1> SUFFICES ASSUME IInv, [Next]_vars PROVE IInv'
  OBVIOUS
<1>0. TypeOK' BY NextTypeOK DEF IInv
<1>1. ASSUME NEW g \in Call, NEW error, Fail(g, error) \/ GiveUp(g, error) PROVE IInv'
  <2>1. Close(g, Text(error), "error") /\ Text(error) \in Failures
    BY <1>1, TextIsFailure DEF Fail, GiveUp, FailLog
  <2>2. (Return(g) \/ FallBack(g)) /\ UNCHANGED <<early, lastId>>
    BY <1>1 DEF Fail, GiveUp
  <2> QED BY <1>0, <2>1, <2>2, EndKeepsInvariant
<1>2. ASSUME NEW g \in Call, Succeed(g) PROVE IInv'
  <2>1. Return(g) /\ UNCHANGED <<early, lastId>> BY <1>2 DEF Succeed
  <2>2. \/ Close(g, "success", "ok")
        \/ NoUpdate /\ Result(g, "late") /\ UNCHANGED faults
    BY <1>2 DEF Succeed
  <2> QED BY <1>0, <2>1, <2>2, EndKeepsInvariant
<1> QED
  BY <1>0, <1>1, <1>2, CreateKeepsInvariant, AdvanceKeepsInvariant,
     FinalizeKeepsInvariant, DeleteKeepsInvariant, QuietKeepsInvariant
  DEF Next, Generate

\* The invariant holds in every reachable state.
LEMMA InductiveInvariant == Spec => []IInv
BY InitIInv, NextIInv, PTL DEF Spec
-----------------------------------------------------------------------------
\* An active row has an owner, a fault or a late success: no path of a
\* generation, however it interleaves with the finalizer, forgets one.
THEOREM ActiveRowsHaveOwners == Spec => []ActiveRowsAreOwned
<1>1. IInv => ActiveRowsAreOwned BY DEF IInv
<1> QED BY <1>1, InductiveInvariant, PTL

\* At the end a row says what the client was told.
THEOREM RowsTellOutcomes == Spec => []RowTellsOutcome
<1>1. IInv => RowTellsOutcome
  BY DistinctTexts DEF IInv, TypeOK, TextInvariant, RowTellsOutcome
<1> QED BY <1>1, InductiveInvariant, PTL

\* The finalizer's cutoff spares every generation that may still finish, for
\* any timeouts and any grace.
THEOREM LiveRowsAreFresh == Spec => []NoLiveRowIsStale
<1>1. IInv => NoLiveRowIsStale
  <2> SUFFICES ASSUME IInv, NEW g \in Call, NEW after \in Timeouts,
                      id[g] # 0, ~CtxDone(g), timeout[g] <= after
               PROVE  ~(age[id[g]] > after + Grace)
    BY DEF NoLiveRowIsStale, Stale
  <2>1. left[g] \in Nat /\ left[g] > 0 /\ timeout[g] \in Nat /\ after \in Nat
        /\ age[id[g]] \in Nat
    <3>1. TypeOK /\ id[g] \in LogId
      <4>1. TypeOK
        BY DEF IInv
      <4>2. id[g] \in 0 .. MaxLogs
        BY <4>1 DEF TypeOK
      <4>3. id[g] \in LogId
        BY <4>2, ConstantFacts DEF LogId
      <4> QED BY <4>1, <4>3
    <3> QED BY <3>1, TimesAreNaturals, ConstantFacts DEF CtxDone
  <2>2. age[id[g]] + left[g] <= timeout[g] BY <2>1 DEF IInv, AgeInvariant
  <2> QED BY <2>1, <2>2, ConstantFacts
<1> QED BY <1>1, InductiveInvariant, PTL

\* A row that ended stays ended, unless the finalizer ended it under a call
\* that could still write.
THEOREM EndedRowsStayEnded == Spec => NoRowIsRevived
<1> DEFINE Revive == \A l \in LogId :
                       log[l] \in Failures \cup {"success"} /\ log'[l] \in Stages => l \in early
<1>1. IInv /\ [Next]_vars => [Revive]_vars
  <2> SUFFICES ASSUME IInv, Next, NEW l \in LogId,
                      log[l] \in Failures \cup {"success"}, log'[l] \in Stages
               PROVE  l \in early
    BY DEF vars
  <2> USE DistinctTexts
  <2>1. ASSUME NEW g \in Call, Advance(g) PROVE l \in early
    <3>1. ~CtxDone(g) /\ l = id[g] /\ Exists(l)
      BY <2>1 DEF Advance, UpdateInCtx, Update, NoUpdate, Exists
    <3>2. id[g] # 0 BY <3>1, ConstantFacts DEF LogId
    <3> QED BY <3>1, <3>2 DEF IInv, EndInvariant, Active
  <2>2. ASSUME NEW g \in Call, Create(g) PROVE l \in early
    <3>1. lastId' = lastId + 1 /\ log' = [log EXCEPT ![lastId + 1] = "running"]
      BY <2>2 DEF Create
    <3>2. l = lastId + 1 /\ lastId \in Nat
      BY <3>1, ConstantFacts DEF IInv, TypeOK
    <3>3. l > lastId BY <3>2
    <3> QED BY <3>3 DEF IInv, IdsInvariant, Exists
  <2>3. ASSUME NEW g, NEW text, NEW result, Close(g, text, result), text \notin Stages
        PROVE  l \in early
    BY <2>3 DEF Close, Update, NoUpdate
  <2>4. ASSUME NEW g \in Call, NEW error, Fail(g, error) \/ GiveUp(g, error)
        PROVE  l \in early
    BY <2>3, <2>4, TextIsFailure DEF Fail, GiveUp, FailLog
  <2>5. ASSUME NEW g \in Call, Succeed(g) PROVE l \in early
    BY <2>3, <2>5 DEF Succeed, NoUpdate
  <2>6. CASE Finalize
    <3>1. PICK S : Update(S, "timeout") BY <2>6 DEF Finalize
    <3> QED BY <3>1 DEF Update
  <2>7. CASE Clear \/ Crash BY <2>7 DEF Clear, Crash, Delete
  <2>8. ASSUME log' = log PROVE l \in early BY <2>8
  <2> QED
    BY <2>1, <2>2, <2>4, <2>5, <2>6, <2>7, <2>8
    DEF Next, Generate, Start, NoLease, Disconnect, Configure, Tick
<1> QED BY <1>1, InductiveInvariant, PTL DEF Spec, NoRowIsRevived
=============================================================================
