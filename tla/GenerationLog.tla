---------------------------- MODULE GenerationLog ----------------------------
(***************************************************************************)
(* The request log of a generation: the rows that GenerateWithProgress     *)
(* (internal/service/generation.go) creates, moves through its stages and  *)
(* closes with failLog or as a success, and the two other writers of the   *)
(* table: the finalizer that every listing of the logs runs first          *)
(* (finalizeStaleActiveLogs of internal/httpapi/handlers.go) and the       *)
(* administrator who clears it.  AccountPool models the rest of a          *)
(* generation, the account it works with.                                  *)
(*                                                                         *)
(* No write is guarded by the row's status, every write's error is         *)
(* ignored, and all of them but failLog's use the call's own context.      *)
(*                                                                         *)
(* status_code follows from status_text (102 for a stage, 200, 499, 500,   *)
(* 504), so a row is its text.  Time is kept as in AccountPool: left[g] is *)
(* what remains of g's deadline, age[l] the time since l's updated_at, as  *)
(* long as l is in a stage.  Of a row that is deleted nothing is kept.     *)
(***************************************************************************)
EXTENDS Naturals

CONSTANTS
  Call,        \* concurrent generations (each may run again)
  MaxLogs,     \* bound of the model: rows ever created
  Timeouts,    \* values of generation_config.timeout
  Default,     \* Config.GenerationTimeout, used when the row cannot be read
  Grace,       \* the 2 minutes of finalizeStaleActiveLogs
  MaxAge       \* bound of the model: ages saturate here

ASSUME LogAssumption ==
  /\ MaxLogs \in Nat /\ Grace \in Nat /\ MaxAge \in Nat
  /\ Timeouts \subseteq Nat \ {0}
  /\ Default \in Timeouts
  /\ \A t \in Timeouts : t + Grace < MaxAge

VARIABLES
  log,        \* request_logs: id -> status_text, "none" without a row
  age,        \* time since updated_at
  lastId,     \* the last id given out; ids are not used again
  config,     \* generation_config.timeout
  pc,         \* where each call stands
  id,         \* logID of its attempt, 0 when the insert failed
  timeout,    \* runtime.Timeout
  left,       \* time left before its context's deadline
  canceled,   \* its client is gone
  outcome,    \* history: what the attempt of a row came to
  faults,     \* history: rows whose outcome the database refused, or a crash cut off
  early       \* history: rows marked stale although their call could go on

callVars == <<timeout, left, canceled>>
vars == <<log, age, lastId, config, pc, id, timeout, left, canceled, outcome,
          faults, early>>

LogId == 1 .. MaxLogs

\* status_code 102, in the order in which an attempt goes through them.
Stages == {"running", "streaming", "generating", "processing"}
After == [running |-> "streaming", streaming |-> "generating",
          generating |-> "processing"]

Failures == {"failed", "canceled", "timeout"}

TypeOK ==
  /\ log \in [LogId -> {"none", "success"} \cup Stages \cup Failures]
  /\ age \in [LogId -> 0 .. MaxAge]
  /\ lastId \in 0 .. MaxLogs
  /\ config \in Timeouts
  /\ pc \in [Call -> {"idle", "selecting"} \cup Stages]
  /\ id \in [Call -> 0 .. MaxLogs]
  /\ timeout \in [Call -> Timeouts \cup {0}]
  /\ left \in [Call -> Nat]
  /\ canceled \in [Call -> BOOLEAN]
  /\ outcome \in [LogId -> {"open", "ok", "late", "error"}]
  /\ faults \subseteq LogId
  /\ early \subseteq LogId

Init ==
  /\ log = [l \in LogId |-> "none"]
  /\ age = [l \in LogId |-> 0]
  /\ lastId = 0
  /\ config \in Timeouts
  /\ pc = [g \in Call |-> "idle"]
  /\ id = [g \in Call |-> 0]
  /\ timeout = [g \in Call |-> 0]
  /\ left = [g \in Call |-> 0]
  /\ canceled = [g \in Call |-> FALSE]
  /\ outcome = [l \in LogId |-> "open"]
  /\ faults = {}
  /\ early = {}

CtxDone(g) == canceled[g] \/ left[g] = 0
Exists(l) == log[l] # "none"
Active(l) == log[l] \in Stages
-----------------------------------------------------------------------------
(* Writing rows.                                                            *)

\* The UPDATE matches the row with this id, if there (still) is one.
Update(S, text) ==
  /\ log' = [l \in LogId |-> IF l \in S /\ Exists(l) THEN text ELSE log[l]]
  /\ age' = [l \in LogId |-> IF l \in S THEN 0 ELSE age[l]]

NoUpdate == UNCHANGED <<log, age>>

\* Mutant of UpdateInCtx: a context of its own for every write.
UpdateAnyway(g, text) == Update({id[g]}, text) \/ NoUpdate

\* UpdateRequestLog in the call's context, its error ignored.
UpdateInCtx(g, text) ==
  \/ ~CtxDone(g) /\ Update({id[g]}, text)
  \/ NoUpdate

\* The rows of the attempts under way.
OwnRows(calls) == {l \in LogId : Exists(l) /\ \E g \in calls : id[g] = l}

\* What the attempt came to.
Result(g, result) ==
  outcome' = [l \in LogId |-> IF l \in OwnRows({g}) THEN result ELSE outcome[l]]

\* The last write of an attempt: the row has its outcome now, unless the
\* database refuses it.
Close(g, text, result) ==
  /\ \/ Update({id[g]}, text) /\ UNCHANGED faults
     \/ NoUpdate /\ faults' = faults \cup OwnRows({g})
  /\ Result(g, result)

\* Mutant of Text: the error itself.
ErrorText(error) == error

\* What failLog makes of an error.
Text(error) ==
  CASE error = "canceled" -> "canceled"
    [] error = "deadline" -> "timeout"
    [] OTHER -> "failed"

\* Mutant of FailLog: the write uses the call's context, alive or not.
FailLogInCtx(g, error) ==
  IF CtxDone(g) THEN NoUpdate /\ Result(g, "error") /\ UNCHANGED faults
                ELSE Close(g, Text(error), "error")

\* failLog: when the call's context is dead, in one of its own.
FailLog(g, error) == Close(g, Text(error), "error")
-----------------------------------------------------------------------------
(* A generation.                                                            *)

\* effectiveGenerationRuntimeConfig; the context gets its deadline.
Start(g) ==
  /\ pc[g] = "idle"
  /\ \E t \in {config, Default} :
       /\ timeout' = [timeout EXCEPT ![g] = t]
       /\ left' = [left EXCEPT ![g] = t]
  /\ canceled' = [canceled EXCEPT ![g] = FALSE]
  /\ pc' = [pc EXCEPT ![g] = "selecting"]
  /\ UNCHANGED <<log, age, lastId, config, id, outcome, faults, early>>

\* The attempt is over and its row left; so is the call, unless it falls back.
Return(g) ==
  /\ pc' = [pc EXCEPT ![g] = "idle"]
  /\ id' = [id EXCEPT ![g] = 0]
  /\ timeout' = [timeout EXCEPT ![g] = 0]
  /\ left' = [left EXCEPT ![g] = 0]
  /\ canceled' = [canceled EXCEPT ![g] = FALSE]

\* Mutant of FallBack: the next attempt may still have this one's id.
FallBackWithRow(g) ==
  /\ pc' = [pc EXCEPT ![g] = "selecting"]
  /\ UNCHANGED <<id, callVars>>

FallBack(g) ==
  /\ pc' = [pc EXCEPT ![g] = "selecting"]
  /\ id' = [id EXCEPT ![g] = 0]
  /\ UNCHANGED callVars

\* AcquireLeaseExcluding failed: the call returns an error and wrote nothing.
NoLease(g) ==
  /\ pc[g] = "selecting"
  /\ Return(g)
  /\ UNCHANGED <<log, age, lastId, config, outcome, faults, early>>

\* CreateRequestLog: a row, or an ignored error and id 0.
Create(g) ==
  /\ pc[g] = "selecting"
  /\ pc' = [pc EXCEPT ![g] = "running"]
  /\ \/ /\ ~CtxDone(g)
        /\ lastId < MaxLogs
        /\ lastId' = lastId + 1
        /\ id' = [id EXCEPT ![g] = lastId + 1]
        /\ log' = [log EXCEPT ![lastId + 1] = "running"]
        /\ age' = [age EXCEPT ![lastId + 1] = 0]
     \/ UNCHANGED <<lastId, id, log, age>>
  /\ UNCHANGED <<config, outcome, faults, early, callVars>>

\* StartConversation, StreamMessagesWithEvents, or a poll returned.
Advance(g) ==
  /\ pc[g] \in DOMAIN After
  /\ pc' = [pc EXCEPT ![g] = After[pc[g]]]
  /\ UpdateInCtx(g, After[pc[g]])
  /\ UNCHANGED <<lastId, config, id, outcome, faults, early, callVars>>

\* Errors of the stage's upstream call: of the context, of a client timeout, an
\* authentication failure, any other.
Errors(g) ==
  {"deadline", "auth", "other"} \cup (IF canceled[g] THEN {"canceled"} ELSE {})

\* shouldFallback: only an authentication failure is tried with another account.
Fail(g, error) ==
  /\ pc[g] \in Stages
  /\ error \in Errors(g)
  /\ FailLog(g, error)
  /\ IF error = "auth" THEN FallBack(g) ELSE Return(g)
  /\ UNCHANGED <<lastId, config, early>>

\* The failures that are never tried again: no tool call or nothing to poll (a
\* failed poll of the lyrics ids is forgotten), no clips, no audio, and audio
\* that cannot be cached, whatever the reason.
GiveUp(g, error) ==
  /\ \/ pc[g] = "generating" /\ error = "other"
     \/ pc[g] = "processing" /\ error \in Errors(g)
  /\ FailLog(g, error)
  /\ Return(g)
  /\ UNCHANGED <<lastId, config, early>>

\* The clips are cached; wav, image and video fall back to their original URL
\* also when it was the context that ended.  The last write uses that context.
Succeed(g) ==
  /\ pc[g] = "processing"
  /\ IF CtxDone(g)
       THEN NoUpdate /\ Result(g, "late") /\ UNCHANGED faults
       ELSE Close(g, "success", "ok")
  /\ Return(g)
  /\ UNCHANGED <<lastId, config, early>>
-----------------------------------------------------------------------------
(* The rest of the server.                                                  *)

\* Mutants of Stale: every active row, or those of a list of stages.
StaleAlready(l, after) == Active(l)
StaleListed(l, after) ==
  log[l] \in {"running", "streaming", "processing"} /\ age[l] > after + Grace

\* The rows not updated since the configured timeout and the two minutes.
Stale(l, after) == Active(l) /\ age[l] > after + Grace

\* finalizeStaleActiveLogs, before the logs are listed.
Finalize ==
  \E after \in {config, Default} :
    LET stale == {l \in LogId : Stale(l, after)}
    IN  /\ stale # {}
        /\ Update(stale, "timeout")
        /\ early' = early \cup (stale \cap OwnRows({g \in Call : ~CtxDone(g)}))
        /\ UNCHANGED <<lastId, config, pc, id, outcome, faults, callVars>>

Delete(S) ==
  /\ log' = [l \in LogId |-> IF l \in S THEN "none" ELSE log[l]]
  /\ age' = [l \in LogId |-> IF l \in S THEN 0 ELSE age[l]]
  /\ outcome' = [l \in LogId |-> IF l \in S THEN "open" ELSE outcome[l]]
  /\ early' = early \ S

\* handleClearLogs.
Clear ==
  /\ Delete(LogId)
  /\ faults' = {}
  /\ UNCHANGED <<lastId, config, pc, id, callVars>>

\* handleUpdateGenerationConfig.
Configure ==
  /\ config' \in Timeouts
  /\ UNCHANGED <<log, age, lastId, pc, id, outcome, faults, early, callVars>>

Disconnect(g) ==
  /\ pc[g] # "idle"
  /\ ~canceled[g]
  /\ canceled' = [canceled EXCEPT ![g] = TRUE]
  /\ UNCHANGED <<log, age, lastId, config, pc, id, timeout, left, outcome, faults, early>>

Tick ==
  /\ age' = [l \in LogId |-> IF Active(l) /\ age[l] < MaxAge THEN age[l] + 1 ELSE age[l]]
  /\ left' = [g \in Call |-> IF left[g] > 0 THEN left[g] - 1 ELSE 0]
  /\ UNCHANGED <<log, lastId, config, pc, id, timeout, canceled, outcome, faults, early>>

\* The process dies and starts again; main deletes the rows created three days
\* ago (creation times are not kept: any rows).
Crash ==
  /\ \E old \in SUBSET LogId :
       /\ Delete(old)
       /\ faults' = (faults \cup OwnRows(Call)) \ old
  /\ pc' = [g \in Call |-> "idle"]
  /\ id' = [g \in Call |-> 0]
  /\ timeout' = [g \in Call |-> 0]
  /\ left' = [g \in Call |-> 0]
  /\ canceled' = [g \in Call |-> FALSE]
  /\ UNCHANGED <<lastId, config>>

Generate(g) ==
  \/ NoLease(g) \/ Create(g) \/ Advance(g) \/ Succeed(g)
  \/ \E error \in {"canceled", "deadline", "auth", "other"} : Fail(g, error) \/ GiveUp(g, error)

Next ==
  \/ \E g \in Call : Start(g) \/ Generate(g) \/ Disconnect(g)
  \/ Finalize \/ Clear \/ Configure \/ Tick \/ Crash

Spec == Init /\ [][Next]_vars

\* Time passes, a generation ends with its deadline at the latest, and the
\* admin page lists the active logs again and again while it is open.
Fairness ==
  /\ WF_vars(Tick)
  /\ WF_vars(Finalize)

FairSpec == Spec /\ Fairness
-----------------------------------------------------------------------------
\* A row in a stage belongs to the attempt that is in one, unless the outcome
\* could not be written (the database, a crash) or came after the context's end.
ActiveRowsAreOwned ==
  \A l \in LogId :
    Active(l) => \/ \E g \in Call : id[g] = l /\ pc[g] \in Stages
                 \/ l \in faults
                 \/ outcome[l] = "late"

\* What the row says at the end is what the call told its client, whoever else
\* wrote the row in between.
RowTellsOutcome ==
  \A l \in LogId : Exists(l) /\ l \notin faults =>
    /\ outcome[l] = "ok" <=> log[l] = "success"
    /\ outcome[l] = "error" => log[l] \in Failures

\* The finalizer takes no generation that may still finish for a dead one, as
\* long as it counts with a timeout that is not shorter than the generation's.
NoLiveRowIsStale ==
  \A g \in Call : \A after \in Timeouts :
    id[g] # 0 /\ ~CtxDone(g) /\ timeout[g] <= after => ~Stale(id[g], after)

\* A row that ended never becomes active again, unless the finalizer came early.
NoRowIsRevived ==
  [][\A l \in LogId : log[l] \in Failures \cup {"success"} /\ log'[l] \in Stages
                        => l \in early]_vars

\* Every row ends: whatever the call could not write, the finalizer does.
EveryRowEnds == \A l \in LogId : Active(l) ~> ~Active(l)
=============================================================================
