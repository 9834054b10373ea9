------------------------ MODULE UpstreamDialogueProofs ------------------------
(***************************************************************************)
(* Proofs about UpstreamDialogue, for any ids, attempts and timeouts:      *)
(* typing; that the idle timer, its callback and the reader never leave a  *)
(* stream without a guard, and cut only streams that were silent; that an  *)
(* authentication failure ends the attempt; and that nothing is asked for  *)
(* that upstream did not mention.                                          *)
(***************************************************************************)
EXTENDS UpstreamDialogue, TLAPS

\* What the proofs use of the constants.
LEMMA ConstantFacts ==
  /\ MaxAttempts \in Nat /\ 1 \in 1 .. MaxAttempts
  /\ Timeout \in Nat /\ PollTimeout \in Nat /\ Idle \in Nat
  /\ \A request : Attempts(request) \in 1 .. MaxAttempts
BY DialogueAssumption DEF Attempts

States == Requests \cup Reading \cup {"forbidden", "failing", "backoff", "asking", "pausing", "done"}
Outcomes == {"none", "clips", "auth", "failed", "stopped"}

\* The part of TypeOK that ends and retries can disturb.
EndTypes ==
  /\ pc \in States
  /\ again \in Requests
  /\ outcome \in Outcomes
  /\ refused \in BOOLEAN
  /\ outcome = "none" <=> pc # "done"
  /\ pc = "backoff" => attempt < MaxAttempts

\* The part that a stream can.
StreamTimes == timer \in 0 .. Idle + 1 /\ quiet \in 0 .. Idle

StreamFlags ==
  /\ callback \in {"none", "started", "stored"}
  /\ idleTimedOut \in BOOLEAN
  /\ cut \in BOOLEAN
  /\ silent \in BOOLEAN

StreamTypes == StreamTimes /\ StreamFlags

\* The part that polling can.
PollTypes ==
  /\ round \subseteq Operation \cup Lyric
  /\ seen \in BOOLEAN
  /\ pollLeft \in 0 .. PollTimeout

\* The rest.
CallTypes ==
  /\ lookup \in BOOLEAN
  /\ attempt \in 1 .. MaxAttempts
  /\ left \in 0 .. Timeout
  /\ found \in Found
  /\ heard \in Heard

\* The parts are the whole.
LEMMA Parts == TypeOK <=> EndTypes /\ StreamTypes /\ PollTypes /\ CallTypes
BY DEF TypeOK, EndTypes, StreamTypes, StreamTimes, StreamFlags, PollTypes, CallTypes, States, Outcomes

\* A request that fails leaves the types alone.
LEMMA CallFailsTypes ==
  ASSUME EndTypes, NEW request \in Requests, NEW kind \in {"auth", "failed", "stopped"},
         pc # "done", CallFails(request, kind), attempt' = attempt, attempt \in 1 .. MaxAttempts
  PROVE  EndTypes'
<1>1. refused' \in BOOLEAN BY DEF CallFails, EndTypes
<1>2. pc' = "backoff" => attempt < MaxAttempts
  BY ConstantFacts DEF CallFails, End
<1> QED BY <1>1, <1>2 DEF CallFails, End, EndTypes, States, Outcomes

\* What a failing request reports.
LEMMA ErrorKinds == Errors \subseteq {"failed", "stopped"}
BY DEF Errors

\* A stream that returns leaves the types alone.
LEMMA ReturnedTypes == Returned => StreamTypes'
<1> SUFFICES ASSUME Returned PROVE StreamTypes'
  OBVIOUS
<1>1. StreamTimes' BY ConstantFacts DEF Returned, StreamTimes
<1>2. StreamFlags' BY DEF Returned, StreamFlags
<1> QED BY <1>1, <1>2 DEF StreamTypes

\* Ids asked for are ids.
LEMMA PollIdsType ==
  ASSUME found \in Found, NEW read \in Heard
  PROVE  PollIds(read) \subseteq Operation \cup Lyric
BY DEF PollIds, Ops, Found, Heard

\* Neither does the end of a stream.
LEMMA StreamedTypes ==
  ASSUME TypeOK, NEW read \in Heard, Streamed(read), pc # "done",
         UNCHANGED <<lookup, again, left, found>>, heard' \in Heard
  PROVE  TypeOK'
<1>1. StreamTypes' BY ReturnedTypes DEF Streamed
<1>2. PollIds(read) \subseteq Operation \cup Lyric BY PollIdsType DEF TypeOK
<1>3. PollTypes'
  <2>1. CASE UNCHANGED pollVars BY <2>1, Parts DEF pollVars, PollTypes
  <2>2. CASE Poll(PollIds(read))
    <3>1. pollLeft' \in 0 .. PollTimeout BY <2>2, ConstantFacts DEF Poll
    <3>2. round' \subseteq Operation \cup Lyric /\ seen' \in BOOLEAN BY <1>2, <2>2 DEF Poll
    <3> QED BY <3>1, <3>2 DEF PollTypes
  <2> QED BY <2>1, <2>2 DEF Streamed
<1>4. EndTypes'
  BY DEF Streamed, Poll, End, EndTypes, TypeOK, States, Outcomes, Requests, endVars
<1>5. CallTypes' BY ConstantFacts DEF Streamed, CallTypes, TypeOK
<1> QED BY <1>1, <1>3, <1>4, <1>5, Parts DEF TypeOK, EndTypes, StreamTypes, StreamTimes,
           StreamFlags, PollTypes, CallTypes, States, Outcomes

\* The initial states are well typed.
LEMMA InitTypeOK == Init => TypeOK
<1> SUFFICES ASSUME Init PROVE TypeOK
  OBVIOUS
<1>1. pc \in {"starting", "loading", "opening", "asking"} /\ found \in Found
  BY DEF Init
<1>2. found.ops \subseteq Operation BY <1>1 DEF Found
<1>3. heard \in Heard BY DEF Init, NoneHeard, Heard
<1>4. PollTypes
  <2>1. pollLeft \in 0 .. PollTimeout BY ConstantFacts DEF Init
  <2>2. round \subseteq Operation \cup Lyric /\ seen \in BOOLEAN BY <1>2 DEF Init
  <2> QED BY <2>1, <2>2 DEF PollTypes
<1>5. EndTypes BY <1>1 DEF Init, EndTypes, States, Outcomes, Requests
<1>6. StreamTypes
  <2>1. StreamTimes BY ConstantFacts DEF Init, StreamTimes
  <2>2. StreamFlags BY DEF Init, StreamFlags
  <2> QED BY <2>1, <2>2 DEF StreamTypes
<1>7. CallTypes BY <1>1, <1>3, ConstantFacts DEF Init, CallTypes
<1> QED BY <1>4, <1>5, <1>6, <1>7, Parts

\* Every step keeps the types.
LEMMA NextTypeOK == TypeOK /\ [Next]_vars => TypeOK'
<1> SUFFICES ASSUME TypeOK, [Next]_vars PROVE TypeOK'
  OBVIOUS
<1> USE ConstantFacts
<1>0. EndTypes /\ StreamTypes /\ PollTypes /\ CallTypes BY Parts
<1>1. ASSUME EndTypes', StreamTypes', PollTypes', CallTypes' PROVE TypeOK'
  BY <1>1 DEF TypeOK, EndTypes, StreamTypes, StreamTimes, StreamFlags, PollTypes, CallTypes,
              States, Outcomes
<1>2. UNCHANGED streamVars => StreamTypes'
  BY <1>0 DEF streamVars, StreamTypes, StreamTimes, StreamFlags
<1>3. UNCHANGED pollVars => PollTypes' BY <1>0 DEF pollVars, PollTypes
<1>4. UNCHANGED <<lookup, attempt, left, found, heard>> => CallTypes'
  BY <1>0 DEF CallTypes
<1>5. UNCHANGED <<pc, again, attempt, endVars>> => EndTypes' BY <1>0 DEF EndTypes, endVars
<1>6. ASSUME NEW ids \in Found, Started(ids) PROVE TypeOK'
  <2>1. CallTypes' BY <1>0, <1>6 DEF Started, CallTypes
  <2>2. EndTypes' BY <1>0, <1>6 DEF Started, EndTypes, endVars, States, Requests
  <2> QED BY <1>1, <1>2, <1>3, <1>6, <2>1, <2>2 DEF Started
<1>7. ASSUME NEW request \in Requests, NEW kind \in {"auth", "failed", "stopped"},
             pc # "done", CallFails(request, kind), attempt' = attempt
      PROVE  EndTypes'
  BY <1>0, <1>7, CallFailsTypes DEF CallTypes
<1>8. CASE StartFails \/ OpenFails \/ LoadFails
  <2>1. EndTypes' BY <1>7, <1>8, ErrorKinds DEF StartFails, OpenFails, LoadFails, Requests
  <2> QED BY <1>1, <1>2, <1>3, <1>4, <1>8, <2>1 DEF StartFails, OpenFails, LoadFails
<1>9. CASE Refusal
  <2>1. EndTypes' BY <1>7, <1>9 DEF Refusal, Requests
  <2> QED BY <1>1, <1>2, <1>3, <1>4, <1>9, <2>1 DEF Refusal
<1>10. CASE ScanFails
  <2>1. EndTypes' BY <1>7, <1>10 DEF ScanFails, Requests
  <2>2. StreamTypes' BY <1>10, ReturnedTypes DEF ScanFails
  <2> QED BY <1>1, <1>3, <1>4, <1>10, <2>1, <2>2 DEF ScanFails
<1>11. CASE Retry
  <2>1. CallTypes' BY <1>0, <1>11 DEF Retry, CallTypes, EndTypes, End
  <2>2. EndTypes' BY <1>0, <1>11 DEF Retry, EndTypes, End, States, Outcomes, Requests
  <2> QED BY <1>1, <1>2, <1>3, <1>11, <2>1, <2>2 DEF Retry
<1>12. CASE Open \/ OpenRefused
  <2>1. NoneHeard \in Heard BY DEF NoneHeard, Heard
  <2>2. CallTypes' BY <1>0, <1>12, <2>1 DEF Open, OpenRefused, CallTypes
  <2>3. StreamTypes'
    <3>1. CASE Open
      <4>1. StreamTimes' BY <3>1 DEF Open, StreamTimes, Rearmed
      <4>2. StreamFlags' BY <3>1 DEF Open, StreamFlags
      <4> QED BY <4>1, <4>2 DEF StreamTypes
    <3> QED BY <1>2, <1>12, <3>1 DEF OpenRefused
  <2>4. EndTypes'
    BY <1>0, <1>12 DEF Open, OpenRefused, EndTypes, endVars, States, Reading
  <2> QED BY <1>1, <1>3, <1>12, <2>2, <2>3, <2>4 DEF Open, OpenRefused
<1>13. CASE Line \/ StopTimer \/ CheckTimedOut \/ ResetTimer
  <2>1. StreamTypes'
    <3>1. StreamTimes'
      BY <1>0, <1>13
      DEF Line, StopTimer, CheckTimedOut, ResetTimer, StreamTypes, StreamTimes, streamVars, Rearmed
    <3>2. StreamFlags'
      BY <1>0, <1>13
      DEF Line, StopTimer, CheckTimedOut, ResetTimer, StreamTypes, StreamFlags, streamVars
    <3> QED BY <3>1, <3>2 DEF StreamTypes
  <2>2. EndTypes'
    BY <1>0, <1>13
    DEF Line, StopTimer, CheckTimedOut, ResetTimer, EndTypes, endVars, States, Reading
  <2> QED BY <1>1, <1>3, <1>4, <1>13, <2>1, <2>2 DEF Line, StopTimer, CheckTimedOut, ResetTimer
<1>14. CASE Callback
  <2>1. StreamTypes'
    <3>1. StreamTimes'
      BY <1>0, <1>14 DEF Callback, Fire, StoreTimedOut, CancelStream, StreamTypes, StreamTimes
    <3>2. StreamFlags'
      BY <1>0, <1>14 DEF Callback, Fire, StoreTimedOut, CancelStream, StreamTypes, StreamFlags
    <3> QED BY <3>1, <3>2 DEF StreamTypes
  <2> QED BY <1>1, <1>3, <1>4, <1>5, <1>14, <2>1 DEF Callback, Fire, StoreTimedOut, CancelStream
<1>15. CASE Handle
  <2>1. heard' \in Heard BY <1>0, <1>15 DEF Handle, CallTypes, Heard
  <2>2. CASE pc' = "scanning" /\ UNCHANGED <<attempt, streamVars, pollVars, endVars>>
    <3>1. CallTypes' BY <1>0, <1>15, <2>1, <2>2 DEF Handle, CallTypes
    <3>2. EndTypes' BY <1>0, <1>15, <2>2 DEF Handle, EndTypes, endVars, States, Reading
    <3> QED BY <1>1, <1>2, <1>3, <2>2, <3>1, <3>2
  <2>3. CASE Streamed(heard')
    BY <1>15, <2>1, <2>3, StreamedTypes DEF Handle
  <2> QED BY <1>15, <2>2, <2>3 DEF Handle
<1>16. CASE StreamEnds
  <2>1. heard \in Heard BY DEF TypeOK
  <2> QED BY <1>16, <2>1, StreamedTypes DEF StreamEnds
<1>17. CASE (\E id \in round : Ask(id)) \/ AskRefused \/ RoundEnds \/ Resume
  <2>1. heard \in Heard /\ found \in Found BY DEF TypeOK
  <2>2. PollIds(heard) \subseteq Operation \cup Lyric BY <2>1, PollIdsType
  <2>3. round' \subseteq Operation \cup Lyric
    BY <1>0, <1>17, <2>2 DEF Ask, AskRefused, RoundEnds, Resume, PollTypes, pollVars
  <2>4. seen' \in BOOLEAN /\ pollLeft' \in 0 .. PollTimeout
    BY <1>0, <1>17 DEF Ask, AskRefused, RoundEnds, Resume, PollTypes, pollVars
  <2>5. EndTypes'
    BY <1>0, <1>17
    DEF Ask, AskRefused, RoundEnds, Resume, PollFails, End, EndTypes, endVars, States,
        Outcomes, Requests
  <2> QED
    BY <1>1, <1>2, <1>4, <1>17, <2>3, <2>4, <2>5
    DEF Ask, AskRefused, RoundEnds, Resume, PollTypes
<1>18. CASE Loaded
  <2>1. EndTypes' BY <1>0, <1>18 DEF Loaded, End, EndTypes, States, Outcomes, Requests
  <2> QED BY <1>1, <1>2, <1>3, <1>4, <1>18, <2>1 DEF Loaded
<1>19. CASE Tick
  <2>1. CallTypes' BY <1>0, <1>19 DEF Tick, Less, CallTypes
  <2>2. timer' \in 0 .. Idle + 1 /\ quiet' \in 0 .. Idle
    BY <1>0, <1>19 DEF Tick, StreamTypes, StreamTimes
  <2>3. silent' \in BOOLEAN BY <1>0, <1>19 DEF Tick, StreamTypes, StreamFlags
  <2>4. StreamTypes'
    BY <1>0, <1>19, <2>2, <2>3 DEF Tick, StreamTypes, StreamTimes, StreamFlags
  <2>5. PollTypes' BY <1>0, <1>19 DEF Tick, Less, PollTypes
  <2> QED BY <1>1, <1>5, <1>19, <2>1, <2>4, <2>5 DEF Tick, EndTypes
<1>20. CASE Cancel
  <2>1. CallTypes' BY <1>0, <1>20 DEF Cancel, CallTypes
  <2> QED BY <1>1, <1>2, <1>3, <1>5, <1>20, <2>1 DEF Cancel
<1>21. CASE UNCHANGED vars BY <1>21 DEF vars, streamVars, pollVars, endVars, TypeOK
<1> QED
  BY <1>6, <1>8, <1>9, <1>10, <1>11, <1>12, <1>13, <1>14, <1>15, <1>16, <1>17, <1>18,
     <1>19, <1>20, <1>21
  DEF Next, Requested, Start, Stream, ReadLine, PollStep, Load, Done

\* The variables keep their types in every reachable state.
THEOREM TypeCorrect == Spec => []TypeOK
<1>1. Init => TypeOK BY InitTypeOK
<1>2. TypeOK /\ [Next]_vars => TypeOK' BY NextTypeOK
<1> QED BY <1>1, <1>2, PTL DEF Spec
-----------------------------------------------------------------------------
(* The idle timer.  Whoever finds the timer stopped without having stopped  *)
(* it knows that the callback runs: either it has told so, and will cancel  *)
(* the stream, or the timer is started again.                               *)

Guarded == timer > 0 \/ callback # "none" \/ cut

TimerInvariant ==
  /\ Idle = 0 => pc \notin {"stopping", "checking", "resetting"}
  /\ Idle > 0 /\ pc \in {"scanning", "stopping", "checking", "handling"} => Guarded

\* Outside the stream the timer is stopped; a timer that ran out, and what its
\* callback did, mean silence; one that runs has run while no line was read.
SilenceInvariant ==
  /\ pc \notin Reading => timer = 0
  /\ timer = 1 \/ callback # "none" \/ idleTimedOut \/ cut => silent
  /\ pc \in {"scanning", "handling"} /\ timer > 1 /\ ~silent => quiet + timer >= Idle + 1

IInv == TypeOK /\ TimerInvariant /\ SilenceInvariant /\ AuthFailureEndsAttempt

\* The steps that leave the stream's variables alone leave the reader where it
\* is, or move it between statements outside the stream.
Outside ==
  \/ Start \/ OpenFails \/ OpenRefused \/ Refusal \/ PollStep \/ Load \/ Retry

LEMMA OutsideFacts ==
  ASSUME TypeOK, Outside
  PROVE  /\ UNCHANGED streamVars
         /\ pc \notin Reading
         /\ pc' \notin Reading
BY DEF Outside, Start, Started, StartFails, OpenFails, OpenRefused, Refusal, PollStep, Ask,
       AskRefused, RoundEnds, Resume, PollFails, Load, Loaded, LoadFails, Retry, CallFails,
       End, Reading, TypeOK, Requests

\* So does a stream that returns, but for stopping the timer.
LEMMA ReturnFacts ==
  ASSUME NEW read, Streamed(read) \/ ScanFails
  PROVE  Returned /\ pc' \notin Reading
BY DEF Streamed, ScanFails, Poll, End, CallFails, Reading

\* The guard of a stream survives every step.
LEMMA NextTimer == IInv /\ [Next]_vars => TimerInvariant'
<1> SUFFICES ASSUME IInv, [Next]_vars PROVE TimerInvariant'
  OBVIOUS
<1> USE ConstantFacts
<1>0. TypeOK /\ TimerInvariant BY DEF IInv
<1>1. CASE Outside
  BY <1>0, <1>1, OutsideFacts DEF TimerInvariant, Reading
<1>2. ASSUME NEW read, Streamed(read) \/ ScanFails PROVE TimerInvariant'
  BY <1>2, ReturnFacts DEF TimerInvariant, Reading
<1>3. CASE Open
  BY <1>3 DEF Open, TimerInvariant, Guarded, Rearmed
<1>4. CASE Line
  BY <1>0, <1>4 DEF Line, TimerInvariant, Guarded
<1>5. CASE StopTimer
  BY <1>0, <1>5 DEF StopTimer, TimerInvariant, Guarded, TypeOK
<1>6. CASE CheckTimedOut
  BY <1>0, <1>6 DEF CheckTimedOut, TimerInvariant, Guarded, streamVars
<1>7. CASE ResetTimer
  BY <1>0, <1>7 DEF ResetTimer, TimerInvariant, Guarded, Rearmed
<1>8. CASE Fire \/ StoreTimedOut \/ CancelStream
  BY <1>0, <1>8 DEF Fire, StoreTimedOut, CancelStream, TimerInvariant, Guarded
<1>9. CASE Handle /\ pc' = "scanning" /\ UNCHANGED streamVars
  BY <1>0, <1>9 DEF Handle, TimerInvariant, Guarded, streamVars
<1>10. CASE Tick
  <2>1. timer > 0 => timer' > 0 BY <1>0, <1>10 DEF Tick, TypeOK
  <2> QED BY <1>0, <1>10, <2>1 DEF Tick, TimerInvariant, Guarded
<1>11. CASE Cancel \/ UNCHANGED vars
  BY <1>0, <1>11 DEF Cancel, vars, streamVars, TimerInvariant, Guarded
<1> QED
  BY <1>1, <1>2, <1>3, <1>4, <1>5, <1>6, <1>7, <1>8, <1>9, <1>10, <1>11
  DEF Next, Requested, Stream, ReadLine, Callback, Handle, StreamEnds, Done, Outside

\* What the timer says of the silence survives every step.
LEMMA NextSilence == IInv /\ [Next]_vars => SilenceInvariant'
<1> SUFFICES ASSUME IInv, [Next]_vars PROVE SilenceInvariant'
  OBVIOUS
<1> USE ConstantFacts
<1>0. TypeOK /\ SilenceInvariant BY DEF IInv
<1>1. CASE Outside
  BY <1>0, <1>1, OutsideFacts DEF SilenceInvariant, Reading, streamVars
<1>2. ASSUME NEW read, Streamed(read) \/ ScanFails PROVE SilenceInvariant'
  <2>1. timer' = 0 /\ callback' = "none" /\ ~idleTimedOut' /\ ~cut' /\ pc' \notin Reading
    BY <1>2, ReturnFacts DEF Returned
  <2> QED BY <2>1 DEF SilenceInvariant, Reading
<1>3. CASE Open
  BY <1>3 DEF Open, SilenceInvariant, Rearmed, Reading
<1>4. CASE Line
  BY <1>0, <1>4 DEF Line, SilenceInvariant, Reading, TypeOK
<1>5. CASE StopTimer
  BY <1>0, <1>5 DEF StopTimer, SilenceInvariant, Reading
<1>6. CASE CheckTimedOut
  BY <1>0, <1>6 DEF CheckTimedOut, SilenceInvariant, streamVars, Reading
<1>7. CASE ResetTimer
  BY <1>0, <1>7 DEF ResetTimer, SilenceInvariant, Rearmed, Reading, TypeOK
<1>8. CASE Fire \/ StoreTimedOut \/ CancelStream
  BY <1>0, <1>8 DEF Fire, StoreTimedOut, CancelStream, SilenceInvariant
<1>9. CASE Handle /\ pc' = "scanning" /\ UNCHANGED streamVars
  BY <1>0, <1>9 DEF Handle, SilenceInvariant, streamVars, Reading
<1>10. CASE Tick
  <2>1. timer \in Nat /\ quiet \in Nat /\ quiet <= Idle BY <1>0 DEF TypeOK
  <2>2. /\ timer' = IF timer > 1 THEN timer - 1 ELSE timer
        /\ quiet' = IF pc \in Reading /\ quiet < Idle THEN quiet + 1 ELSE quiet
        /\ silent \/ (pc \in Reading /\ quiet + 1 >= Idle) => silent'
        /\ silent => silent'
        /\ UNCHANGED <<pc, callback, idleTimedOut, cut>>
        /\ pc \notin {"stopping", "checking", "resetting"}
    BY <1>10 DEF Tick
  <2>3. (pc \notin Reading => timer = 0)' BY <1>0, <2>1, <2>2 DEF SilenceInvariant
  <2>4. ASSUME pc \in {"scanning", "handling"}, timer > 1, ~silent'
        PROVE  quiet' + timer' >= Idle + 1 /\ timer' # 1
    <3>1. quiet + timer >= Idle + 1 BY <1>0, <2>2, <2>4 DEF SilenceInvariant
    <3>2. quiet + 1 < Idle BY <2>1, <2>2, <2>4 DEF Reading
    <3> QED BY <2>1, <2>2, <2>4, <3>1, <3>2 DEF Reading
  <2>5. timer' > 1 => timer > 1 BY <2>1, <2>2
  <2>6. ASSUME timer' = 1, ~silent' PROVE FALSE
    <3>1. CASE timer = 1 BY <1>0, <2>2, <2>6, <3>1 DEF SilenceInvariant
    <3>2. CASE timer > 1 /\ pc \in Reading
      BY <2>2, <2>4, <2>6, <3>2 DEF Reading
    <3> QED BY <1>0, <2>1, <2>2, <2>6, <3>1, <3>2 DEF SilenceInvariant
  <2>7. callback # "none" \/ idleTimedOut \/ cut => silent' BY <1>0, <2>2 DEF SilenceInvariant
  <2> QED BY <2>2, <2>3, <2>4, <2>5, <2>6, <2>7 DEF SilenceInvariant
<1>11. CASE Cancel \/ UNCHANGED vars
  BY <1>0, <1>11 DEF Cancel, vars, streamVars, SilenceInvariant
<1> QED
  BY <1>1, <1>2, <1>3, <1>4, <1>5, <1>6, <1>7, <1>8, <1>9, <1>10, <1>11
  DEF Next, Requested, Stream, ReadLine, Callback, Handle, StreamEnds, Done, Outside

\* Once a request is refused its body is read, the attempt ends, and nothing follows.
LEMMA NextRefused == IInv /\ [Next]_vars => AuthFailureEndsAttempt'
<1> SUFFICES ASSUME IInv, [Next]_vars PROVE AuthFailureEndsAttempt'
  OBVIOUS
<1>0. TypeOK /\ AuthFailureEndsAttempt BY DEF IInv
<1>1. refused => pc \in {"done", "forbidden"} BY <1>0 DEF TypeOK, AuthFailureEndsAttempt
<1>2. ASSUME NEW request, NEW kind, CallFails(request, kind), ~refused \/ kind = "auth"
      PROVE  AuthFailureEndsAttempt'
  BY <1>2 DEF CallFails, End, AuthFailureEndsAttempt
<1>3. ASSUME ~refused, UNCHANGED refused PROVE AuthFailureEndsAttempt'
  BY <1>3 DEF AuthFailureEndsAttempt
<1>4. CASE pc = "done"
  <2>1. UNCHANGED <<pc, found, heard, round, endVars>>
    BY <1>4
    DEF Next, Requested, Start, Started, StartFails, Stream, OpenFails, OpenRefused, Open,
        ReadLine, StopTimer, CheckTimedOut, ResetTimer, Handle, PollStep, Ask, AskRefused,
        RoundEnds, Resume, Load, Loaded, LoadFails, Retry, Callback, Fire, StoreTimedOut,
        CancelStream, Refusal, Line, StreamEnds, ScanFails, Tick, Cancel, Done, vars, pollVars
  <2> QED BY <1>0, <2>1 DEF AuthFailureEndsAttempt, endVars, Ops
<1>5. CASE pc = "forbidden"
  <2>1. CASE Refusal BY <1>2, <1>5, <2>1 DEF Refusal
  <2>2. CASE ~Refusal
    <3>1. UNCHANGED pc
      BY <1>5, <2>2
      DEF Next, Requested, Start, Started, StartFails, Stream, OpenFails, OpenRefused, Open,
          ReadLine, StopTimer, CheckTimedOut, ResetTimer, Handle, PollStep, Ask, AskRefused,
          RoundEnds, Resume, Load, Loaded, LoadFails, Retry, Callback, Fire, StoreTimedOut,
          CancelStream, Line, StreamEnds, ScanFails, Tick, Cancel, Done, vars
    <3> QED BY <1>5, <3>1 DEF AuthFailureEndsAttempt
  <2> QED BY <2>1, <2>2
<1>6. CASE StartFails \/ OpenFails \/ (Refusal /\ pc = "failing") \/ ScanFails \/ LoadFails
  <2>1. ~refused
    BY <1>1, <1>6 DEF StartFails, OpenFails, Refusal, ScanFails, LoadFails
  <2> QED BY <1>2, <1>6, <2>1 DEF StartFails, OpenFails, Refusal, ScanFails, LoadFails
<1>7. CASE AskRefused
  <2>1. ~refused /\ UNCHANGED <<found, heard, round>> /\ round # {}
    BY <1>1, <1>7 DEF AskRefused, pollVars
  <2> QED BY <1>7, <2>1 DEF AskRefused, PollFails, End, AuthFailureEndsAttempt, Ops
<1>8. CASE Resume
  <2>1. ~refused BY <1>1, <1>8 DEF Resume
  <2>2. ~refused' BY <1>8, <2>1 DEF Resume, PollFails, endVars
  <2> QED BY <2>2 DEF AuthFailureEndsAttempt
<1>9. CASE OpenRefused
  <2>1. ~refused BY <1>1, <1>9 DEF OpenRefused
  <2> QED BY <1>9, <2>1 DEF OpenRefused, AuthFailureEndsAttempt
<1>10. CASE Handle \/ StreamEnds
  <2>1. ~refused /\ UNCHANGED refused
    BY <1>1, <1>10 DEF Handle, StreamEnds, Streamed, Poll, endVars
  <2> QED BY <1>3, <2>1
<1>11. CASE pc \notin {"done", "forbidden"} /\ UNCHANGED refused
  BY <1>1, <1>3, <1>11
<1> QED
  BY <1>4, <1>5, <1>6, <1>7, <1>8, <1>9, <1>10, <1>11
  DEF Next, Requested, Start, Started, Stream, Open, ReadLine, StopTimer, CheckTimedOut,
      ResetTimer, PollStep, Ask, RoundEnds, Load, Loaded, Retry, Callback, Refusal,
      Fire, StoreTimedOut, CancelStream, Line, Tick, Cancel, Done, vars, endVars

\* The inductive invariant.
LEMMA Inductive == Spec => []IInv
<1>1. Init => IInv
  <2> SUFFICES ASSUME Init PROVE IInv
    OBVIOUS
  <2>1. TypeOK BY InitTypeOK
  <2>2. timer = 0 /\ callback = "none" /\ ~idleTimedOut /\ ~cut /\ ~refused BY DEF Init
  <2>3. pc \in {"starting", "loading", "opening", "asking"} BY DEF Init
  <2>4. TimerInvariant BY <2>3 DEF TimerInvariant
  <2>5. SilenceInvariant BY <2>2, <2>3 DEF SilenceInvariant
  <2> QED BY <2>1, <2>2, <2>4, <2>5 DEF IInv, AuthFailureEndsAttempt
<1>2. IInv /\ [Next]_vars => IInv'
  BY NextTypeOK, NextTimer, NextSilence, NextRefused DEF IInv
<1> QED BY <1>1, <1>2, PTL DEF Spec

\* A waiting reader has a timer, a callback or a canceled context, for every
\* interleaving of resetIdleTimer with the callback.
THEOREM StreamGuarded == Spec => []StreamIsGuarded
<1>1. IInv => StreamIsGuarded BY DEF IInv, TimerInvariant, Guarded, StreamIsGuarded
<1> QED BY <1>1, Inductive, PTL

\* The idle timer cuts no stream whose lines keep coming.
THEOREM SilenceCuts == Spec => []CutMeansSilence
<1>1. IInv => CutMeansSilence BY DEF IInv, SilenceInvariant, CutMeansSilence
<1> QED BY <1>1, Inductive, PTL

\* 401 and 403 are never retried with the same account.
THEOREM AuthFailureEnds == Spec => []AuthFailureEndsAttempt
<1>1. IInv => AuthFailureEndsAttempt BY DEF IInv
<1> QED BY <1>1, Inductive, PTL
-----------------------------------------------------------------------------
(* What the attempt asks for.                                                *)

\* Upstream mentioned a clip: with the conversation, in the stream, or in answer
\* to a poll.
ClipsWereTold == found.clips \/ heard.clips \/ seen

\* A poll asks for something, and only for ids the conversation or the stream told
\* it; clips are loaded, and returned, only where upstream mentioned some.
AsksForWhatWasTold ==
  /\ pc \in {"asking", "pausing"} => PollIds(heard) # {} /\ round \subseteq PollIds(heard)
  /\ pc = "loading" => ClipsWereTold
  /\ pc = "backoff" /\ again = "loading" => ClipsWereTold
  /\ outcome = "clips" => ClipsWereTold

\* A failed call is retried as what it was, or ends the attempt without clips.
LEMMA FailureAsksForNothing ==
  ASSUME TypeOK, AsksForWhatWasTold, NEW request \in Requests,
         NEW kind \in {"auth", "failed", "stopped"}, CallFails(request, kind),
         request = "loading" => pc = "loading", UNCHANGED <<found, heard, seen>>
  PROVE  AsksForWhatWasTold'
<1>1. CASE pc' = "backoff" /\ again' = request /\ outcome' = outcome
  BY <1>1 DEF AsksForWhatWasTold, ClipsWereTold
<1>2. CASE pc' = "done" /\ outcome' = kind
  BY <1>2 DEF AsksForWhatWasTold
<1> QED BY <1>1, <1>2 DEF CallFails, End

\* A stream that has ended leads to its clips, to a poll of the ids it told, or to
\* the end.
LEMMA StreamTells ==
  ASSUME TypeOK, pc \in Reading, Streamed(heard'), UNCHANGED <<found, again>>
  PROVE  AsksForWhatWasTold'
<1>1. outcome = "none"
  BY DEF TypeOK, Reading
<1>2. CASE Clips(found, heard')
  BY <1>1, <1>2 DEF Streamed, Clips, AsksForWhatWasTold, ClipsWereTold, endVars
<1>3. CASE ~Clips(found, heard') /\ (Ops(found, heard') # {} \/ (heard'.lyrics # {} /\ ~lookup))
  <2>1. pc' = "asking" /\ round' = PollIds(heard') /\ outcome' = "none"
    BY <1>1, <1>3 DEF Streamed, Poll, endVars
  <2>2. PollIds(heard') # {}
    BY <1>3 DEF PollIds
  <2>3. PollIds(heard)' = PollIds(heard')
    BY DEF PollIds, Ops
  <2> QED BY <2>1, <2>2, <2>3 DEF AsksForWhatWasTold
<1>4. CASE ~Clips(found, heard') /\ ~(Ops(found, heard') # {} \/ (heard'.lyrics # {} /\ ~lookup))
  BY <1>4 DEF Streamed, End, AsksForWhatWasTold
<1> QED BY <1>2, <1>3, <1>4

\* Every step keeps it.
LEMMA NextAsks == TypeOK /\ AsksForWhatWasTold /\ [Next]_vars => AsksForWhatWasTold'
<1> SUFFICES ASSUME TypeOK, AsksForWhatWasTold, [Next]_vars
             PROVE  AsksForWhatWasTold'
  OBVIOUS
<1>1. outcome = "none" <=> pc # "done"
  BY DEF TypeOK
<1>2. ASSUME UNCHANGED <<pc, again, found, heard, seen, outcome>>, round' \subseteq round
      PROVE  AsksForWhatWasTold'
  <2>1. PollIds(heard)' = PollIds(heard)
    BY <1>2 DEF PollIds, Ops
  <2> QED BY <1>2, <2>1 DEF AsksForWhatWasTold, ClipsWereTold
<1>3. ASSUME pc' \in {"opening", "forbidden", "failing"} \cup Reading, outcome' = "none"
      PROVE  AsksForWhatWasTold'
  BY <1>3 DEF AsksForWhatWasTold, Reading
<1>4. CASE Start
  <2>1. ASSUME NEW ids, Started(ids) PROVE AsksForWhatWasTold'
    BY <1>1, <1>3, <2>1 DEF Started, endVars
  <2>2. CASE StartFails
    BY <2>2, FailureAsksForNothing DEF StartFails, Errors, Requests, pollVars
  <2> QED BY <1>4, <2>1, <2>2 DEF Start
<1>5. CASE Stream
  <2>1. CASE Open \/ OpenRefused
    BY <1>1, <1>3, <2>1 DEF Open, OpenRefused, endVars, Reading
  <2>2. CASE OpenFails
    BY <2>2, FailureAsksForNothing DEF OpenFails, Errors, Requests, pollVars
  <2> QED BY <1>5, <2>1, <2>2 DEF Stream
<1>6. CASE Refusal
  BY <1>6, FailureAsksForNothing DEF Refusal, Requests, pollVars
<1>7. CASE ScanFails
  BY <1>7, FailureAsksForNothing DEF ScanFails, Requests, pollVars
<1>8. CASE LoadFails
  BY <1>8, FailureAsksForNothing DEF LoadFails, Errors, Requests, pollVars
<1>9. CASE Line \/ StopTimer \/ CheckTimedOut \/ ResetTimer
  BY <1>1, <1>3, <1>9 DEF Line, StopTimer, CheckTimedOut, ResetTimer, endVars, Reading
<1>10. CASE Handle \/ StreamEnds
  <2>1. CASE Streamed(heard')
    BY <1>10, <2>1, StreamTells DEF Handle, StreamEnds, Reading
  <2>2. CASE Handle /\ pc' = "scanning"
    BY <1>1, <1>3, <2>2 DEF Handle, Streamed, Reading, endVars, Poll, End
  <2> QED BY <1>10, <2>1, <2>2 DEF Handle, StreamEnds
<1>11. CASE PollStep
  <2>1. ASSUME NEW id \in round, Ask(id) PROVE AsksForWhatWasTold'
    <3>1. PollIds(heard)' = PollIds(heard)
      BY <2>1 DEF Ask, PollIds, Ops
    <3> QED BY <1>1, <2>1, <3>1 DEF Ask, AsksForWhatWasTold, endVars
  <2>2. CASE AskRefused
    BY <2>2 DEF AskRefused, PollFails, End, AsksForWhatWasTold
  <2>3. CASE RoundEnds
    <3>1. PollIds(heard)' = PollIds(heard) /\ round' = round /\ outcome' = "none"
      BY <1>1, <2>3 DEF RoundEnds, PollIds, Ops, pollVars, endVars
    <3> QED BY <2>3, <3>1 DEF RoundEnds, AsksForWhatWasTold, ClipsWereTold, pollVars
  <2>4. CASE Resume
    <3>1. PollIds(heard)' = PollIds(heard)
      BY <2>4 DEF Resume, PollIds, Ops
    <3> QED
      BY <1>1, <2>4, <3>1 DEF Resume, PollFails, End, AsksForWhatWasTold, endVars
  <2> QED BY <1>11, <2>1, <2>2, <2>3, <2>4 DEF PollStep
<1>12. CASE Loaded
  BY <1>12 DEF Loaded, End, AsksForWhatWasTold, ClipsWereTold, pollVars
<1>13. CASE Retry
  <2>1. CASE pc' = again /\ outcome' = outcome
    <3>1. pc' \in Requests /\ outcome' = "none" /\ pc = "backoff"
      BY <1>1, <1>13, <2>1 DEF Retry, TypeOK
    <3> QED
      BY <1>13, <2>1, <3>1
      DEF Retry, AsksForWhatWasTold, ClipsWereTold, Requests, pollVars
  <2>2. CASE End("stopped")
    BY <2>2 DEF End, AsksForWhatWasTold
  <2> QED BY <1>13, <2>1, <2>2 DEF Retry
<1>14. CASE Callback \/ Tick \/ Cancel \/ UNCHANGED vars
  BY <1>2, <1>14
  DEF Callback, Fire, StoreTimedOut, CancelStream, Tick, Cancel, vars, pollVars, endVars
<1> QED
  BY <1>4, <1>5, <1>6, <1>7, <1>8, <1>9, <1>10, <1>11, <1>12, <1>13, <1>14
  DEF Next, Requested, ReadLine, Load, Done

\* An attempt never polls for nothing, nor for an id of another conversation, and
\* comes back with clips only if upstream mentioned some.
THEOREM AttemptsAskForWhatWasTold == Spec => []AsksForWhatWasTold
<1>1. Init => AsksForWhatWasTold
  BY DEF Init, AsksForWhatWasTold, ClipsWereTold, PollIds, Ops, NoneHeard
<1> QED BY <1>1, NextAsks, InitTypeOK, NextTypeOK, PTL DEF Spec
=============================================================================
