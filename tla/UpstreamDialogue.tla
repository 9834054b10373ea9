--------------------------- MODULE UpstreamDialogue ---------------------------
(***************************************************************************)
(* What one attempt of internal/service/generation.go says to upstream     *)
(* with one account, through internal/service/flowmusic.go: a conversation *)
(* is started, its event stream read under an idle timer, its operations   *)
(* polled until they have clips, the clips loaded.  Three actors share the *)
(* stream: the reader, the timer's callback (a goroutine of its own), and  *)
(* the context, which ends by its deadline or because the caller left.     *)
(*                                                                         *)
(* A tick is the unit of every timeout.  The statements between Scan and   *)
(* Reset take no tick, but other actors may run between them.              *)
(***************************************************************************)
EXTENDS Naturals

CONSTANTS
  Operation,     \* ids of upstream's operations
  Lyric,         \* ids of lyrics a tool call may mention
  MaxAttempts,   \* generationRuntimeConfig.MaxAttempts
  Timeout,       \* its Timeout
  PollTimeout,   \* its PollTimeout
  Idle           \* StreamIdleTimeout, 0 for none

ASSUME DialogueAssumption ==
  /\ Operation \cap Lyric = {}
  /\ MaxAttempts \in Nat \ {0}
  /\ Timeout \in Nat \ {0}
  /\ PollTimeout \in Nat \ {0}
  /\ Idle \in Nat

VARIABLES
  lookup,        \* LookupResult rather than GenerateWithProgress
  pc,            \* where the attempt stands
  again,         \* the request that is retried after the pause
  attempt,       \* retryValueUnless: which call of its function runs
  left,          \* time until the context is done; 0 when it is
  found,         \* ids known before the stream: of operations, and any clip?
  heard,         \* ids read from the stream
  timer,         \* idle timer: 0 stopped or fired, 1 due, else 1 + time left
  callback,      \* its callback: "none", "started", or "stored" idleTimedOut
  idleTimedOut,  \* the flag it stores
  cut,           \* it cancelled the stream's context
  round,         \* ids this round of polling has still to ask for
  seen,          \* a clip was seen
  pollLeft,      \* time until the poll's deadline
  outcome,       \* how the attempt ended
  quiet,         \* history: time since a line was read (up to Idle)
  silent,        \* history: that once reached Idle in this stream
  refused        \* history: upstream answered 401 or 403

streamVars == <<timer, callback, idleTimedOut, cut, quiet, silent>>
pollVars == <<round, seen, pollLeft>>
endVars == <<outcome, refused>>
vars == <<lookup, pc, again, attempt, left, found, heard, streamVars, pollVars, endVars>>

Requests == {"starting", "opening", "loading"}
Reading == {"scanning", "stopping", "checking", "resetting", "handling"}
Found == [ops : SUBSET Operation, clips : BOOLEAN]
Heard == [ops : SUBSET Operation, clips : BOOLEAN, lyrics : SUBSET Lyric]

TypeOK ==
  /\ lookup \in BOOLEAN
  /\ pc \in Requests \cup Reading \cup {"forbidden", "failing", "backoff", "asking", "pausing", "done"}
  /\ again \in Requests
  /\ attempt \in 1 .. MaxAttempts
  /\ left \in 0 .. Timeout
  /\ found \in Found
  /\ heard \in Heard
  /\ timer \in 0 .. Idle + 1
  /\ callback \in {"none", "started", "stored"}
  /\ idleTimedOut \in BOOLEAN
  /\ cut \in BOOLEAN
  /\ round \subseteq Operation \cup Lyric
  /\ seen \in BOOLEAN
  /\ pollLeft \in 0 .. PollTimeout
  /\ outcome \in {"none", "clips", "auth", "failed", "stopped"}
  /\ quiet \in 0 .. Idle
  /\ silent \in BOOLEAN
  /\ refused \in BOOLEAN
  /\ outcome = "none" <=> pc # "done"
  /\ pc = "backoff" => attempt < MaxAttempts

NoneHeard == [ops |-> {}, clips |-> FALSE, lyrics |-> {}]
Over == left = 0

\* A generation starts its conversation; a lookup was given a job or ids.
Init ==
  /\ lookup \in BOOLEAN
  /\ found \in Found
  /\ IF lookup
       THEN \/ found.clips /\ pc = "loading"
            \/ ~found.clips /\ pc = "opening"
            \/ ~found.clips /\ found.ops # {} /\ pc = "asking"
       ELSE pc = "starting" /\ found = [ops |-> {}, clips |-> FALSE]
  /\ again = "starting"
  /\ attempt = 1
  /\ left = Timeout
  /\ heard = NoneHeard
  /\ timer = 0
  /\ callback = "none"
  /\ idleTimedOut = FALSE
  /\ cut = FALSE
  /\ round = IF pc = "asking" THEN found.ops ELSE {}
  /\ seen = FALSE
  /\ pollLeft = IF pc = "asking" THEN PollTimeout ELSE 0
  /\ outcome = "none"
  /\ quiet = 0
  /\ silent = FALSE
  /\ refused = FALSE
-----------------------------------------------------------------------------
(* Ends and retries.                                                        *)

\* The attempt ends with result kind; an error of the context ends the request,
\* an authentication failure sends it to the next account.
End(kind) ==
  /\ pc' = "done"
  /\ outcome' = kind

\* Mutant of Attempts: the loop counts from 0 and includes its bound.
OneMoreAttempt(request) == IF lookup /\ request = "opening" THEN 1 ELSE MaxAttempts + 1

\* LookupResult retries nothing but the loading of clips.
Attempts(request) == IF lookup /\ request = "opening" THEN 1 ELSE MaxAttempts

\* Mutant of CallFails: retryValue, which asks nobody whether to stop.
RetryAlways(request, kind) ==
  /\ IF attempt < Attempts(request)
       THEN /\ pc' = "backoff"
            /\ again' = request
            /\ UNCHANGED outcome
       ELSE End(kind) /\ UNCHANGED again
  /\ refused' = (refused \/ kind = "auth")

\* retryValueUnless: fn failed with an error of this kind.
CallFails(request, kind) ==
  /\ IF kind # "auth" /\ attempt < Attempts(request)
       THEN /\ pc' = "backoff"
            /\ again' = request
            /\ UNCHANGED outcome
       ELSE End(kind) /\ UNCHANGED again
  /\ refused' = (refused \/ kind = "auth")

\* The pause before the next call is over, or the context is.
Retry ==
  /\ pc = "backoff"
  /\ \/ /\ ~Over
        /\ pc' = again
        /\ attempt' = attempt + 1
        /\ UNCHANGED outcome
     \/ Over /\ End("stopped") /\ UNCHANGED attempt
  /\ UNCHANGED <<lookup, again, left, found, heard, streamVars, pollVars, refused>>

\* What a request may fail with, short of 401 and 403: the HTTP client's own
\* timeout is a deadline too, and looks like the context's.
Errors == IF Over THEN {"stopped"} ELSE {"failed", "stopped"}
-----------------------------------------------------------------------------
(* StartConversation.                                                       *)

Started(ids) ==
  /\ pc = "starting"
  /\ ~Over
  /\ found' = ids
  /\ pc' = "opening"
  /\ attempt' = 1
  /\ UNCHANGED <<lookup, again, left, heard, streamVars, pollVars, endVars>>

StartFails ==
  /\ pc = "starting"
  /\ \E kind \in Errors \cup {"auth"} : CallFails("starting", kind)
  /\ UNCHANGED <<lookup, attempt, left, found, heard, streamVars, pollVars>>
-----------------------------------------------------------------------------
(* StreamMessagesWithEvents.                                                *)

Rearmed == IF Idle = 0 THEN 0 ELSE Idle + 1

\* Upstream answers 2xx: the timer starts, with variables of this call.
Open ==
  /\ pc = "opening"
  /\ ~Over
  /\ pc' = "scanning"
  /\ heard' = NoneHeard
  /\ timer' = Rearmed
  /\ callback' = "none"
  /\ idleTimedOut' = FALSE
  /\ cut' = FALSE
  /\ quiet' = 0
  /\ silent' = FALSE
  /\ UNCHANGED <<lookup, again, attempt, left, found, pollVars, endVars>>

\* The connection fails.
OpenFails ==
  /\ pc = "opening"
  /\ \E kind \in Errors : CallFails("opening", kind)
  /\ UNCHANGED <<lookup, attempt, left, found, heard, streamVars, pollVars>>

\* Another status: the error's body is read before the timer exists.
OpenRefused ==
  /\ pc = "opening"
  /\ ~Over
  /\ pc' \in {"forbidden", "failing"}
  /\ refused' = (refused \/ pc' = "forbidden")
  /\ UNCHANGED <<lookup, again, attempt, left, found, heard, streamVars, pollVars, outcome>>

\* Mutant of Refusal: the context's end, met while the body is read, is the error.
RefusalStopped ==
  /\ \/ pc = "forbidden" /\ CallFails("opening", IF Over THEN "stopped" ELSE "auth")
     \/ pc = "failing" /\ CallFails("opening", IF Over THEN "stopped" ELSE "failed")
  /\ UNCHANGED <<lookup, attempt, left, found, heard, streamVars, pollVars>>

\* The body ends, or the context does; the error is the status in either case.
Refusal ==
  /\ \/ pc = "forbidden" /\ CallFails("opening", "auth")
     \/ pc = "failing" /\ CallFails("opening", "failed")
  /\ UNCHANGED <<lookup, attempt, left, found, heard, streamVars, pollVars>>

\* Mutant of Line: reading it does not touch the timer.
LineOnly ==
  /\ pc = "scanning"
  /\ quiet' = 0
  /\ pc' = "handling"
  /\ UNCHANGED <<lookup, again, attempt, left, found, heard, timer, callback,
                 idleTimedOut, cut, silent, pollVars, endVars>>

\* Scan returns a line, from upstream or from the buffer.
Line ==
  /\ pc = "scanning"
  /\ quiet' = 0
  /\ pc' = IF Idle = 0 THEN "handling" ELSE "stopping"
  /\ UNCHANGED <<lookup, again, attempt, left, found, heard, timer, callback,
                 idleTimedOut, cut, silent, pollVars, endVars>>

\* resetIdleTimer: Stop says whether it came before the timer.
StopTimer ==
  /\ pc = "stopping"
  /\ pc' = IF timer > 0 THEN "resetting" ELSE "checking"
  /\ timer' = 0
  /\ UNCHANGED <<lookup, again, attempt, left, found, heard, callback, idleTimedOut,
                 cut, quiet, silent, pollVars, endVars>>

\* If not, was idleTimedOut stored yet?
CheckTimedOut ==
  /\ pc = "checking"
  /\ pc' = IF idleTimedOut THEN "handling" ELSE "resetting"
  /\ UNCHANGED <<lookup, again, attempt, left, found, heard, streamVars, pollVars, endVars>>

\* Mutant of ResetTimer: the timer is left stopped.
LeaveStopped ==
  /\ pc = "resetting"
  /\ pc' = "handling"
  /\ UNCHANGED <<lookup, again, attempt, left, found, heard, streamVars, pollVars, endVars>>

ResetTimer ==
  /\ pc = "resetting"
  /\ timer' = Rearmed
  /\ pc' = "handling"
  /\ UNCHANGED <<lookup, again, attempt, left, found, heard, callback, idleTimedOut,
                 cut, quiet, silent, pollVars, endVars>>

\* The callback's three steps.
Fire ==
  /\ timer = 1
  /\ timer' = 0
  /\ callback' = IF callback = "none" THEN "started" ELSE callback
  /\ UNCHANGED <<lookup, pc, again, attempt, left, found, heard, idleTimedOut, cut,
                 quiet, silent, pollVars, endVars>>

StoreTimedOut ==
  /\ callback = "started"
  /\ idleTimedOut' = TRUE
  /\ callback' = "stored"
  /\ UNCHANGED <<lookup, pc, again, attempt, left, found, heard, timer, cut, quiet,
                 silent, pollVars, endVars>>

CancelStream ==
  /\ callback = "stored"
  /\ cut' = TRUE
  /\ callback' = "none"
  /\ UNCHANGED <<lookup, pc, again, attempt, left, found, heard, timer, idleTimedOut,
                 quiet, silent, pollVars, endVars>>

\* StreamMessagesWithEvents returns; its deferred Stop and cancel.
Returned ==
  /\ timer' = 0
  /\ callback' = "none"
  /\ idleTimedOut' = FALSE
  /\ cut' = FALSE
  /\ quiet' = 0
  /\ silent' = FALSE

Ops(known, read) == known.ops \cup read.ops
Clips(known, read) == known.clips \/ read.clips

\* What is asked of upstream by PollClipsWithProgress.
PollIds(read) == IF Ops(found, read) # {} THEN Ops(found, read) ELSE read.lyrics

Poll(ids) ==
  /\ pc' = "asking"
  /\ round' = ids
  /\ seen' = FALSE
  /\ pollLeft' = PollTimeout
  /\ UNCHANGED endVars

\* The stream ended without an error, having told read.  Only a generation
\* that heard of a tool call tries the ids of its lyrics.
Streamed(read) ==
  /\ attempt' = 1
  /\ Returned
  /\ IF Clips(found, read)
       THEN pc' = "loading" /\ UNCHANGED <<pollVars, endVars>>
       ELSE IF Ops(found, read) # {} \/ (read.lyrics # {} /\ ~lookup)
              THEN Poll(PollIds(read))
              ELSE End("failed") /\ UNCHANGED <<pollVars, refused>>

\* The line is handled: it adds ids, or none, and may be the last one.
Handle ==
  /\ pc = "handling"
  /\ \E ids \in Heard :
       heard' = [ops |-> heard.ops \cup ids.ops, clips |-> heard.clips \/ ids.clips,
                 lyrics |-> heard.lyrics \cup ids.lyrics]
  /\ \/ pc' = "scanning" /\ UNCHANGED <<attempt, streamVars, pollVars, endVars>>
     \/ Streamed(heard')
  /\ UNCHANGED <<lookup, again, left, found>>

\* Upstream closes the stream, without a last line.
StreamEnds ==
  /\ pc = "scanning"
  /\ Streamed(heard)
  /\ UNCHANGED <<lookup, again, left, found, heard>>

\* Mutant of ScanFails: the request was made without the caller's context.
ScanFailsAlone ==
  /\ pc = "scanning"
  /\ cut \/ ~Over
  /\ CallFails("opening", "failed")
  /\ Returned
  /\ UNCHANGED <<lookup, attempt, left, found, heard, pollVars>>

\* Scan fails: the connection broke, or a context is done.  The flag decides
\* what is reported, so an idle timeout hides the end of the caller's context.
ScanFails ==
  /\ pc = "scanning"
  /\ CallFails("opening", IF Over /\ ~idleTimedOut THEN "stopped" ELSE "failed")
  /\ Returned
  /\ UNCHANGED <<lookup, attempt, left, found, heard, pollVars>>
-----------------------------------------------------------------------------
(* PollClipsWithProgress.                                                   *)

\* The poll returns an error.  One for the ids of lyrics is forgotten: what
\* remains is that no tool call brought a task.
PollFails(kind) ==
  /\ End(IF Ops(found, heard) = {} THEN "failed" ELSE kind)
  /\ refused' = (refused \/ kind = "auth")

\* The status of one id arrives, or an error that only the last line of the
\* poll will remember.
Ask(id) ==
  /\ pc = "asking"
  /\ id \in round
  /\ round' = round \ {id}
  /\ seen' \in IF Over THEN {seen} ELSE {seen, TRUE}
  /\ UNCHANGED <<lookup, pc, again, attempt, left, found, heard, streamVars,
                 pollLeft, endVars>>

AskRefused ==
  /\ pc = "asking"
  /\ round # {}
  /\ ~Over
  /\ PollFails("auth")
  /\ UNCHANGED <<lookup, again, attempt, left, found, heard, streamVars, pollVars>>

\* A round is over: the clips of those that have some, or a pause.
RoundEnds ==
  /\ pc = "asking"
  /\ round = {}
  /\ pc' = IF seen THEN "loading" ELSE "pausing"
  /\ UNCHANGED <<lookup, again, attempt, left, found, heard, streamVars, pollVars, endVars>>

\* The pause's timer and the context's end: select takes either.
Resume ==
  /\ pc = "pausing"
  /\ \/ Over /\ PollFails("stopped") /\ UNCHANGED round
     \/ pollLeft = 0 /\ PollFails("failed") /\ UNCHANGED round
     \/ /\ pollLeft > 0
        /\ pc' = "asking"
        /\ round' = PollIds(heard)
        /\ UNCHANGED endVars
  /\ UNCHANGED <<lookup, again, attempt, left, found, heard, streamVars, seen, pollLeft>>
-----------------------------------------------------------------------------
(* GetClips, and what buildClipOutput makes of its answer.                  *)

\* Clips with audio that can be cached; or none, or none that can.
Loaded ==
  /\ pc = "loading"
  /\ \E result \in {"clips", "failed"} : End(result)
  /\ UNCHANGED <<lookup, again, attempt, left, found, heard, streamVars, pollVars, refused>>

LoadFails ==
  /\ pc = "loading"
  /\ \E kind \in Errors \cup {"auth"} : CallFails("loading", kind)
  /\ UNCHANGED <<lookup, attempt, left, found, heard, streamVars, pollVars>>
-----------------------------------------------------------------------------
(* Time, and the caller.                                                    *)

Less(n) == IF n > 0 THEN n - 1 ELSE 0

\* No tick falls between Scan and Reset.
Tick ==
  /\ pc \notin {"stopping", "checking", "resetting", "done"}
  /\ left' = Less(left)
  /\ timer' = IF timer > 1 THEN timer - 1 ELSE timer
  /\ pollLeft' = Less(pollLeft)
  /\ quiet' = IF pc \in Reading /\ quiet < Idle THEN quiet + 1 ELSE quiet
  /\ silent' = (silent \/ (pc \in Reading /\ quiet + 1 >= Idle))
  /\ UNCHANGED <<lookup, pc, again, attempt, found, heard, callback, idleTimedOut,
                 cut, round, seen, endVars>>

\* The client leaves.
Cancel ==
  /\ pc # "done"
  /\ ~Over
  /\ left' = 0
  /\ UNCHANGED <<lookup, pc, again, attempt, found, heard, streamVars, pollVars, endVars>>
-----------------------------------------------------------------------------
Start == (\E ids \in Found : Started(ids)) \/ StartFails
Stream == OpenFails \/ OpenRefused \/ Open
ReadLine == StopTimer \/ CheckTimedOut \/ ResetTimer \/ Handle
Callback == Fire \/ StoreTimedOut \/ CancelStream
PollStep == (\E id \in round : Ask(id)) \/ AskRefused \/ RoundEnds \/ Resume
Load == Loaded \/ LoadFails

\* What happens whether or not upstream ever says a word again.
Requested == Start \/ Stream \/ ReadLine \/ PollStep \/ Load \/ Retry

Done == pc = "done" /\ UNCHANGED vars

Next == Requested \/ Callback \/ Refusal \/ Line \/ StreamEnds \/ ScanFails
        \/ Tick \/ Cancel \/ Done

Spec == Init /\ [][Next]_vars

\* Requests have the HTTP client's timeout; the stream, and the body of an
\* error, end with a context: what was received before it ended is finite.  Time
\* passes, though never while a line is between Scan and Reset.
ContextEnds ==
  \/ (Over \/ cut) /\ ScanFails
  \/ Over /\ Refusal

Fairness ==
  /\ WF_vars(Requested)
  /\ WF_vars(Callback)
  /\ SF_vars(ContextEnds)
  /\ SF_vars(Tick)

FairSpec == Spec /\ Fairness
-----------------------------------------------------------------------------
\* A reader that waits for a line is never left without a guard: the idle timer
\* runs, or its callback is on the way, or the stream was cancelled, however
\* the callback and resetIdleTimer interleave.
StreamIsGuarded ==
  Idle > 0 /\ pc \in {"scanning", "handling"} => timer > 0 \/ callback # "none" \/ cut

\* A stream is cut only if no line was read from it for the idle timeout.
CutMeansSilence == idleTimedOut \/ cut => silent

\* Once upstream answered 401 or 403 nothing more is asked of it with this account, and
\* the attempt ends with that error, so that the next account is tried: whatever was
\* asked, and though the client leaves or the context ends while the answer's body is
\* still read.  Only the poll for the ids of lyrics, under way when it was met, hides it.
AuthFailureEndsAttempt ==
  refused => \/ pc = "forbidden"
             \/ outcome = "auth"
             \/ outcome = "failed" /\ Ops(found, heard) = {} /\ round # {}

\* The attempt ends, though upstream sends lines for ever or none at all: this
\* is what the account pool assumes of the work of its calls.
AttemptEnds == <>(pc = "done")
=============================================================================
