------------------------------ MODULE GuestQuota ------------------------------
(***************************************************************************)
(* The guest trial of internal/httpapi: handleGuestChatCompletions and     *)
(* handleGuestAudioGenerations (handlers.go), guestDailyLimitReached and   *)
(* acquireGuestSlot (server.go), and the counters of guest_usage.          *)
(*                                                                         *)
(* Each guest request is a goroutine.  It looks at the day's counters, its *)
(* own IP's and then everybody's, takes the one slot of its IP in memory,  *)
(* generates, counts itself, and releases the slot when the handler        *)
(* returns or panics.  The counters are read before the slot is taken and  *)
(* written at the end, so nothing ties a count to the read that allowed it.*)
(*                                                                         *)
(* The limits are fixed: what a change of the admin's does to requests     *)
(* under way is not modelled.  Only today's rows of guest_usage are kept.  *)
(***************************************************************************)
EXTENDS Naturals, FiniteSets

CONSTANTS
  GuestRequest,     \* guest requests (each may be sent again once answered)
  IP,          \* client addresses, as guestClientKey sees them
  NoIP,        \* a request that is not being served
  MaxDaily,    \* max_daily_guest_uses, 0 for no limit
  GlobalMax,   \* guest_global_daily_limit, 0 for no limit
  MaxCount     \* bound of the model: the counters saturate here

ASSUME GuestAssumption ==
  /\ NoIP \notin IP
  /\ MaxDaily \in Nat /\ GlobalMax \in Nat /\ MaxCount \in Nat
  /\ IsFiniteSet(GuestRequest) /\ IsFiniteSet(IP)

VARIABLES
  enabled,     \* admin_config.guest_trial_enabled
  used,        \* today's use_count of every IP
  slot,        \* the keys of Server.guestBusy
  pc,          \* where each request stands
  ip,          \* the address it came from
  gone,        \* its client disconnected: r.Context() is canceled
  failedOpen   \* history: a read of the counters failed for a live request

guestVars == <<enabled, used, slot, pc, ip, gone, failedOpen>>

GuestSteps == {"idle", "ipLimit", "globalLimit", "admitted", "running", "counting",
          "releasing"}

GuestTypeOK ==
  /\ enabled \in BOOLEAN
  /\ used \in [IP -> 0 .. MaxCount]
  /\ slot \in SUBSET IP
  /\ pc \in [GuestRequest -> GuestSteps]
  /\ ip \in [GuestRequest -> IP \cup {NoIP}]
  /\ gone \in [GuestRequest -> BOOLEAN]
  /\ failedOpen \in BOOLEAN
  /\ \A r \in GuestRequest : ip[r] = NoIP <=> pc[r] = "idle"

GuestInit ==
  /\ enabled \in BOOLEAN
  /\ used = [i \in IP |-> 0]
  /\ slot = {}
  /\ pc = [r \in GuestRequest |-> "idle"]
  /\ ip = [r \in GuestRequest |-> NoIP]
  /\ gone = [r \in GuestRequest |-> FALSE]
  /\ failedOpen = FALSE

\* The uses counted today, each with the address it is counted for.
Uses == {u \in IP \X (1 .. MaxCount) : u[2] <= used[u[1]]}

\* GetTodayGlobalGuestUsage: SUM(use_count) over the day's rows.
Total == Cardinality(Uses)
-----------------------------------------------------------------------------
\* guestTrialEnabled; a disabled trial, or a failed read, answers 403.
Arrive(r, i) ==
  /\ pc[r] = "idle"
  /\ enabled
  /\ pc' = [pc EXCEPT ![r] = "ipLimit"]
  /\ ip' = [ip EXCEPT ![r] = i]
  /\ gone' = [gone EXCEPT ![r] = FALSE]
  /\ UNCHANGED <<enabled, used, slot, failedOpen>>

\* Mutant of Answer: the address of an answered request lingers.
AnswerOnly(r) ==
  /\ pc' = [pc EXCEPT ![r] = "idle"]
  /\ gone' = [gone EXCEPT ![r] = FALSE]
  /\ UNCHANGED ip

\* The handler returns.
Answer(r) ==
  /\ pc' = [pc EXCEPT ![r] = "idle"]
  /\ ip' = [ip EXCEPT ![r] = NoIP]
  /\ gone' = [gone EXCEPT ![r] = FALSE]

Proceed(r, place) == pc' = [pc EXCEPT ![r] = place] /\ UNCHANGED <<ip, gone>>

\* A request that compares a counter with its limit.  A read that fails (it
\* always does once the client is gone) lets the request through.
Check(r, count, limit, next) ==
  \/ /\ ~gone[r]
     /\ IF limit > 0 /\ count >= limit THEN Answer(r) ELSE Proceed(r, next)
     /\ UNCHANGED failedOpen
  \/ /\ Proceed(r, next)
     /\ failedOpen' = (failedOpen \/ ~gone[r])

\* Mutant of CheckIP: the limit is the first count that is refused, plus one.
CheckIPLate(r) ==
  /\ pc[r] = "ipLimit"
  /\ Check(r, used[ip[r]], IF MaxDaily = 0 THEN 0 ELSE MaxDaily + 1, "globalLimit")
  /\ UNCHANGED <<enabled, used, slot>>

\* guestDailyLimitReached, per address.
CheckIP(r) ==
  /\ pc[r] = "ipLimit"
  /\ Check(r, used[ip[r]], MaxDaily, "globalLimit")
  /\ UNCHANGED <<enabled, used, slot>>

\* Mutant of CheckGlobal: it compares the address's own counter.
CheckGlobalOwn(r) ==
  /\ pc[r] = "globalLimit"
  /\ Check(r, used[ip[r]], GlobalMax, "admitted")
  /\ UNCHANGED <<enabled, used, slot>>

\* guestDailyLimitReached, over all addresses.
CheckGlobal(r) ==
  /\ pc[r] = "globalLimit"
  /\ Check(r, Total, GlobalMax, "admitted")
  /\ UNCHANGED <<enabled, used, slot>>

\* Mutant of AcquireSlot: the release is deferred before ok is looked at.
AcquireSlotAnyway(r) ==
  /\ pc[r] = "admitted"
  /\ IF ip[r] \in slot
       THEN Answer(r) /\ slot' = slot \ {ip[r]}
       ELSE Proceed(r, "running") /\ slot' = slot \cup {ip[r]}
  /\ UNCHANGED <<enabled, used, failedOpen>>

\* acquireGuestSlot: test and set under guestMu; a second request is refused,
\* and the release it gets does nothing.
AcquireSlot(r) ==
  /\ pc[r] = "admitted"
  /\ IF ip[r] \in slot
       THEN Answer(r) /\ UNCHANGED slot
       ELSE Proceed(r, "running") /\ slot' = slot \cup {ip[r]}
  /\ UNCHANGED <<enabled, used, failedOpen>>

\* handleChatCompletions or handleAudioGenerations returned, however it went.
Generated(r) ==
  /\ pc[r] = "running"
  /\ Proceed(r, "counting")
  /\ UNCHANGED <<enabled, used, slot, failedOpen>>

\* Mutant of Panic: without defer the slot outlives the request.
PanicHolding(r) ==
  /\ pc[r] = "running"
  /\ Answer(r)
  /\ UNCHANGED <<enabled, used, slot, failedOpen>>

\* The generation panics: the deferred release runs, the count does not.
Panic(r) ==
  /\ pc[r] = "running"
  /\ Proceed(r, "releasing")
  /\ UNCHANGED <<enabled, used, slot, failedOpen>>

Counted(n) == IF n >= MaxCount THEN MaxCount ELSE n + 1

\* incrementGuestUsage, whose error (a gone client's, or the database's) is
\* ignored.
Count(r) ==
  /\ pc[r] = "counting"
  /\ Proceed(r, "releasing")
  /\ \/ ~gone[r] /\ used' = [used EXCEPT ![ip[r]] = Counted(@)]
     \/ UNCHANGED used
  /\ UNCHANGED <<enabled, slot, failedOpen>>

\* The deferred release.
ReleaseSlot(r) ==
  /\ pc[r] = "releasing"
  /\ slot' = slot \ {ip[r]}
  /\ Answer(r)
  /\ UNCHANGED <<enabled, used, failedOpen>>
-----------------------------------------------------------------------------
Disconnect(r) ==
  /\ pc[r] # "idle"
  /\ ~gone[r]
  /\ gone' = [gone EXCEPT ![r] = TRUE]
  /\ UNCHANGED <<enabled, used, slot, pc, ip, failedOpen>>

\* Midnight: date('now') selects rows that do not exist yet.
NextDay ==
  /\ used' = [i \in IP |-> 0]
  /\ UNCHANGED <<enabled, slot, pc, ip, gone, failedOpen>>

\* The process ends, and with it the requests and the slots; the counters are in
\* the database.
Restart ==
  /\ slot' = {}
  /\ pc' = [r \in GuestRequest |-> "idle"]
  /\ ip' = [r \in GuestRequest |-> NoIP]
  /\ gone' = [r \in GuestRequest |-> FALSE]
  /\ UNCHANGED <<enabled, used, failedOpen>>

\* handleUpdateAdminConfig switches the trial on or off.
Toggle ==
  /\ enabled' = ~enabled
  /\ UNCHANGED <<used, slot, pc, ip, gone, failedOpen>>

Serve(r) == CheckIP(r) \/ CheckGlobal(r) \/ AcquireSlot(r) \/ Generated(r)
            \/ Panic(r) \/ Count(r) \/ ReleaseSlot(r)

GuestNext ==
  \/ \E r \in GuestRequest : (\E i \in IP : Arrive(r, i)) \/ Serve(r) \/ Disconnect(r)
  \/ NextDay
  \/ Restart
  \/ Toggle

GuestSpec == GuestInit /\ [][GuestNext]_guestVars

\* A runnable handler runs, and a generation ends (at the latest with its
\* timeout: AccountPool!EveryCallReturns).
GuestFairness == \A r \in GuestRequest : WF_guestVars(Serve(r))

GuestFairSpec == GuestSpec /\ GuestFairness
-----------------------------------------------------------------------------
\* The requests that own the slot of their address.
Owners == {r \in GuestRequest : pc[r] \in {"running", "counting", "releasing"}}

\* Two requests of one address never generate at the same time ("guest trial
\* already has a running generation from this IP").
OneRunningPerIP ==
  \A r, s \in Owners : r # s => ip[r] # ip[s]

SlotTableIsExact == slot = {ip[r] : r \in Owners}

\* The slot table holds the addresses of the requests under way, each for one
\* of them, and nothing else, whoever is refused, leaves or panics in between: no
\* path leaks a slot, none gives back somebody else's.
SlotsAreOwned == SlotTableIsExact /\ OneRunningPerIP

\* Requests of address i that passed the check of their own counter and will
\* still count themselves.
Uncounted(i) ==
  {r \in GuestRequest : /\ ip[r] = i
                   /\ pc[r] \in {"globalLimit", "admitted", "running", "counting"}
                   /\ ~gone[r]}

\* Requests of any address that passed the check of the sum.
UncountedGlobally ==
  {r \in GuestRequest : pc[r] \in {"admitted", "running", "counting"} /\ ~gone[r]}

\* The daily limit of an address is overrun by less than the number of requests
\* served at once, as long as the counters can be read: every request in excess
\* read its counter while another one, allowed before it, was not yet counted.
IPOvershootIsBounded ==
  MaxDaily > 0 /\ ~failedOpen =>
    \A i \in IP :
      used[i] + Cardinality(Uncounted(i)) <= MaxDaily - 1 + Cardinality(GuestRequest)

\* Likewise the global limit, where not even the slots help.
GlobalOvershootIsBounded ==
  GlobalMax > 0 /\ ~failedOpen =>
    Total + Cardinality(UncountedGlobally) <= GlobalMax - 1 + Cardinality(GuestRequest)

\* A slot that is taken is given back.
SlotsAreFreed == \A i \in IP : i \in slot ~> i \notin slot
=============================================================================
