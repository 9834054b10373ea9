----------------------------- MODULE Configuration -----------------------------
(***************************************************************************)
(* The administrators' settings: the one-row tables of internal/store/     *)
(* config_store.go and the handlers that update them (httpapi/handlers.go),*)
(* across the starts of StartUp.                                           *)
(*                                                                         *)
(* An update writes several columns in one statement.  Of those its request*)
(* does not mention, it writes some back as it read them, in a statement of*)
(* its own and without a transaction, and the others as Go left the fields.*)
(* Columns do not influence one another but for the URLs another field may *)
(* rule out, so a behaviour watches one column and the updates that write  *)
(* it.                                                                     *)
(***************************************************************************)
EXTENDS StartUp

CONSTANTS
  Request,       \* updates (each may be sent again once answered)
  SettingsTable, \* the table of the watched column
  Value,         \* what a column may hold, once the store has tidied it up
  Zero,          \* what a field of a Go struct holds that was never set
  Default,       \* what EnsureDefaults inserts
  Unset          \* there is no row yet

ASSUME SettingsAssumption ==
  /\ SettingsTable \in Config
  /\ Zero \in Value /\ Default \in Value /\ Unset \notin Value

VARIABLES
  watched,   \* the column that is watched
  value,     \* what it holds
  request,   \* the updates under way
  asked,     \* history: what the last update that mentions it asked for
  past,      \* history: what it has ever held
  causes     \* history: why it may have changed since then: an update "reset" it, or
             \* wrote it back from a "stale" copy, or having read "nothing"

settingsVars == <<watched, value, request, asked, past, causes>>
vars == <<startVars, settingsVars>>

\* The columns of the tables; those that every update treats alike are one.
AdminColumns == {"username", "api_key", "debug_enabled", "limits"}
CacheColumns == {"cache_enabled", "base_url", "storage", "s3_public_base_url"}
CacheSettings == CacheColumns \cup {"s3_secret_key"}
Settings == AdminColumns \cup CacheSettings \cup
  {"password_hash", "switches", "times", "timeouts", "proxy_switches", "proxy_urls",
   "call_mode"}

\* What an update does: the columns its request has to mention, those it keeps and
\* those it resets if the request leaves them out, those it writes back whatever the
\* request says, those another field of the request may rule out, and whether it goes on
\* if it cannot read the row.
Idle == [must |-> {}, keeps |-> {}, resets |-> {}, back |-> {}, voids |-> {}, blind |-> FALSE]

\* The body is decoded into an empty struct, and the statement writes all of it.
Replace(fields) == [Idle EXCEPT !.resets = fields]

AdminUpdates ==
  {[Idle EXCEPT !.keeps = AdminColumns],
   [Replace({"password_hash"}) EXCEPT !.keeps = {"username"}],
   [Idle EXCEPT !.must = {"api_key"}],
   Replace({"debug_enabled"})}

\* One handler, which ignores the error of its read, and one statement, which writes
\* the whole row and blanks the public URL of an r2 storage.
CacheUpdate(keeps, resets) ==
  [keeps |-> keeps, resets |-> resets, back |-> CacheSettings \ (keeps \cup resets),
   must |-> {}, voids |-> {"s3_public_base_url"}, blind |-> TRUE]

\* Mutant of CacheUpdates: the stored secret does not stand in for an empty one.
CacheUpdatesForgetful ==
  {CacheUpdate({}, CacheSettings),
   CacheUpdate({}, {"cache_enabled"}), CacheUpdate({}, {"base_url"})}

CacheUpdates ==
  {CacheUpdate({"s3_secret_key"}, CacheColumns),
   CacheUpdate({}, {"cache_enabled"}), CacheUpdate({}, {"base_url"})}

\* Mutant of RefreshUpdates: the switch is written though the row could not be read.
RefreshUpdatesBlind ==
  {Replace({"switches", "times"}),
   [Replace({"switches"}) EXCEPT !.back = {"times"}, !.blind = TRUE]}

RefreshUpdates ==
  {Replace({"switches", "times"}), [Replace({"switches"}) EXCEPT !.back = {"times"}]}

\* The URL of a proxy that is switched off is blanked.
ProxyUpdate == [Replace({"proxy_switches", "proxy_urls"}) EXCEPT !.voids = {"proxy_urls"}]

\* The updates of handlers.go.
Updates ==
  AdminUpdates \cup CacheUpdates \cup RefreshUpdates \cup
  {Replace({"timeouts"}), Replace({"call_mode"}), ProxyUpdate}

Nobody == [update |-> Idle, copy |-> Zero, seen |-> "nothing"]

TypeOK ==
  /\ StartTypeOK
  /\ watched \in Settings
  /\ value \in Value \cup {Unset}
  /\ request \in [Request -> [update : Updates \cup {Idle}, copy : Value,
                              seen : {"fresh", "stale", "nothing"}]]
  /\ asked \in Value \cup {Unset}
  /\ past \subseteq Value
  /\ causes \subseteq {"reset", "stale", "nothing"}
  /\ value = Unset <=> SettingsTable \notin filled
  /\ \A r \in Request : request[r] # Nobody => stage = "up"

Init ==
  /\ StartInit
  /\ watched \in Settings
  /\ IF SettingsTable \in filled THEN value \in Value ELSE value = Unset
  /\ request = [r \in Request |-> Nobody]
  /\ asked = value
  /\ past = {value} \ {Unset}
  /\ causes = {}
-----------------------------------------------------------------------------
(* Updates.                                                                 *)

\* What becomes of a field that is left out: the store puts a default or the sum of the
\* other timeouts in the place of some zeroes, and the hash of an empty password is none.
LeftOut ==
  IF watched \in {"timeouts", "times", "storage", "call_mode", "password_hash"}
    THEN Value ELSE {Zero}

\* The row is read, where the update does that, and then the body of the request.
Receive(r, u) ==
  /\ stage = "up"
  /\ request[r] = Nobody
  /\ watched \in u.must \cup u.keeps \cup u.resets \cup u.back
  /\ \/ /\ u.keeps \cup u.back # {}
        /\ request' = [request EXCEPT ![r] = [update |-> u, copy |-> value, seen |-> "fresh"]]
     \/ /\ u.blind \/ u.keeps \cup u.back = {}
        /\ \E copy \in LeftOut :
             request' = [request EXCEPT ![r] = [update |-> u, copy |-> copy, seen |-> "nothing"]]
  /\ UNCHANGED <<watched, value, asked, past, causes>>

\* A body that cannot be read, a wrong old password, a value that is refused, or a
\* statement that fails.
Refuse(r) ==
  /\ request[r] # Nobody
  /\ request' = [request EXCEPT ![r] = Nobody]
  /\ UNCHANGED <<watched, value, asked, past, causes>>

\* The statement writes v.  What other updates under way have read is old from then on.
Write(r, v) ==
  /\ request[r] # Nobody
  /\ value' = v
  /\ past' = past \cup {v}
  /\ request' = [q \in Request |->
                   IF q = r THEN Nobody
                   ELSE IF request[q].seen = "fresh" THEN [request[q] EXCEPT !.seen = "stale"]
                   ELSE request[q]]
  /\ UNCHANGED watched

\* The request mentions the column.
WriteAsked(r) ==
  /\ watched \in request[r].update.must \cup request[r].update.keeps \cup request[r].update.resets
  /\ \E v \in Value : Write(r, v) /\ asked' = v
  /\ causes' = {}

\* The request replaces the column and leaves it out, or rules it out.
Reset(r) ==
  /\ watched \in request[r].update.resets \cup request[r].update.voids
  /\ \E v \in LeftOut : Write(r, v)
  /\ causes' = causes \cup {"reset"}
  /\ UNCHANGED asked

\* Mutant of WriteBack: the fields a request leaves out are written as Go left them.
WriteZero(r) ==
  /\ watched \in request[r].update.keeps \cup request[r].update.back
  /\ Write(r, Zero)
  /\ causes' = causes \cup ({request[r].seen} \ {"fresh"})
  /\ UNCHANGED asked

\* The request leaves it out, and the update writes what it read.
WriteBack(r) ==
  /\ watched \in request[r].update.keeps \cup request[r].update.back
  /\ Write(r, request[r].copy)
  /\ causes' = causes \cup ({request[r].seen} \ {"fresh"})
  /\ UNCHANGED asked

Handle(r) ==
  (\E u \in Updates : Receive(r, u)) \/ Refuse(r) \/ WriteAsked(r) \/ Reset(r) \/ WriteBack(r)
-----------------------------------------------------------------------------
(* Starts.                                                                  *)

\* Mutant of Settle: the defaults replace the row at every start.
SettleAnew ==
  /\ IF stage = "rows" /\ SettingsTable \in todo \ todo'
       THEN /\ value' = Default /\ past' = past \cup {Default}
            /\ asked' = IF value = Unset THEN Default ELSE asked
       ELSE UNCHANGED <<value, past, asked>>
  /\ request' = IF stage' = "down" THEN [r \in Request |-> Nobody] ELSE request
  /\ UNCHANGED <<watched, causes>>

\* What a step of StartUp does to the settings: a row that is missing is inserted
\* with the defaults, and a process that stops takes its requests along.
Settle ==
  /\ IF SettingsTable \in filled' \ filled
       THEN value' = Default /\ past' = past \cup {Default} /\ asked' = Default
       ELSE UNCHANGED <<value, past, asked>>
  /\ request' = IF stage' = "down" THEN [r \in Request |-> Nobody] ELSE request
  /\ UNCHANGED <<watched, causes>>

Next ==
  \/ StartNext /\ Settle
  \/ (\E r \in Request : Handle(r)) /\ UNCHANGED startVars

Spec == Init /\ [][Next]_vars

\* The process runs, and is started again when it ends (restart: unless-stopped in
\* docker-compose.yml).
Fairness == WF_vars(StartStep /\ Settle)

FairSpec == Spec /\ Fairness
-----------------------------------------------------------------------------
\* A setting is what the last update to mention it asked for, however many updates of
\* other settings, crashes and starts came since, with three exceptions.  An update that
\* replaces its row leaves it out: never the secret, nor what an administrator's update
\* keeps.  One that overlapped another brings an older value back, and no other.  One of
\* the cache's configuration went on after a failed read.
SettingsAreKept ==
  value # asked =>
    \/ "reset" \in causes /\ watched \notin {"username", "api_key", "limits", "s3_secret_key"}
    \/ "stale" \in causes /\ value \in past
    \/ "nothing" \in causes /\ watched \in CacheSettings

\* From any state of the database a start gets through, once nothing fails any
\* more: no statement depends on one that comes later.
StartsUnlessDisturbed == <>[][~Stop]_vars => <>[](stage = "up")
=============================================================================
