------------------------------ MODULE MediaCache ------------------------------
(***************************************************************************)
(* The local media cache of internal/storage/cache.go: CacheURL downloads  *)
(* a medium into a temporary file of the cache directory and moves it to   *)
(* the name under which the file server hands it out; an hourly sweep      *)
(* removes files that are too old.  Neither takes a lock: they meet in the *)
(* file system alone.                                                      *)
(*                                                                         *)
(* A medium's name is a hash of its URL and size, so downloads of one      *)
(* medium write the same bytes to the same name.  A file is what it holds  *)
(* (the download still writing it, "whole" or "torn") and the time since   *)
(* it was last written.                                                    *)
(***************************************************************************)
EXTENDS Naturals

CONSTANTS
  Download,    \* calls of CacheURL (each may run again)
  Medium,      \* names of cached media
  Temp,        \* names os.CreateTemp may choose, never one in use
  Nothing,     \* no file, no name
  Timeouts,    \* values of cache_config.timeout; 0 switches the sweep off
  Fallback,    \* fallbackMaxAge, used when the configuration cannot be read
  MaxAge       \* bound of the model: ages saturate here

ASSUME CacheAssumption ==
  /\ Medium \cap Temp = {}
  /\ Nothing \notin Medium \cup Temp \cup Nat
  /\ Nothing \notin [holds : Download \cup {"whole", "torn"}, age : 0 .. MaxAge]
  /\ Download \cap {"whole", "torn"} = {}
  /\ MaxAge \in Nat
  /\ Timeouts \subseteq Nat
  /\ Fallback \in Nat \ {0}
  /\ \A t \in Timeouts \cup {Fallback} : t < MaxAge

VARIABLES
  dir,         \* the cache directory
  config,      \* cache_config: its timeout, or Nothing while the cache is off
  pc,          \* where each download stands
  medium,      \* the medium it caches
  temp,        \* its temporary file
  sweep,       \* files the running sweep has still to look at
  limit,       \* maxAge of that sweep, 0 when none runs
  doomed,      \* the file it found too old and is about to remove
  overtaken,   \* history: that file was written again in between
  crossed,     \* history: a rename failed although its source was there
  orphans      \* history: temporary files a crash left behind

vars == <<dir, config, pc, medium, temp, sweep, limit, doomed, overtaken,
          crossed, orphans>>
sweepVars == <<sweep, limit, doomed>>

Entry == Medium \cup Temp
File == [holds : Download \cup {"whole", "torn"}, age : 0 .. MaxAge]

TypeOK ==
  /\ dir \in [Entry -> File \cup {Nothing}]
  /\ config \in Timeouts \cup {Nothing}
  /\ pc \in [Download -> {"idle", "fetching", "writing", "storing", "opening", "copying"}]
  /\ medium \in [Download -> Medium \cup {Nothing}]
  /\ temp \in [Download -> Temp \cup {Nothing}]
  /\ sweep \subseteq Entry
  /\ limit \in Timeouts \cup {Fallback, 0}
  /\ doomed \in Entry \cup {Nothing}
  /\ overtaken \in BOOLEAN
  /\ crossed \in BOOLEAN
  /\ orphans \subseteq Temp
  /\ \A d \in Download : /\ medium[d] = Nothing <=> pc[d] = "idle"
                         /\ temp[d] = Nothing <=> pc[d] \in {"idle", "fetching"}

Present == {e \in Entry : dir[e] # Nothing}

Init ==
  /\ dir = [e \in Entry |-> Nothing]
  /\ config \in Timeouts \cup {Nothing}
  /\ pc = [d \in Download |-> "idle"]
  /\ medium = [d \in Download |-> Nothing]
  /\ temp = [d \in Download |-> Nothing]
  /\ sweep = {}
  /\ limit = 0
  /\ doomed = Nothing
  /\ overtaken = FALSE
  /\ crossed = FALSE
  /\ orphans = {}
-----------------------------------------------------------------------------
(* CacheURL.                                                                *)

\* The configuration was read, and the cache is on: the download is requested.
Begin(d, m) ==
  /\ pc[d] = "idle"
  /\ config # Nothing
  /\ pc' = [pc EXCEPT ![d] = "fetching"]
  /\ medium' = [medium EXCEPT ![d] = m]
  /\ UNCHANGED <<dir, config, temp, sweepVars, overtaken, crossed, orphans>>

New(d) == [holds |-> d, age |-> 0]
Whole == [holds |-> "whole", age |-> 0]

\* Mutant of CreateTemp: an error of createTempFile is ignored.
CreateTempAnyway(d, t) ==
  /\ pc[d] = "fetching"
  /\ pc' = [pc EXCEPT ![d] = "writing"]
  /\ UNCHANGED <<dir, config, medium, temp, sweepVars, overtaken, crossed, orphans>>

\* Upstream answers 2xx, and createTempFile makes a file nobody else has.
CreateTemp(d, t) ==
  /\ pc[d] = "fetching"
  /\ dir[t] = Nothing
  /\ \A e \in Download : temp[e] # t
  /\ dir' = [dir EXCEPT ![t] = New(d)]
  /\ temp' = [temp EXCEPT ![d] = t]
  /\ pc' = [pc EXCEPT ![d] = "writing"]
  /\ UNCHANGED <<config, medium, sweepVars, overtaken, crossed, orphans>>

\* What is written to a file that was removed is written to no name.
WriteTemp(d, file) ==
  dir' = [e \in Entry |-> IF e = temp[d] /\ dir[e] # Nothing THEN file ELSE dir[e]]

\* io.Copy, a piece at a time (a piece of any size at any time).
Receive(d) ==
  /\ pc[d] = "writing"
  /\ WriteTemp(d, New(d))
  /\ UNCHANGED <<config, pc, medium, temp, sweepVars, overtaken, crossed, orphans>>

\* io.Copy returned without an error and within maxCacheBytes.
Received(d) ==
  /\ pc[d] = "writing"
  /\ WriteTemp(d, Whole)
  /\ pc' = [pc EXCEPT ![d] = "storing"]
  /\ UNCHANGED <<config, medium, temp, sweepVars, overtaken, crossed, orphans>>

\* CacheURL returns, its deferred os.Remove included; files is the directory
\* before that.
Leave(d, files) ==
  /\ dir' = [e \in Entry |-> IF e = temp[d] THEN Nothing ELSE files[e]]
  /\ pc' = [pc EXCEPT ![d] = "idle"]
  /\ medium' = [medium EXCEPT ![d] = Nothing]
  /\ temp' = [temp EXCEPT ![d] = Nothing]

\* An error of upstream, the context or the disk, a medium that is too large,
\* a file that cannot be opened; or the file went to S3.
GiveUp(d) ==
  /\ pc[d] \notin {"idle", "copying"}
  /\ Leave(d, dir)
  /\ UNCHANGED <<config, sweepVars, overtaken, crossed, orphans>>

\* m's name has got new contents.
Rewritten(m) == overtaken' = (overtaken \/ doomed = m)

\* replaceFile: the rename succeeds, replacing what the name had.
Rename(d) ==
  LET m == medium[d]
      source == dir[temp[d]]
  IN  /\ pc[d] = "storing"
      /\ source # Nothing
      /\ Leave(d, [dir EXCEPT ![m] = source])
      /\ Rewritten(m)
      /\ UNCHANGED <<config, sweepVars, crossed, orphans>>

\* The rename fails: the sweep removed the source, or the system refused it
\* (another file system, a target that is open).
RenameFails(d) ==
  /\ pc[d] = "storing"
  /\ pc' = [pc EXCEPT ![d] = "opening"]
  /\ crossed' = (crossed \/ dir[temp[d]] # Nothing)
  /\ UNCHANGED <<dir, config, medium, temp, sweepVars, overtaken, orphans>>

\* Mutant of OpenBoth: the target is opened, and truncated, first.
OpenTarget(d) ==
  /\ pc[d] = "opening"
  /\ dir' = [dir EXCEPT ![medium[d]] = New(d)]
  /\ Rewritten(medium[d])
  /\ pc' = [pc EXCEPT ![d] = "copying"]
  /\ UNCHANGED <<config, medium, temp, sweepVars, crossed, orphans>>

\* It opens the source, if there is one, and only then truncates the target.
OpenBoth(d) ==
  /\ pc[d] = "opening"
  /\ dir[temp[d]] # Nothing
  /\ dir' = [dir EXCEPT ![medium[d]] = New(d)]
  /\ Rewritten(medium[d])
  /\ pc' = [pc EXCEPT ![d] = "copying"]
  /\ UNCHANGED <<config, medium, temp, sweepVars, crossed, orphans>>

\* The copy in place ends, well or (torn) with an error.  It is no longer this
\* copy that decides what the name holds if another one truncated the file, or
\* a rename replaced it, or the sweep removed it.
Copied(d) ==
  LET m == medium[d]
  IN  /\ pc[d] = "copying"
      /\ IF dir[m] # Nothing /\ dir[m].holds = d
           THEN /\ \E result \in {"whole", "torn"} :
                     Leave(d, [dir EXCEPT ![m] = [holds |-> result, age |-> 0]])
                /\ Rewritten(m)
           ELSE Leave(d, dir) /\ UNCHANGED overtaken
      /\ UNCHANGED <<config, sweepVars, crossed, orphans>>
-----------------------------------------------------------------------------
(* CleanupLoopWithStore.                                                    *)

\* The ticker fires: WalkDir lists the directory.
Wake ==
  /\ limit = 0
  /\ limit' \in {config, Fallback} \ {Nothing, 0}
  /\ sweep' = Present
  /\ UNCHANGED <<dir, config, pc, medium, temp, doomed, overtaken, crossed, orphans>>

\* Mutant of TooOld: a file of exactly that age is removed.
TooOldAlready(e) == dir[e] # Nothing /\ dir[e].age >= limit

TooOld(e) == dir[e] # Nothing /\ dir[e].age > limit

\* Mutant of Look: temporary files are skipped.
LookAtMedia(e) ==
  /\ doomed = Nothing
  /\ e \in sweep
  /\ sweep' = sweep \ {e}
  /\ doomed' = IF TooOld(e) /\ e \in Medium THEN e ELSE Nothing
  /\ overtaken' = FALSE
  /\ UNCHANGED <<dir, config, pc, medium, temp, limit, crossed, orphans>>

\* The next file's modification time is read ...
Look(e) ==
  /\ doomed = Nothing
  /\ e \in sweep
  /\ sweep' = sweep \ {e}
  /\ doomed' = IF TooOld(e) THEN e ELSE Nothing
  /\ overtaken' = FALSE
  /\ UNCHANGED <<dir, config, pc, medium, temp, limit, crossed, orphans>>

\* ... and the file of that name, whichever it is by now, removed.
Remove ==
  /\ doomed # Nothing
  /\ dir' = [dir EXCEPT ![doomed] = Nothing]
  /\ doomed' = Nothing
  /\ orphans' = orphans \ {doomed}
  /\ UNCHANGED <<config, pc, medium, temp, sweep, limit, overtaken, crossed>>

Rest ==
  /\ limit # 0
  /\ sweep = {}
  /\ doomed = Nothing
  /\ limit' = 0
  /\ UNCHANGED <<dir, config, pc, medium, temp, sweep, doomed, overtaken, crossed, orphans>>
-----------------------------------------------------------------------------
\* handleUpdateCacheConfig.
Configure ==
  /\ config' \in Timeouts \cup {Nothing}
  /\ UNCHANGED <<dir, pc, medium, temp, sweepVars, overtaken, crossed, orphans>>

Older(file) ==
  IF file = Nothing \/ file.age = MaxAge THEN file ELSE [file EXCEPT !.age = @ + 1]

Tick ==
  /\ dir' = [e \in Entry |-> Older(dir[e])]
  /\ UNCHANGED <<config, pc, medium, temp, sweepVars, overtaken, crossed, orphans>>

\* The process dies and starts again: the files remain as they were written.
Crash ==
  /\ dir' = [e \in Entry |-> IF dir[e] # Nothing /\ dir[e].holds \in Download
                               THEN [dir[e] EXCEPT !.holds = "torn"] ELSE dir[e]]
  /\ pc' = [d \in Download |-> "idle"]
  /\ medium' = [d \in Download |-> Nothing]
  /\ temp' = [d \in Download |-> Nothing]
  /\ sweep' = {}
  /\ limit' = 0
  /\ doomed' = Nothing
  /\ orphans' = {t \in Temp : dir[t] # Nothing}
  /\ UNCHANGED <<config, overtaken, crossed>>

Cache(d) ==
  \/ \E m \in Medium : Begin(d, m)
  \/ \E t \in Temp : CreateTemp(d, t)
  \/ Receive(d) \/ Received(d) \/ GiveUp(d) \/ Rename(d) \/ RenameFails(d)
  \/ OpenBoth(d) \/ Copied(d)

Sweep == Wake \/ (\E e \in Entry : Look(e)) \/ Remove \/ Rest

Next == (\E d \in Download : Cache(d)) \/ Sweep \/ Configure \/ Tick \/ Crash

Spec == Init /\ [][Next]_vars

\* Time passes, and the ticker fires again and again.
Fairness == WF_vars(Tick) /\ WF_vars(Sweep)

FairSpec == Spec /\ Fairness
-----------------------------------------------------------------------------
\* As long as the system renames what is there to be renamed, a name hands out
\* whole media only: neither two downloads of one medium, nor a crash, nor a
\* sweep that removes the file a slow download is still writing can tear one.
MediaAreWhole ==
  ~crossed => \A m \in Medium : dir[m] # Nothing => dir[m].holds = "whole"

\* A temporary file has a download that will remove it, or a crash took it.
TempsAreOwned ==
  \A t \in Temp : dir[t] # Nothing => t \in orphans \/ \E d \in Download : temp[d] = t

\* The sweep removes a medium before its time only if the medium was stored
\* anew between the look at its age and the removal.
MediaLastTheirTime ==
  [][\A m \in Medium : dir[m] # Nothing /\ dir'[m] = Nothing
       => dir[m].age > limit \/ overtaken]_vars

\* Temporary files that a crash left behind are swept away some day, unless the
\* cache is switched off or told to keep its files, or crashes never end.
OrphansAreSwept ==
  <>[][~Crash]_vars =>
    \A t \in Temp : t \in orphans ~> t \notin orphans \/ config \in {Nothing, 0}
=============================================================================
