--------------------------- MODULE MediaCacheProofs ---------------------------
(***************************************************************************)
(* Proofs about MediaCache, for any downloads, media, names of temporary   *)
(* files and timeouts: typing; that a name hands out whole media; that a   *)
(* temporary file has an owner; that the sweep takes fresh media only when *)
(* they overtook it.                                                       *)
(***************************************************************************)
EXTENDS MediaCache, TLAPS

\* What the proofs use of the constants.
LEMMA ConstantFacts ==
  /\ Medium \cap Temp = {}
  /\ Nothing \notin Medium \cup Temp \cup Nat
  /\ Nothing \notin File
  /\ Download \cap {"whole", "torn"} = {}
  /\ MaxAge \in Nat /\ 0 \in 0 .. MaxAge
  /\ Timeouts \subseteq Nat /\ Fallback \in Nat /\ Fallback # 0
  /\ \A t \in Timeouts \cup {Fallback, 0} : t \in Nat /\ t < MaxAge
BY CacheAssumption DEF File

\* The files the downloads write.
LEMMA NewFiles ==
  /\ \A d \in Download : New(d) \in File /\ New(d) # Nothing
  /\ Whole \in File /\ Whole # Nothing
  /\ \A result \in {"whole", "torn"} : [holds |-> result, age |-> 0] \in File
BY ConstantFacts DEF New, Whole, File

\* What a download that returns leaves behind is well typed.
LEMMA LeaveTypes ==
  ASSUME TypeOK, NEW d \in Download, NEW files \in [Entry -> File \cup {Nothing}],
         Leave(d, files)
  PROVE  /\ dir' \in [Entry -> File \cup {Nothing}]
         /\ pc' \in [Download -> {"idle", "fetching", "writing", "storing", "opening", "copying"}]
         /\ medium' \in [Download -> Medium \cup {Nothing}]
         /\ temp' \in [Download -> Temp \cup {Nothing}]
         /\ \A e \in Download : /\ medium'[e] = Nothing <=> pc'[e] = "idle"
                                /\ temp'[e] = Nothing <=> pc'[e] \in {"idle", "fetching"}
<1> USE ConstantFacts
<1>1. dir' \in [Entry -> File \cup {Nothing}] BY DEF Leave
<1>2. medium' \in [Download -> Medium \cup {Nothing}] BY DEF Leave, TypeOK
<1>3. temp' \in [Download -> Temp \cup {Nothing}] BY DEF Leave, TypeOK
<1>4. pc' \in [Download -> {"idle", "fetching", "writing", "storing", "opening", "copying"}]
  BY DEF Leave, TypeOK
<1>5. \A e \in Download : /\ medium'[e] = Nothing <=> pc'[e] = "idle"
                          /\ temp'[e] = Nothing <=> pc'[e] \in {"idle", "fetching"}
  BY DEF Leave, TypeOK
<1> QED BY <1>1, <1>2, <1>3, <1>4, <1>5

\* A download at work has a medium and, once it created it, a temporary file.
LEMMA Names ==
  ASSUME TypeOK, NEW d \in Download
  PROVE  /\ pc[d] # "idle" => medium[d] \in Medium /\ medium[d] \in Entry
         /\ pc[d] \notin {"idle", "fetching"} => temp[d] \in Temp /\ temp[d] \in Entry
         /\ temp[d] \notin Medium
BY ConstantFacts DEF TypeOK, Entry

\* The initial states are well typed.
LEMMA InitTypeOK == Init => TypeOK
BY ConstantFacts DEF Init, TypeOK

\* Every step keeps the types.
LEMMA NextTypeOK == TypeOK /\ [Next]_vars => TypeOK'
<1> SUFFICES ASSUME TypeOK, [Next]_vars PROVE TypeOK'
  OBVIOUS
<1> USE ConstantFacts, NewFiles
<1>1. ASSUME NEW d \in Download, NEW m \in Medium, Begin(d, m) PROVE TypeOK'
  BY <1>1 DEF Begin, TypeOK, sweepVars
<1>2. ASSUME NEW d \in Download, NEW t \in Temp, CreateTemp(d, t) PROVE TypeOK'
  BY <1>2 DEF CreateTemp, TypeOK, sweepVars, Entry
<1>3. ASSUME NEW d \in Download, Receive(d) PROVE TypeOK'
  BY <1>3 DEF Receive, WriteTemp, TypeOK, sweepVars
<1>4. ASSUME NEW d \in Download, Received(d) PROVE TypeOK'
  BY <1>4 DEF Received, WriteTemp, TypeOK, sweepVars
<1>5. ASSUME NEW d \in Download, GiveUp(d) PROVE TypeOK'
  <2>1. dir \in [Entry -> File \cup {Nothing}] BY DEF TypeOK
  <2> QED BY <1>5, <2>1, LeaveTypes DEF GiveUp, TypeOK, sweepVars
<1>6. ASSUME NEW d \in Download, Rename(d) PROVE TypeOK'
  <2>1. dir[temp[d]] \in File \cup {Nothing} BY <1>6, Names DEF Rename, TypeOK
  <2>2. [dir EXCEPT ![medium[d]] = dir[temp[d]]] \in [Entry -> File \cup {Nothing}]
    BY <2>1 DEF TypeOK
  <2>3. Leave(d, [dir EXCEPT ![medium[d]] = dir[temp[d]]]) BY <1>6 DEF Rename
  <2>4. overtaken' \in BOOLEAN BY <1>6 DEF Rename, Rewritten, TypeOK
  <2> QED BY <1>6, <2>2, <2>3, <2>4, LeaveTypes DEF Rename, TypeOK, sweepVars
<1>7. ASSUME NEW d \in Download, RenameFails(d) PROVE TypeOK'
  BY <1>7 DEF RenameFails, TypeOK, sweepVars
<1>8. ASSUME NEW d \in Download, OpenBoth(d) PROVE TypeOK'
  <2>1. dir' \in [Entry -> File \cup {Nothing}] BY <1>8 DEF OpenBoth, TypeOK
  <2>2. overtaken' \in BOOLEAN BY <1>8 DEF OpenBoth, Rewritten, TypeOK
  <2> QED BY <1>8, <2>1, <2>2 DEF OpenBoth, TypeOK, sweepVars
<1>9. ASSUME NEW d \in Download, Copied(d) PROVE TypeOK'
  <2>1. overtaken' \in BOOLEAN BY <1>9 DEF Copied, Rewritten, TypeOK
  <2>2. PICK files \in [Entry -> File \cup {Nothing}] : Leave(d, files)
    <3>1. CASE Leave(d, dir) BY <3>1 DEF TypeOK
    <3>2. ASSUME NEW result \in {"whole", "torn"},
                 Leave(d, [dir EXCEPT ![medium[d]] = [holds |-> result, age |-> 0]])
          PROVE  \E files \in [Entry -> File \cup {Nothing}] : Leave(d, files)
      <4>1. [dir EXCEPT ![medium[d]] = [holds |-> result, age |-> 0]]
              \in [Entry -> File \cup {Nothing}]
        BY DEF TypeOK
      <4> QED BY <3>2, <4>1
    <3> QED BY <1>9, <3>1, <3>2 DEF Copied
  <2> QED BY <1>9, <2>1, <2>2, LeaveTypes DEF Copied, TypeOK, sweepVars
<1>10. CASE Wake BY <1>10 DEF Wake, Present, TypeOK
<1>11. ASSUME NEW e \in Entry, Look(e) PROVE TypeOK'
  BY <1>11 DEF Look, TypeOK
<1>12. CASE Remove BY <1>12 DEF Remove, TypeOK
<1>13. CASE Rest BY <1>13 DEF Rest, TypeOK
<1>14. CASE Configure BY <1>14 DEF Configure, TypeOK, sweepVars
<1>15. CASE Tick
  <2>1. \A file \in File : Older(file) \in File BY DEF Older, File
  <2>2. Older(Nothing) = Nothing BY DEF Older
  <2>3. dir' \in [Entry -> File \cup {Nothing}] BY <1>15, <2>1, <2>2 DEF Tick, TypeOK
  <2> QED BY <1>15, <2>3 DEF Tick, TypeOK, sweepVars
<1>16. CASE Crash
  <2>1. \A file \in File : [file EXCEPT !.holds = "torn"] \in File BY DEF File
  <2>2. dir' \in [Entry -> File \cup {Nothing}] BY <1>16, <2>1 DEF Crash, TypeOK
  <2>3. medium' \in [Download -> Medium \cup {Nothing}] BY <1>16 DEF Crash
  <2>4. temp' \in [Download -> Temp \cup {Nothing}] BY <1>16 DEF Crash
  <2> QED BY <1>16, <2>2, <2>3, <2>4 DEF Crash, TypeOK
<1>17. CASE UNCHANGED vars BY <1>17 DEF vars, TypeOK
<1> QED
  BY <1>1, <1>2, <1>3, <1>4, <1>5, <1>6, <1>7, <1>8, <1>9, <1>10, <1>11, <1>12,
     <1>13, <1>14, <1>15, <1>16, <1>17 DEF Next, Cache, Sweep

\* The variables keep their types in every reachable state.
THEOREM TypeCorrect == Spec => []TypeOK
<1>1. Init => TypeOK BY InitTypeOK
<1>2. TypeOK /\ [Next]_vars => TypeOK' BY NextTypeOK
<1> QED BY <1>1, <1>2, PTL DEF Spec
-----------------------------------------------------------------------------
(* The media.  A name is written by a rename, whose source a finished       *)
(* download made whole, and by the copy in place, which needs a source that *)
(* a refused rename left where it was: without one it stops before the      *)
(* target is touched.                                                       *)

\* No two downloads have one temporary file; a finished one is whole.
TempInvariant ==
  /\ \A d, e \in Download : d # e /\ temp[d] = temp[e] => temp[d] = Nothing
  /\ \A d \in Download : pc[d] = "storing" /\ dir[temp[d]] # Nothing
                           => dir[temp[d]].holds = "whole"

\* Until a rename is refused, who tries to copy has no source to copy from.
CopyInvariant ==
  ~crossed => \A d \in Download : /\ pc[d] # "copying"
                                  /\ pc[d] = "opening" => dir[temp[d]] = Nothing

\* The sweep holds a medium doomed that is too old, or was overtaken.
SweepInvariant ==
  /\ limit = 0 => doomed = Nothing /\ sweep = {}
  /\ doomed \in Medium /\ ~overtaken /\ dir[doomed] # Nothing => dir[doomed].age > limit

IInv ==
  /\ TypeOK
  /\ TempInvariant
  /\ CopyInvariant
  /\ MediaAreWhole
  /\ TempsAreOwned
  /\ SweepInvariant

\* Nothing exists in the initial states.
LEMMA InitIInv == Init => IInv
BY InitTypeOK, ConstantFacts
DEF Init, IInv, TempInvariant, CopyInvariant, MediaAreWhole, TempsAreOwned,
    SweepInvariant, Entry

\* What Leave does to the names that are not the download's temporary file.
LEMMA LeaveFiles ==
  ASSUME TypeOK, NEW d \in Download, NEW files \in [Entry -> File \cup {Nothing}],
         Leave(d, files)
  PROVE  /\ \A m \in Medium : dir'[m] = files[m]
         /\ \A t \in Temp : dir'[t] = IF t = temp[d] THEN Nothing ELSE files[t]
         /\ \A e \in Download : e # d => pc'[e] = pc[e] /\ temp'[e] = temp[e]
         /\ pc'[d] = "idle" /\ temp'[d] = Nothing
BY ConstantFacts, Names DEF Leave, Entry, TypeOK

\* Whatever a download that returns leaves under a medium's name, nothing
\* changes for the other downloads, and its temporary file is gone.
LEMMA LeaveKeeps ==
  ASSUME TypeOK, TempInvariant, TempsAreOwned, CopyInvariant, NEW d \in Download,
         NEW files \in [Entry -> File \cup {Nothing}], Leave(d, files),
         \A t \in Temp : files[t] = dir[t],
         orphans' = orphans, crossed' = crossed
  PROVE  TempInvariant' /\ TempsAreOwned' /\ CopyInvariant'
<1> USE ConstantFacts, LeaveFiles
<1>1. \A t \in Temp : dir'[t] = IF t = temp[d] THEN Nothing ELSE dir[t]
  OBVIOUS
<1>2. \A e \in Download : e # d => pc'[e] = pc[e] /\ temp'[e] = temp[e]
  OBVIOUS
<1>3. pc'[d] = "idle" /\ temp'[d] = Nothing
  OBVIOUS
<1>4. TempInvariant'
  <2>1. \A e, f \in Download : e # f /\ temp'[e] = temp'[f] => temp'[e] = Nothing
    BY <1>2, <1>3 DEF TempInvariant
  <2>2. ASSUME NEW e \in Download, pc'[e] = "storing", dir'[temp'[e]] # Nothing
        PROVE  dir'[temp'[e]].holds = "whole"
    <3>1. e # d /\ pc[e] = "storing" /\ temp'[e] = temp[e] BY <1>2, <1>3, <2>2
    <3>2. temp[e] \in Temp BY <3>1, Names
    <3> QED BY <1>1, <2>2, <3>1, <3>2 DEF TempInvariant
  <2> QED BY <2>1, <2>2 DEF TempInvariant
<1>5. TempsAreOwned'
  BY <1>1, <1>2 DEF TempsAreOwned
<1>6. CopyInvariant'
  <2>1. ASSUME ~crossed, NEW e \in Download, e # d
        PROVE  pc'[e] # "copying" /\ (pc'[e] = "opening" => dir'[temp'[e]] = Nothing)
    <3>1. pc[e] = "opening" => temp[e] \in Temp BY Names
    <3> QED BY <1>1, <1>2, <2>1, <3>1 DEF CopyInvariant
  <2> QED BY <1>3, <2>1 DEF CopyInvariant
<1> QED BY <1>4, <1>5, <1>6

\* The downloads keep the invariant of temporary files, copies and owners.
LEMMA NextDownloads ==
  ASSUME TypeOK, TempInvariant, TempsAreOwned, CopyInvariant, [Next]_vars
  PROVE  TempInvariant' /\ TempsAreOwned' /\ CopyInvariant'
<1> USE ConstantFacts, NewFiles
<1> DEFINE Goal == TempInvariant' /\ TempsAreOwned' /\ CopyInvariant'
<1>0. dir \in [Entry -> File \cup {Nothing}] BY DEF TypeOK
<1>1. ASSUME NEW d \in Download, NEW m \in Medium, Begin(d, m) PROVE Goal
  BY <1>1 DEF Begin, TypeOK, TempInvariant, TempsAreOwned, CopyInvariant
<1>2. ASSUME NEW d \in Download, NEW t \in Temp, CreateTemp(d, t) PROVE Goal
  <2>1. temp' = [temp EXCEPT ![d] = t] /\ pc' = [pc EXCEPT ![d] = "writing"]
        /\ \A e \in Download : temp[e] # t
    BY <1>2 DEF CreateTemp
  <2>2. \A e \in Entry \ {t} : dir'[e] = dir[e] BY <1>2 DEF CreateTemp, TypeOK
  <2>3. TempInvariant'
    <3>1. \A e \in Download : e # d => pc'[e] = pc[e] /\ temp'[e] = temp[e]
      BY <2>1 DEF TypeOK
    <3>2. pc'[d] = "writing" /\ temp'[d] = t BY <2>1 DEF TypeOK
    <3>3. \A e \in Download : pc[e] = "storing" => temp[e] \in Entry \ {t}
      BY <2>1, Names
    <3> QED BY <2>1, <2>2, <3>1, <3>2, <3>3 DEF TempInvariant
  <2>4. TempsAreOwned'
    BY <1>2, <2>1, <2>2 DEF CreateTemp, TempsAreOwned, TypeOK, Entry
  <2>5. CopyInvariant'
    <3>1. \A e \in Download : e # d => pc'[e] = pc[e] /\ temp'[e] = temp[e]
      BY <2>1 DEF TypeOK
    <3>2. pc'[d] = "writing" BY <2>1 DEF TypeOK
    <3>3. \A e \in Download : pc[e] = "opening" => temp[e] \in Entry \ {t}
      BY <2>1, Names
    <3> QED BY <1>2, <2>2, <3>1, <3>2, <3>3 DEF CreateTemp, CopyInvariant
  <2> QED BY <2>3, <2>4, <2>5
<1>3. ASSUME NEW d \in Download, pc[d] = "writing", NEW file \in File, WriteTemp(d, file),
             file = Whole \/ pc' = pc, pc' \in {pc, [pc EXCEPT ![d] = "storing"]},
             temp' = temp, orphans' = orphans, crossed' = crossed
      PROVE  Goal
  <2>1. temp[d] \in Temp /\ temp[d] # Nothing BY <1>3, Names
  <2>2. \A e \in Entry : dir'[e] = IF e = temp[d] /\ dir[e] # Nothing THEN file ELSE dir[e]
    BY <1>3 DEF WriteTemp
  <2>3. \A e \in Download : e # d => pc'[e] = pc[e] /\ temp[e] # temp[d]
    BY <1>3, <2>1 DEF TempInvariant, TypeOK
  <2>4. pc'[d] = "writing" \/ (pc'[d] = "storing" /\ file = Whole)
    BY <1>3 DEF TypeOK
  <2>5. \A e \in Download : pc[e] \in {"storing", "opening", "writing"} => temp[e] \in Entry
    BY Names
  <2>6. TempInvariant'
    BY <1>3, <2>2, <2>3, <2>4, <2>5 DEF TempInvariant, Whole
  <2>7. TempsAreOwned' BY <1>3, <2>2 DEF TempsAreOwned, Entry
  <2>8. CopyInvariant' BY <1>3, <2>2, <2>3, <2>4, <2>5 DEF CopyInvariant
  <2> QED BY <2>6, <2>7, <2>8
<1>4. ASSUME NEW d \in Download, Receive(d) \/ Received(d) PROVE Goal
  <2>1. CASE Receive(d) BY <1>3, <2>1 DEF Receive
  <2>2. CASE Received(d) BY <1>3, <2>2 DEF Received
  <2> QED BY <1>4, <2>1, <2>2
<1>5. ASSUME NEW d \in Download, GiveUp(d) PROVE Goal
  BY <1>0, <1>5, LeaveKeeps DEF GiveUp
<1>6. ASSUME NEW d \in Download, Rename(d) PROVE Goal
  <2> DEFINE files == [dir EXCEPT ![medium[d]] = dir[temp[d]]]
  <2>1. medium[d] \in Medium /\ temp[d] \in Entry BY <1>6, Names DEF Rename
  <2>2. files \in [Entry -> File \cup {Nothing}] BY <1>0, <2>1
  <2>3. \A t \in Temp : files[t] = dir[t] BY <1>0, <2>1 DEF Entry
  <2>4. Leave(d, files) /\ orphans' = orphans /\ crossed' = crossed
    BY <1>6 DEF Rename
  <2> HIDE DEF files
  <2> QED BY <2>2, <2>3, <2>4, LeaveKeeps
<1>7. ASSUME NEW d \in Download, RenameFails(d) PROVE Goal
  BY <1>7 DEF RenameFails, TypeOK, TempInvariant, TempsAreOwned, CopyInvariant
<1>8. ASSUME NEW d \in Download, OpenBoth(d) PROVE Goal
  <2>1. medium[d] \in Medium BY <1>8, Names DEF OpenBoth
  <2>2. \A t \in Temp : dir'[t] = dir[t] BY <1>0, <1>8, <2>1 DEF OpenBoth, Entry
  <2>3. \A e \in Download : pc[e] \in {"storing", "opening"} => temp[e] \in Temp
    BY Names
  <2>4. crossed BY <1>8 DEF OpenBoth, CopyInvariant
  <2>5. TempInvariant'
    BY <1>8, <2>2, <2>3 DEF OpenBoth, TypeOK, TempInvariant
  <2> QED BY <1>8, <2>2, <2>4, <2>5 DEF OpenBoth, TempsAreOwned, CopyInvariant
<1>9. ASSUME NEW d \in Download, Copied(d) PROVE Goal
  <2>1. medium[d] \in Medium /\ medium[d] \in Entry BY <1>9, Names DEF Copied
  <2>2. CASE Leave(d, dir) BY <1>0, <1>9, <2>2, LeaveKeeps DEF Copied
  <2>3. ASSUME NEW result \in {"whole", "torn"},
               Leave(d, [dir EXCEPT ![medium[d]] = [holds |-> result, age |-> 0]])
        PROVE  Goal
    <3> DEFINE files == [dir EXCEPT ![medium[d]] = [holds |-> result, age |-> 0]]
    <3>1. files \in [Entry -> File \cup {Nothing}] BY <1>0, <2>1
    <3>2. \A t \in Temp : files[t] = dir[t] BY <1>0, <2>1 DEF Entry
    <3>3. Leave(d, files) BY <2>3
    <3> HIDE DEF files
    <3> QED BY <1>9, <3>1, <3>2, <3>3, LeaveKeeps DEF Copied
  <2> QED BY <1>9, <2>2, <2>3 DEF Copied
<1>10. ASSUME Wake \/ Rest \/ Configure \/ \E e \in Entry : Look(e) PROVE Goal
  BY <1>10 DEF Wake, Rest, Configure, Look, TempInvariant, TempsAreOwned, CopyInvariant
<1>11. CASE Remove
  <2>1. \A e \in Entry : dir'[e] = IF e = doomed THEN Nothing ELSE dir[e]
    BY <1>0, <1>11 DEF Remove
  <2>2. \A e \in Download : pc[e] \in {"storing", "opening"} => temp[e] \in Entry
    BY Names
  <2>3. TempInvariant' BY <1>11, <2>1, <2>2 DEF Remove, TempInvariant
  <2>4. TempsAreOwned' BY <1>11, <2>1 DEF Remove, TempsAreOwned, Entry
  <2>5. CopyInvariant' BY <1>11, <2>1, <2>2 DEF Remove, CopyInvariant
  <2> QED BY <2>3, <2>4, <2>5
<1>12. CASE Tick
  <2>1. \A file \in File : Older(file) \in File /\ Older(file).holds = file.holds
    BY DEF Older, File
  <2>2. Older(Nothing) = Nothing BY DEF Older
  <2>3. \A e \in Entry : /\ dir'[e] = Nothing <=> dir[e] = Nothing
                         /\ dir[e] # Nothing => dir'[e].holds = dir[e].holds
    BY <1>0, <1>12, <2>1, <2>2 DEF Tick
  <2>4. \A e \in Download : pc[e] \in {"storing", "opening"} => temp[e] \in Entry
    BY Names
  <2>5. TempInvariant' BY <1>12, <2>3, <2>4 DEF Tick, TempInvariant
  <2>6. TempsAreOwned' BY <1>12, <2>3 DEF Tick, TempsAreOwned, Entry
  <2>7. CopyInvariant' BY <1>12, <2>3, <2>4 DEF Tick, CopyInvariant
  <2> QED BY <2>5, <2>6, <2>7
<1>13. CASE Crash
  <2>1. \A e \in Entry : dir'[e] = Nothing => dir[e] = Nothing
    <3>1. \A file \in File : [file EXCEPT !.holds = "torn"] \in File BY DEF File
    <3> QED BY <1>0, <1>13, <3>1 DEF Crash
  <2>2. \A e \in Entry : dir[e] = Nothing => dir'[e] = Nothing BY <1>13 DEF Crash
  <2>3. TempsAreOwned' BY <1>13, <2>2 DEF Crash, TempsAreOwned, Entry
  <2>4. TempInvariant' BY <1>13 DEF Crash, TempInvariant
  <2>5. CopyInvariant' BY <1>13 DEF Crash, CopyInvariant
  <2> QED BY <2>3, <2>4, <2>5
<1>14. CASE UNCHANGED vars
  BY <1>14 DEF vars, TempInvariant, TempsAreOwned, CopyInvariant
<1> QED
  BY <1>1, <1>2, <1>4, <1>5, <1>6, <1>7, <1>8, <1>9, <1>10, <1>11, <1>12, <1>13, <1>14
  DEF Next, Cache, Sweep

\* How a step changes what a medium's name holds: a rename brings a whole file,
\* a copy in place begins or ends, the sweep removes it, it ages, a crash stops
\* its copy; or it stays.
LEMMA MediumChanges ==
  ASSUME IInv, [Next]_vars, NEW m \in Medium
  PROVE  \/ dir'[m] = dir[m]
         \/ dir'[m] = Nothing /\ Remove /\ doomed = m
         \/ dir'[m] = Older(dir[m]) /\ Tick
         \/ /\ dir'[m] # Nothing /\ (~crossed => dir'[m].holds = "whole")
            /\ Rewritten(m)
         \/ crossed /\ Crash
<1> USE ConstantFacts, NewFiles DEF IInv
<1> DEFINE Goal ==
      \/ dir'[m] = dir[m]
      \/ dir'[m] = Nothing /\ Remove /\ doomed = m
      \/ dir'[m] = Older(dir[m]) /\ Tick
      \/ /\ dir'[m] # Nothing /\ (~crossed => dir'[m].holds = "whole")
         /\ Rewritten(m)
      \/ crossed /\ Crash
<1>0. dir \in [Entry -> File \cup {Nothing}] /\ m \in Entry BY DEF TypeOK, Entry
<1>1. ASSUME NEW d \in Download, Cache(d) PROVE Goal
  <2>1. CASE \/ \E n \in Medium : Begin(d, n)
             \/ RenameFails(d)
    BY <2>1 DEF Begin, RenameFails
  <2>2. ASSUME NEW t \in Temp, CreateTemp(d, t) PROVE Goal
    BY <1>0, <2>2 DEF CreateTemp
  <2>3. CASE Receive(d) \/ Received(d)
    BY <1>0, <2>3, Names DEF Receive, Received, WriteTemp
  <2>4. CASE GiveUp(d)
    BY <1>0, <2>4, LeaveFiles DEF GiveUp
  <2>5. CASE Rename(d)
    <3> DEFINE files == [dir EXCEPT ![medium[d]] = dir[temp[d]]]
    <3>1. medium[d] \in Entry /\ temp[d] \in Entry BY <2>5, Names DEF Rename
    <3>2. dir[temp[d]] # Nothing /\ dir[temp[d]].holds = "whole"
      BY <2>5 DEF Rename, TempInvariant
    <3>3. files \in [Entry -> File \cup {Nothing}]
          /\ files[m] = IF m = medium[d] THEN dir[temp[d]] ELSE dir[m]
      BY <1>0, <3>1
    <3>4. Leave(d, files) /\ Rewritten(medium[d]) BY <2>5 DEF Rename
    <3> HIDE DEF files
    <3>5. dir'[m] = files[m] BY <3>3, <3>4, LeaveFiles
    <3> QED BY <3>2, <3>3, <3>4, <3>5
  <2>6. CASE OpenBoth(d)
    <3>1. crossed BY <2>6 DEF OpenBoth, CopyInvariant
    <3> QED BY <1>0, <2>6, <3>1 DEF OpenBoth
  <2>7. CASE Copied(d)
    <3>1. medium[d] \in Entry /\ crossed BY <2>7, Names DEF Copied, CopyInvariant
    <3>2. CASE Leave(d, dir) BY <1>0, <3>2, LeaveFiles
    <3>3. ASSUME NEW result \in {"whole", "torn"},
                 Leave(d, [dir EXCEPT ![medium[d]] = [holds |-> result, age |-> 0]]),
                 Rewritten(medium[d])
          PROVE  Goal
      <4> DEFINE new == [holds |-> result, age |-> 0]
                 files == [dir EXCEPT ![medium[d]] = new]
      <4>1. new \in File /\ new # Nothing
        OBVIOUS
      <4> HIDE DEF new
      <4>2. files \in [Entry -> File \cup {Nothing}]
            /\ files[m] = IF m = medium[d] THEN new ELSE dir[m]
        BY <1>0, <3>1, <4>1
      <4>3. Leave(d, files) BY <3>3 DEF new
      <4> HIDE DEF files
      <4>4. dir'[m] = files[m] BY <4>2, <4>3, LeaveFiles
      <4> QED BY <3>1, <3>3, <4>1, <4>2, <4>4
    <3> QED BY <2>7, <3>2, <3>3 DEF Copied
  <2> QED BY <1>1, <2>1, <2>2, <2>3, <2>4, <2>5, <2>6, <2>7 DEF Cache
<1>2. CASE Remove BY <1>0, <1>2 DEF Remove
<1>3. CASE Wake \/ Rest \/ Configure \/ \E e \in Entry : Look(e)
  BY <1>3 DEF Wake, Rest, Configure, Look
<1>4. CASE Tick BY <1>0, <1>4 DEF Tick
<1>5. CASE Crash
  <2>1. CASE crossed BY <1>5, <2>1
  <2>2. CASE ~crossed
    <3>1. dir[m] # Nothing => dir[m].holds \notin Download
      BY <2>2 DEF MediaAreWhole
    <3> QED BY <1>0, <1>5, <3>1 DEF Crash
  <2> QED BY <2>1, <2>2
<1>6. CASE UNCHANGED vars BY <1>6 DEF vars
<1> QED BY <1>1, <1>2, <1>3, <1>4, <1>5, <1>6 DEF Next, Sweep

\* That a rename was refused is never forgotten.
LEMMA CrossedStays == ASSUME TypeOK, [Next]_vars PROVE crossed => crossed'
BY DEF Next, Cache, Sweep, Begin, CreateTemp, Receive, Received, GiveUp, Rename,
       RenameFails, OpenBoth, Copied, Wake, Look, Remove, Rest, Configure, Tick,
       Crash, vars

\* Names hold whole media in the next state, too.
LEMMA NextMedia == ASSUME IInv, [Next]_vars PROVE MediaAreWhole'
<1> SUFFICES ASSUME ~crossed', NEW m \in Medium, dir'[m] # Nothing
             PROVE  dir'[m].holds = "whole"
  BY DEF MediaAreWhole
<1>1. ~crossed BY CrossedStays DEF IInv
<1>2. dir[m] # Nothing => dir[m].holds = "whole" BY <1>1 DEF IInv, MediaAreWhole
<1>3. dir[m] \in File \cup {Nothing} BY DEF IInv, TypeOK, Entry
<1>4. dir'[m] = Older(dir[m]) => dir[m] # Nothing /\ dir'[m].holds = dir[m].holds
  BY <1>3 DEF Older, File
<1> QED BY <1>1, <1>2, <1>4, MediumChanges

\* A medium that is doomed stays too old, or is overtaken.
LEMMA NextSweep == ASSUME IInv, [Next]_vars PROVE SweepInvariant'
<1> USE ConstantFacts DEF IInv
<1>1. limit' = 0 => doomed' = Nothing /\ sweep' = {}
  <2>1. CASE \E d \in Download : Cache(d)
    BY <2>1 DEF SweepInvariant, Cache, Begin, CreateTemp, Receive, Received, GiveUp,
                Rename, RenameFails, OpenBoth, Copied, sweepVars
  <2>2. CASE Sweep BY <2>2 DEF SweepInvariant, Sweep, Wake, Look, Remove, Rest
  <2>3. CASE Configure \/ Tick \/ Crash
    BY <2>3 DEF SweepInvariant, Configure, Tick, Crash, sweepVars
  <2>4. CASE UNCHANGED vars BY <2>4 DEF SweepInvariant, vars
  <2> QED BY <2>1, <2>2, <2>3, <2>4 DEF Next
<1>2. ASSUME doomed' \in Medium, ~overtaken', dir'[doomed'] # Nothing
      PROVE  dir'[doomed'].age > limit'
  <2>1. CASE \E e \in Entry : Look(e)
    BY <1>2, <2>1 DEF Look, TooOld
  <2>2. CASE ~ \E e \in Entry : Look(e)
    <3>1. doomed' = doomed /\ limit' = limit /\ (overtaken => overtaken')
      <4>1. CASE \E d \in Download : Cache(d)
        BY <4>1 DEF Cache, Begin, CreateTemp, Receive, Received, GiveUp, Rename,
                    RenameFails, OpenBoth, Copied, Rewritten, sweepVars
      <4>2. CASE Sweep
        BY <1>2, <2>2, <4>2 DEF Sweep, SweepInvariant, Wake, Remove, Rest
      <4>3. CASE Configure \/ Tick \/ Crash
        BY <1>2, <4>3 DEF Configure, Tick, Crash, sweepVars
      <4>4. CASE UNCHANGED vars BY <4>4 DEF vars
      <4> QED BY <4>1, <4>2, <4>3, <4>4 DEF Next
    <3>2. doomed \in Medium /\ ~overtaken BY <1>2, <3>1
    <3>3. ~Crash /\ ~Remove BY <1>2 DEF Crash, Remove
    <3>4. ~Rewritten(doomed) BY <1>2 DEF Rewritten
    <3>5. dir'[doomed] = dir[doomed] \/ dir'[doomed] = Older(dir[doomed])
      BY <3>2, <3>3, <3>4, MediumChanges
    <3>6. dir[doomed] \in File \cup {Nothing} BY <3>2 DEF TypeOK, Entry
    <3>7. dir[doomed] # Nothing BY <1>2, <3>1, <3>5 DEF Older
    <3>8. dir[doomed].age > limit BY <3>2, <3>7 DEF SweepInvariant
    <3>9. limit \in Nat /\ limit < MaxAge BY DEF TypeOK
    <3>10. Older(dir[doomed]).age >= dir[doomed].age /\ dir[doomed].age \in Nat
           /\ Older(dir[doomed]).age \in Nat
      BY <3>6, <3>7 DEF Older, File
    <3> QED BY <3>1, <3>5, <3>8, <3>9, <3>10
  <2> QED BY <2>1, <2>2
<1> QED BY <1>1, <1>2 DEF SweepInvariant

\* The invariant is inductive.
LEMMA NextIInv == IInv /\ [Next]_vars => IInv'
BY NextTypeOK, NextDownloads, NextMedia, NextSweep DEF IInv

\* The invariant holds in every reachable state.
LEMMA Invariance == Spec => []IInv
BY InitIInv, NextIInv, PTL DEF Spec

\* While no rename is refused, a medium's name hands out a whole file or none.
THEOREM MediaStayWhole == Spec => []MediaAreWhole
<1>1. IInv => MediaAreWhole BY DEF IInv
<1> QED BY <1>1, Invariance, PTL

\* Every temporary file has a download that removes it, or a crash left it.
THEOREM TempsHaveOwners == Spec => []TempsAreOwned
<1>1. IInv => TempsAreOwned BY DEF IInv
<1> QED BY <1>1, Invariance, PTL

\* The sweep removes a medium before its time only if the medium overtook it.
THEOREM MediaLast == Spec => MediaLastTheirTime
<1>1. IInv /\ [Next]_vars
        => [\A m \in Medium : dir[m] # Nothing /\ dir'[m] = Nothing
              => dir[m].age > limit \/ overtaken]_vars
  <2> SUFFICES ASSUME IInv, [Next]_vars, NEW m \in Medium, dir[m] # Nothing,
                      dir'[m] = Nothing, ~overtaken
               PROVE  dir[m].age > limit
    OBVIOUS
  <2>1. dir[m] \in File BY DEF IInv, TypeOK, Entry
  <2>2. Older(dir[m]) # Nothing BY <2>1, ConstantFacts DEF Older, File
  <2>3. ~Crash \/ dir'[m] # Nothing
    <3>1. [dir[m] EXCEPT !.holds = "torn"] \in File BY <2>1 DEF File
    <3> QED BY <3>1, ConstantFacts DEF Crash, Entry
  <2>4. Remove /\ doomed = m BY <2>2, <2>3, MediumChanges
  <2> QED BY <2>4 DEF IInv, SweepInvariant
<1> QED BY <1>1, Invariance, PTL DEF Spec, MediaLastTheirTime
=============================================================================
