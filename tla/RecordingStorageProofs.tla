----------------------- MODULE RecordingStorageProofs -----------------------
(***************************************************************************)
(* Theorems about RecordingStorage, for all recordings, programmes,        *)
(* requests and crashes, with ffmpeg or without, whatever may fail.        *)
(***************************************************************************)
EXTENDS RecordingStorage, FiniteSetTheorems, WellFoundedInduction, TLAPS

Task == [pc : Steps, path : Paths \cup {None}, target : Paths \cup {None},
         outcome : {"completed", "failed"}, updates : 0..1, copy : Info \cup {NoInfo}]
UserRequest == [pc : {"idle", "stop", "del", "unlink"}, id : Recordings \cup {None},
                copy : Info \cup {NoInfo}, ended : BOOLEAN]

(* The inductive invariant.  What a RecordingInfo promises cannot be seen    *)
(* from the key alone: copies of it are held by requests and goroutines and  *)
(* written back later.  It is therefore said of every copy there is.         *)

\* The steps after the conversion, from which the target path stays what it is.
After == {"resave", "store", "get", "set", "done"}

TaskSound(r) ==
    /\ task[r].pc # "idle" =>
        /\ task[r].path \in {Final(ProgramOf[r]), Final(r)}
        /\ \/ task[r].target = task[r].path
           \/ \E n \in 0..Cardinality(Recordings) : task[r].target = <<task[r].path[1], <<"aac", n>>>>
    /\ HasFFmpeg \/ task[r].pc \notin {"replace"} \cup After => task[r].target = task[r].path
    /\ task[r].pc \in {"idle", "save", "create", "write", "remux", "replace"} => task[r].outcome = "completed"
    /\ task[r].pc \notin (IF r \in Scheduled THEN {"load", "store"} ELSE {"resave", "get", "set"})
    /\ task[r].pc = "set" => task[r].copy # NoInfo
    /\ task[r].pc = "tidy" => HasFFmpeg

Kept(p) == disk[p] # "none" /\ p \notin stuck

\* The final file is in place, and the tagged one is gone.
Converted(r) ==
    Alone(r) => /\ disk[TaggingPath(task[r].path)] = "none"
                /\ erased[r] = "no" => disk[task[r].target] = "whole"

\* The conversion succeeded: the temporary files are gone, unless the removal of the
\* download failed, and the recording is whole as long as nobody deletes it.
Finished(r) ==
    /\ task[r].pc \in After /\ task[r].outcome = "completed"
    /\ Converted(r)
    /\ Alone(r) => ~Kept(TempAACPath(task[r].path))

\* The RecordingInfo in Redis, the one the goroutine is about to change, and those the
\* requests have loaded.
Copies(r) ==
    {c \in {info[r], task[r].copy} \cup {request[q].copy : q \in {x \in Requests : request[x].id = r}} :
        c # NoInfo}

CopySound(r, c) ==
    /\ c \in Info
    /\ task[r].pc \notin {"idle", "save"}
    /\ c.path = task[r].path \/ (task[r].pc \in After /\ c.path = task[r].target)
    /\ c.status = "completed" => Finished(r) /\ (r \notin Scheduled => c.path = task[r].target)

\* The file the next step of the conversion reads.
From(r) == IF HasFFmpeg /\ task[r].pc = "replace" THEN TaggingPath(task[r].path) ELSE TempAACPath(task[r].path)

WorkSound(r) ==
    /\ task[r].pc \in After \ {"done"} /\ task[r].outcome = "completed" => Finished(r)
    /\ task[r].pc = "tidy" /\ task[r].outcome = "completed" => Converted(r)
    /\ Alone(r) /\ task[r].pc \in {"load", "remux", "replace"} /\ task[r].outcome = "completed" =>
          disk[From(r)] \in {"whole", "none"}

Unlinking(q, r) == request[q].pc = "unlink" /\ request[q].id = r

EraseSound(r) ==
    /\ erased[r] = "ended" => At(r, "done")
    /\ HasFFmpeg /\ crashes = 0 /\ Alone(r) /\ erased[r] = "ended" =>
         ~Kept(task[r].target) \/ \E q \in Requests : Unlinking(q, r)

\* A tagged file is there only while it is being made, put in place or removed.
TaggedSound(r) ==
    Alone(r) /\ crashes = 0 =>
        \A s \in {ProgramOf[r], r} : Kept(<<s, <<"tagging", 0>>>>) =>
            /\ s = task[r].path[1]
            /\ task[r].pc = "replace" \/ (task[r].pc = "tidy" /\ task[r].outcome = "failed")

RecordingSound(r) ==
    TaskSound(r) /\ (\A c \in Copies(r) : CopySound(r, c)) /\ WorkSound(r) /\ EraseSound(r)

RequestSound(q) ==
    /\ request[q].pc = "idle" => request[q] = NoRequest
    /\ request[q].pc # "idle" => /\ request[q].id \in Recordings
                               /\ request[q].copy # NoInfo /\ request[q].copy.status = "stopped"
    /\ request[q].pc = "unlink" => erased[request[q].id] # "no"
    /\ request[q].ended => At(request[q].id, "done")

Stems == Programs \cup Recordings
Numbers == 0..Cardinality(Recordings)

\* A fallback name that is taken belongs to a recording of its own, so that one is free.
Fallbacks ==
    \A s \in Stems, n \in Numbers :
        disk[<<s, <<"aac", n>>>>] # "none" =>
            \E r \in Recordings : task[r].pc \in After /\ task[r].target = <<s, <<"aac", n>>>>

Untagged == ~HasFFmpeg => \A s \in Stems : disk[<<s, <<"tagging", 0>>>>] = "none"

Sound ==
    /\ TypeOK
    /\ \A r \in Recordings : RecordingSound(r) /\ TaggedSound(r)
    /\ \A q \in Requests : RequestSound(q)
    /\ Fallbacks
    /\ Untagged

-----------------------------------------------------------------------------
(* Paths and numbers *)

\* Every name a recording may use is in the directory, under one of its two stems.
LEMMA PathFacts ==
  /\ \A s \in Stems : /\ <<s, <<"m4a", 0>>>> \in Paths /\ <<s, <<"temp", 0>>>> \in Paths
                      /\ <<s, <<"tagging", 0>>>> \in Paths
  /\ \A s \in Stems, n \in Numbers : <<s, <<"aac", n>>>> \in Paths
  /\ \A p \in Paths : p[1] \in Stems
BY DEF Paths, Stems, Numbers

\* A nonempty set of numbers has a least one.
LEMMA Least ==
  ASSUME NEW S \in SUBSET Nat, S # {}
  PROVE  \E n \in S : \A k \in S : n <= k
<1> DEFINE R == OpToRel(<, Nat)
<1>1. IsWellFoundedOn(R, Nat)
  BY NatLessThanWellFounded
<1>2. \A x, y \in Nat : <<y, x>> \in R <=> y < x
  BY DEF OpToRel
<1> HIDE DEF R
<1>3. PICK x \in S : \A y \in S : ~ (<<y, x>> \in R)
  BY <1>1, WFMin
<1>4. ASSUME NEW k \in S PROVE x <= k
  <2>1. x \in Nat /\ k \in Nat
    OBVIOUS
  <2>2. ~(k < x)
    BY <2>1, <1>2, <1>3
  <2> QED
    BY <2>1, <2>2
<1> QED
  BY <1>4

\* Finitely many things that each take a number leave one of the first ones free.
LEMMA NumberLeft ==
  ASSUME NEW T, IsFiniteSet(T), NEW f \in [T -> Nat]
  PROVE  \E n \in 0..Cardinality(T) : \A t \in T : f[t] # n
<1>1. Cardinality(T) \in Nat
  BY FS_CardinalityType
<1> DEFINE N == 0..Cardinality(T)
<1>2. IsFiniteSet(N) /\ Cardinality(N) = Cardinality(T) + 1
  BY <1>1, FS_Interval
<1> SUFFICES ASSUME \A n \in N : \E t \in T : f[t] = n PROVE FALSE
  OBVIOUS
<1> DEFINE g == [n \in N |-> CHOOSE t \in T : f[t] = n]
<1>3. g \in [N -> T] /\ \A n \in N : f[g[n]] = n
  OBVIOUS
<1>4. Cardinality(T) < Cardinality(N)
  BY <1>1, <1>2
<1> HIDE DEF g, N
<1>5. PICK x, y \in N : x # y /\ g[x] = g[y]
  BY <1>2, <1>3, <1>4, FS_PigeonHole
<1> QED
  BY <1>3, <1>5

\* FallbackAACPath always finds a name, and it is free.
LEMMA FallbackFound ==
  ASSUME Sound, NEW r \in Recordings, task[r].path \in Paths
  PROVE  \E n \in Numbers : FallbackAACPath(task[r].path) = <<task[r].path[1], <<"aac", n>>>>
<1> DEFINE s == task[r].path[1]
           free == {n \in Numbers : disk[<<s, <<"aac", n>>>>] = "none"}
           f == [x \in Recordings |-> IF \E n \in Numbers : task[x].target = <<s, <<"aac", n>>>>
                                      THEN task[x].target[2][2] ELSE 0]
<1>1. s \in Stems
  BY PathFacts
<1>2. f \in [Recordings -> Nat] /\ \A x \in Recordings : \A n \in Numbers :
        task[x].target = <<s, <<"aac", n>>>> => f[x] = n
  BY DEF Numbers
<1> HIDE DEF f
<1>3. PICK n \in Numbers : \A x \in Recordings : f[x] # n
  <2>1. IsFiniteSet(Recordings)
    BY ConstantsAssumption
  <2> QED
    BY <1>2, <2>1, NumberLeft DEF Numbers
<1>4. disk[<<s, <<"aac", n>>>>] = "none"
  BY <1>1, <1>2, <1>3 DEF Sound, Fallbacks
<1>5. free # {} /\ free \subseteq Nat
  BY <1>4 DEF Numbers
<1>6. \E m \in free : \A k \in free : m <= k
  BY <1>5, Least
<1>7. FallbackAACPath(task[r].path)
        = <<s, <<"aac", CHOOSE m \in free : \A k \in free : m <= k>>>>
  BY DEF FallbackAACPath, Numbers
<1> QED
  BY <1>6, <1>7

\* Where a recording that has begun writes: under one of its two stems, to different files.
LEMMA OwnFiles ==
  ASSUME Sound, NEW r \in Recordings, ~At(r, "idle")
  PROVE  /\ task[r].path \in Paths /\ task[r].target \in Paths
         /\ task[r].path[1] \in {ProgramOf[r], r}
         /\ task[r].target[1] = task[r].path[1]
         /\ TempAACPath(task[r].path) \in Paths /\ TaggingPath(task[r].path) \in Paths
         /\ TempAACPath(task[r].path) # TaggingPath(task[r].path)
         /\ task[r].target \notin {TempAACPath(task[r].path), TaggingPath(task[r].path)}
<1>1. ProgramOf[r] \in Stems /\ r \in Stems
  BY ConstantsAssumption DEF Stems
<1>2. /\ task[r].path \in {Final(ProgramOf[r]), Final(r)}
      /\ \/ task[r].target = task[r].path
         \/ \E n \in Numbers : task[r].target = <<task[r].path[1], <<"aac", n>>>>
  BY DEF Sound, RecordingSound, TaskSound, At, Numbers
<1>3. task[r].path[1] \in {ProgramOf[r], r} /\ task[r].path = <<task[r].path[1], <<"m4a", 0>>>>
  BY <1>2 DEF Final
<1>4. \/ task[r].target = <<task[r].path[1], <<"m4a", 0>>>>
      \/ \E n \in Numbers : task[r].target = <<task[r].path[1], <<"aac", n>>>>
  BY <1>2, <1>3
<1>5. task[r].path[1] \in Stems
  BY <1>1, <1>3
<1> QED
  BY <1>3, <1>4, <1>5, PathFacts DEF TempAACPath, TaggingPath

-----------------------------------------------------------------------------
(* Types *)

\* What is written back to a key is a RecordingInfo.
LEMMA InfoTyped ==
  /\ \A rec \in Info, st \in {"recording", "stopped", "completed", "failed"} :
        [rec EXCEPT !.status = st] \in Info /\ [rec EXCEPT !.status = st].path = rec.path
          /\ [rec EXCEPT !.status = st].status = st
  /\ \A p \in Paths, st \in {"recording", "stopped", "completed", "failed"} :
        [status |-> st, path |-> p] \in Info
  /\ NoInfo \notin Info
BY DEF Info, NoInfo

\* The state after a SET, which may fail.
LEMMA SavedTyped ==
  ASSUME TypeOK, NEW r, NEW rec \in Info, saveRecordingInfo(r, rec)
  PROVE  info' \in [Recordings -> Info \cup {NoInfo}]
BY DEF TypeOK, saveRecordingInfo

\* Moving a goroutine on keeps its type.
LEMMA MovedTyped ==
  ASSUME TypeOK, NEW r \in Recordings, NEW step \in Steps, Goto(r, step)
  PROVE  task' \in [Recordings -> Task]
<1>1. task \in [Recordings -> Task]
  BY DEF TypeOK, Task
<1>2. [task[r] EXCEPT !.pc = step] \in Task
  BY <1>1 DEF Task
<1> QED
  BY <1>1, <1>2 DEF Goto

\* So does a failure.
LEMMA FailedTyped ==
  ASSUME TypeOK, NEW r \in Recordings, NEW step \in Steps, Fail(r, step)
  PROVE  task' \in [Recordings -> Task]
<1>1. task \in [Recordings -> Task]
  BY DEF TypeOK, Task
<1>2. [task[r] EXCEPT !.pc = step, !.outcome = "failed", !.target = task[r].path] \in Task
  BY <1>1 DEF Task
<1> QED
  BY <1>1, <1>2 DEF Fail

\* And the end of an update.
LEMMA UpdatedTyped ==
  ASSUME TypeOK, NEW r \in Recordings, Updated(r)
  PROVE  /\ task' \in [Recordings -> Task]
         /\ task'[r].pc \in {"get", "done"} /\ task'[r].copy = NoInfo
         /\ task'[r].path = task[r].path /\ task'[r].target = task[r].target
         /\ task'[r].outcome = task[r].outcome
         /\ \A x \in Recordings \ {r} : task'[x] = task[x]
<1>1. task \in [Recordings -> Task]
  BY DEF TypeOK, Task
<1>2. PICK again \in BOOLEAN :
        task' = [task EXCEPT ![r].pc = IF again THEN "get" ELSE "done",
                             ![r].updates = IF again THEN 1 ELSE 0, ![r].copy = NoInfo]
  <2>1. \A b \in {FALSE, task[r].outcome = "failed" /\ task[r].updates = 0} : b \in BOOLEAN
    OBVIOUS
  <2> QED
    BY <2>1, Zenon DEF Updated
<1> DEFINE step == IF again THEN "get" ELSE "done"
           n == IF again THEN 1 ELSE 0
<1>s. /\ step \in {"get", "done"} /\ n \in 0..1
      /\ task' = [task EXCEPT ![r].pc = step, ![r].updates = n, ![r].copy = NoInfo]
  BY <1>2
<1> HIDE DEF step, n
<1>3. [task[r] EXCEPT !.pc = step, !.updates = n, !.copy = NoInfo] \in Task
  BY <1>1, <1>s DEF Task, Steps
<1> QED
  BY <1>1, <1>s, <1>3 DEF Task

\* A removal takes its file away or records that it did not, and leaves the others alone.
LEMMA Removal ==
  ASSUME TypeOK, NEW p \in Paths, RemoveFile(p)
  PROVE  /\ disk' \in [Paths -> {"none", "partial", "whole"}] /\ stuck' \subseteq Paths
         /\ ~Kept(p)' /\ disk'[p] \in {disk[p], "none"}
         /\ \A x \in Paths \ {p} : disk'[x] = disk[x] /\ (x \in stuck' <=> x \in stuck)
BY DEF TypeOK, RemoveFile, Kept

\* The bound on crashes is a number.
LEMMA MaxCrashesNat == MaxCrashes \in Nat
BY ConstantsAssumption

\* Every step keeps the types; FallbackAACPath is where more than types is needed.
LEMMA TypeStep == Sound /\ [Next]_vars => TypeOK'
<1> SUFFICES ASSUME Sound, [Next]_vars PROVE TypeOK'
  OBVIOUS
<1>a. TypeOK
  BY DEF Sound
<1>b. task \in [Recordings -> Task] /\ request \in [Requests -> UserRequest]
  BY <1>a DEF TypeOK, Task, UserRequest
<1>c. TypeOK' <=> /\ (info \in [Recordings -> Info \cup {NoInfo}])'
                  /\ (disk \in [Paths -> {"none", "partial", "whole"}])'
                  /\ (task \in [Recordings -> Task])'
                  /\ (request \in [Requests -> UserRequest])'
                  /\ (stuck \subseteq Paths)'
                  /\ (erased \in [Recordings -> {"no", "running", "ended"}])'
                  /\ (crashes \in 0..MaxCrashes)'
  BY DEF TypeOK, Task, UserRequest
<1>d. ASSUME NEW r \in Recordings, ~At(r, "idle")
      PROVE  /\ task[r].path \in Paths /\ task[r].target \in Paths
             /\ disk[TempAACPath(task[r].path)] \in {"none", "partial", "whole"}
             /\ disk[TaggingPath(task[r].path)] \in {"none", "partial", "whole"}
  BY <1>a, <1>d, OwnFiles DEF TypeOK
<1>e. ASSUME NEW q \in Requests, request[q].pc # "idle"
      PROVE  request[q].id \in Recordings /\ request[q].copy \in Info
  BY <1>b, <1>e DEF Sound, RequestSound, UserRequest
<1>1. CASE UNCHANGED vars
  BY <1>a, <1>1 DEF TypeOK, vars
<1>2. ASSUME NEW r \in Recordings, Begin(r) PROVE TypeOK'
  <2>1. NewPath(r) \in Paths
    BY PathFacts, ConstantsAssumption DEF NewPath, Final, Stems
  <2>2. [task[r] EXCEPT !.pc = "save", !.path = NewPath(r), !.target = NewPath(r)] \in Task
    BY <1>b, <2>1 DEF Task, Steps
  <2> QED
    BY <1>2, <1>a, <1>b, <1>c, <2>2 DEF Begin, TypeOK
<1>3. ASSUME NEW r \in Recordings, SaveStarted(r) PROVE TypeOK'
  <2>1. task' \in [Recordings -> Task]
    BY <1>3, <1>a, MovedTyped DEF SaveStarted, Steps
  <2>2. info' \in [Recordings -> Info \cup {NoInfo}]
    <3>1. [status |-> "recording", path |-> task[r].path] \in Info
      BY <1>3, <1>d, InfoTyped DEF SaveStarted, At
    <3> QED
      BY <1>3, <1>a, <3>1 DEF SaveStarted, TypeOK
  <2> QED
    BY <1>3, <1>a, <1>b, <1>c, <2>1, <2>2 DEF SaveStarted, TypeOK
<1>4. ASSUME NEW r \in Recordings, CreateOutput(r) PROVE TypeOK'
  <2>1. task' \in [Recordings -> Task]
    BY <1>4, <1>a, MovedTyped, FailedTyped DEF CreateOutput, FailMedia, Steps
  <2> QED
    BY <1>4, <1>a, <1>b, <1>c, <2>1 DEF CreateOutput, TypeOK
<1>5. ASSUME NEW r \in Recordings, WriteOutput(r) PROVE TypeOK'
  <2>1. task' \in [Recordings -> Task]
    BY <1>5, <1>a, MovedTyped, FailedTyped DEF WriteOutput, FailMedia, Steps
  <2> QED
    BY <1>5, <1>a, <1>b, <1>c, <2>1 DEF WriteOutput, TypeOK
<1>6. ASSUME NEW r \in Recordings, LoadInfo(r) PROVE TypeOK'
  <2>1. task' \in [Recordings -> Task]
    BY <1>6, <1>a, MovedTyped DEF LoadInfo, Steps
  <2> QED
    BY <1>6, <1>a, <1>b, <1>c, <2>1 DEF LoadInfo, TypeOK
<1>7. ASSUME NEW r \in Recordings, RemuxAAC(r) PROVE TypeOK'
  <2>d. /\ task[r].path \in Paths
        /\ disk[TempAACPath(task[r].path)] \in {"none", "partial", "whole"}
    BY <1>7, <1>d DEF RemuxAAC, At
  <2>1. task' \in [Recordings -> Task]
    <3>1. FallbackAACPath(task[r].path) \in Paths
      BY <2>d, FallbackFound, PathFacts
    <3>2. [task[r] EXCEPT !.pc = "replace", !.target = FallbackAACPath(task[r].path)] \in Task
      BY <1>b, <3>1 DEF Task, Steps
    <3> QED
      BY <1>7, <1>a, <1>b, <3>2, MovedTyped, FailedTyped DEF RemuxAAC, Steps
  <2>2. disk' \in [Paths -> {"none", "partial", "whole"}]
    <3>1. TaggingPath(task[r].path) \in Paths
      BY <1>7, OwnFiles DEF RemuxAAC, At
    <3> QED
      BY <1>7, <1>a, <2>d, <3>1 DEF RemuxAAC, TypeOK
  <2> QED
    BY <1>7, <1>a, <1>b, <1>c, <2>1, <2>2 DEF RemuxAAC, TypeOK
<1>8. ASSUME NEW r \in Recordings, ReplaceFinal(r) PROVE TypeOK'
  <2>d. /\ disk[TempAACPath(task[r].path)] \in {"none", "partial", "whole"}
        /\ disk[TaggingPath(task[r].path)] \in {"none", "partial", "whole"}
    BY <1>8, <1>d DEF ReplaceFinal, At
  <2>1. task' \in [Recordings -> Task]
    BY <1>8, <1>a, MovedTyped, FailedTyped DEF ReplaceFinal, Reported, Steps
  <2>2. disk' \in [Paths -> {"none", "partial", "whole"}]
    BY <1>8, <1>a, <2>d DEF ReplaceFinal, Renamed, TypeOK
  <2> QED
    BY <1>8, <1>a, <1>b, <1>c, <2>1, <2>2 DEF ReplaceFinal, TypeOK
<1>9. ASSUME NEW r \in Recordings, StoreOutcome(r) PROVE TypeOK'
  <2>1. task' \in [Recordings -> Task]
    BY <1>9, <1>a, MovedTyped DEF StoreOutcome, Steps
  <2>2. [status |-> task[r].outcome, path |-> task[r].target] \in Info
    BY <1>9, <1>b, <1>d, InfoTyped DEF StoreOutcome, At, Task
  <2> QED
    BY <1>9, <1>a, <1>b, <1>c, <2>1, <2>2, SavedTyped DEF StoreOutcome, TypeOK
<1>10. ASSUME NEW r \in Recordings, ResaveInfo(r) PROVE TypeOK'
  <2>1. task' \in [Recordings -> Task]
    BY <1>10, <1>a, MovedTyped DEF ResaveInfo, Steps
  <2>2. [status |-> "recording", path |-> task[r].target] \in Info
    BY <1>10, <1>d, InfoTyped DEF ResaveInfo, At
  <2> QED
    BY <1>10, <1>a, <1>b, <1>c, <2>1, <2>2, SavedTyped DEF ResaveInfo, TypeOK
<1>11. ASSUME NEW r \in Recordings, GetInfo(r) PROVE TypeOK'
  <2> DEFINE rec == [info[r] EXCEPT !.status = task[r].outcome]
  <2>1. info[r] # NoInfo => [task[r] EXCEPT !.pc = "set", !.copy = rec] \in Task
    <3>1. info[r] # NoInfo => rec \in Info
      <4>1. task[r].outcome \in {"completed", "failed"} /\ info[r] \in Info \cup {NoInfo}
        BY <1>a DEF TypeOK
      <4> QED
        BY <4>1 DEF Info
    <3> HIDE DEF rec
    <3> QED
      BY <1>b, <3>1 DEF Task, Steps
  <2>2. task' \in [Recordings -> Task]
    BY <1>11, <1>a, <1>b, <2>1, UpdatedTyped DEF GetInfo
  <2> QED
    BY <1>11, <1>a, <1>b, <1>c, <2>2 DEF GetInfo, TypeOK
<1>12. ASSUME NEW r \in Recordings, SetInfo(r) PROVE TypeOK'
  <2>2. task' \in [Recordings -> Task]
    BY <1>12, <1>a, UpdatedTyped DEF SetInfo
  <2>3. task[r].copy \in Info
    BY <1>12, <1>b DEF SetInfo, At, Sound, RecordingSound, TaskSound, Task
  <2> QED
    BY <1>12, <1>a, <1>b, <1>c, <2>2, <2>3, SavedTyped DEF SetInfo, TypeOK
<1>13. ASSUME NEW r \in Recordings, Expire(r) PROVE TypeOK'
  BY <1>13, <1>a DEF Expire, TypeOK
<1>14. ASSUME NEW q \in Requests, NEW r \in Recordings,
              StopRecording(q, r) \/ DeleteRecording(q, r)
       PROVE  TypeOK'
  <2>1. PICK pc \in {"stop", "del"} : Load(q, r, pc)
    BY <1>14 DEF StopRecording, DeleteRecording
  <2>2. [pc |-> pc, id |-> r, ended |-> At(r, "done"), copy |-> [info[r] EXCEPT !.status = "stopped"]]
          \in UserRequest
    <3>1. [info[r] EXCEPT !.status = "stopped"] \in Info
      <4>1. info[r] \in Info
        BY <1>a, <2>1 DEF Load, TypeOK
      <4> QED
        BY <4>1 DEF Info
    <3> QED
      BY <3>1 DEF UserRequest, At
  <2> QED
    BY <2>1, <2>2, <1>a, <1>b, <1>c DEF Load, TypeOK
<1>15. ASSUME NEW q \in Requests, Serve(q) PROVE TypeOK'
  <2>0. NoRequest \in UserRequest
    BY DEF NoRequest, UserRequest
  <2>1. CASE SaveStopped(q)
    <3>1. request[q].copy \in Info
      BY <2>1, <1>e DEF SaveStopped
    <3> QED
      BY <2>1, <2>0, <3>1, <1>a, <1>b, <1>c, SavedTyped DEF SaveStopped, TypeOK
  <2>2. CASE DeleteKey(q)
    <3>1. [request[q] EXCEPT !.pc = "unlink"] \in UserRequest
      BY <1>b DEF UserRequest
    <3>2. request' \in [Requests -> UserRequest]
      BY <2>0, <2>2, <3>1, <1>b DEF DeleteKey
    <3> QED
      BY <2>2, <3>2, <1>a, <1>b, <1>c DEF DeleteKey, TypeOK
  <2>3. CASE UnlinkFile(q)
    <3>1. request[q].copy.path \in Paths
      BY <2>3, <1>e DEF UnlinkFile, Info
    <3> QED
      BY <2>3, <2>0, <3>1, <1>a, <1>b, <1>c, Removal DEF UnlinkFile, TypeOK
  <2> QED
    BY <1>15, <2>1, <2>2, <2>3 DEF Serve
<1>16. CASE Crash
  <2>1. \A r \in Recordings : [task[r] EXCEPT !.pc = "done", !.updates = 0, !.copy = NoInfo] \in Task
    <3> SUFFICES ASSUME NEW r \in Recordings
                 PROVE  [task[r] EXCEPT !.pc = "done", !.updates = 0, !.copy = NoInfo] \in Task
      OBVIOUS
    <3>1. task[r] \in Task
      BY <1>b
    <3>2. "done" \in Steps /\ 0 \in 0..1 /\ NoInfo \in Info \cup {NoInfo}
      BY DEF Steps
    <3> QED
      BY <3>1, <3>2 DEF Task
  <2>2. task' \in [Recordings -> Task]
    BY <1>16, <1>b, <2>1 DEF Crash
  <2>3. NoRequest \in UserRequest
    BY DEF NoRequest, UserRequest
  <2>4. crashes' \in 0..MaxCrashes
    <3>1. crashes \in 0..MaxCrashes /\ crashes < MaxCrashes /\ crashes' = crashes + 1
      BY <1>16, <1>a DEF Crash, TypeOK
    <3> QED
      BY <3>1, MaxCrashesNat
  <2> QED
    BY <1>16, <2>2, <2>3, <2>4, <1>a, <1>b, <1>c DEF Crash, TypeOK
<1>17. ASSUME NEW r \in Recordings, RemoveTemp(r) PROVE TypeOK'
  <2>1. task' \in [Recordings -> Task]
    BY <1>17, <1>a, MovedTyped DEF RemoveTemp, Reported, Steps
  <2>2. PICK p \in {TempAACPath(task[r].path), TaggingPath(task[r].path)} : RemoveFile(p)
    BY <1>17 DEF RemoveTemp
  <2>3. p \in Paths
    BY <1>17, OwnFiles DEF RemoveTemp, At
  <2> QED
    BY <1>17, <1>a, <1>b, <1>c, <2>1, <2>2, <2>3, Removal DEF RemoveTemp, TypeOK
<1> QED
  BY <1>1, <1>2, <1>3, <1>4, <1>5, <1>6, <1>7, <1>8, <1>9, <1>10, <1>11, <1>12, <1>13,
     <1>14, <1>15, <1>16, <1>17 DEF Next, RunTask

-----------------------------------------------------------------------------
(* What a step leaves alone *)

\* Goto changes the step of one goroutine and nothing else of it.
LEMMA MovedFields ==
  ASSUME TypeOK, NEW r \in Recordings, NEW step, Goto(r, step)
  PROVE  /\ task'[r] = [task[r] EXCEPT !.pc = step]
         /\ task'[r].pc = step /\ task'[r].path = task[r].path /\ task'[r].target = task[r].target
         /\ task'[r].outcome = task[r].outcome /\ task'[r].copy = task[r].copy
         /\ \A x \in Recordings \ {r} : task'[x] = task[x]
BY DEF TypeOK, Goto

\* A failed goroutine keeps its path and goes back to the name it had first.
LEMMA FailedFields ==
  ASSUME TypeOK, NEW r \in Recordings, NEW step, Fail(r, step)
  PROVE  /\ task'[r].pc = step /\ task'[r].path = task[r].path /\ task'[r].target = task[r].path
         /\ task'[r].outcome = "failed" /\ task'[r].copy = task[r].copy
         /\ \A x \in Recordings \ {r} : task'[x] = task[x]
BY DEF TypeOK, Fail

\* A step does not touch a file.
SameFile(p) == disk'[p] = disk[p] /\ (p \in stuck' <=> p \in stuck)

\* Two recordings of which one is of a programme of its own share no file.
LEMMA StemsApart ==
  ASSUME NEW q \in Recordings, NEW r \in Recordings, q # r, Alone(r)
  PROVE  {ProgramOf[q], q} \cap {ProgramOf[r], r} = {}
<1>1. ProgramOf[q] \in Programs /\ ProgramOf[r] \in Programs
  BY ConstantsAssumption
<1>2. q \notin Programs /\ r \notin Programs
  BY ConstantsAssumption
<1> QED
  BY <1>1, <1>2 DEF Alone

\* A goroutine writes under the stem of its path only.
LEMMA WritesOwnStem ==
  ASSUME Sound, NEW r \in Recordings, RunTask(r)
  PROVE  \A p \in Paths : p[1] # task[r].path[1] => SameFile(p)
<1>1. ~At(r, "idle")
  BY DEF RunTask, SaveStarted, CreateOutput, WriteOutput, LoadInfo, RemuxAAC, ReplaceFinal, RemoveTemp,
         StoreOutcome, ResaveInfo, GetInfo, SetInfo, At
<1>2. /\ task[r].target[1] = task[r].path[1]
      /\ TempAACPath(task[r].path)[1] = task[r].path[1]
      /\ TaggingPath(task[r].path)[1] = task[r].path[1]
  BY <1>1, OwnFiles DEF TempAACPath, TaggingPath
<1>3. disk \in [Paths -> {"none", "partial", "whole"}]
  BY DEF Sound, TypeOK
<1>4. CASE CreateOutput(r)
  BY <1>2, <1>3, <1>4 DEF CreateOutput, SameFile
<1>5. CASE WriteOutput(r)
  BY <1>2, <1>3, <1>5 DEF WriteOutput, SameFile
<1>6. CASE RemuxAAC(r)
  BY <1>2, <1>3, <1>6 DEF RemuxAAC, SameFile
<1>7. CASE ReplaceFinal(r)
  BY <1>2, <1>3, <1>7 DEF ReplaceFinal, Renamed, SameFile
<1>8. CASE UNCHANGED <<disk, stuck>>
  BY <1>8 DEF SameFile
<1>9. CASE RemoveTemp(r)
  <2>1. PICK x \in {TempAACPath(task[r].path), TaggingPath(task[r].path)} : RemoveFile(x)
    BY <1>9 DEF RemoveTemp
  <2>2. x \in Paths /\ x[1] = task[r].path[1] /\ TypeOK
    BY <1>1, <1>2, <2>1, OwnFiles DEF Sound
  <2> QED
    BY <2>1, <2>2, Removal DEF SameFile
<1> QED
  BY <1>4, <1>5, <1>6, <1>7, <1>8, <1>9 DEF RunTask, SaveStarted, LoadInfo,
         StoreOutcome, ResaveInfo, GetInfo, SetInfo

\* The scheduler's goroutine takes a copy of the RecordingInfo and changes its status.
Look(r) ==
    /\ info[r] # NoInfo
    /\ task' = [task EXCEPT ![r].pc = "set", ![r].copy = [info[r] EXCEPT !.status = task[r].outcome]]

\* What the copy is.
LEMMA LookFields ==
  ASSUME TypeOK, NEW r \in Recordings, Look(r)
  PROVE  \E rec \in Info :
            /\ rec.path = info[r].path /\ rec.status = task[r].outcome
            /\ task'[r].pc = "set" /\ task'[r].copy = rec
            /\ task'[r].path = task[r].path /\ task'[r].target = task[r].target
            /\ task'[r].outcome = task[r].outcome
            /\ \A x \in Recordings \ {r} : task'[x] = task[x]
<1> DEFINE rec == [info[r] EXCEPT !.status = task[r].outcome]
<1>1. info[r] \in Info /\ task[r].outcome \in {"completed", "failed"}
  BY DEF Look, TypeOK
<1>2. rec \in Info /\ rec.path = info[r].path /\ rec.status = task[r].outcome
  BY <1>1 DEF Info
<1>3. task' = [task EXCEPT ![r].pc = "set", ![r].copy = rec]
  BY DEF Look
<1> HIDE DEF rec
<1>4. /\ task'[r].pc = "set" /\ task'[r].copy = rec
      /\ task'[r].path = task[r].path /\ task'[r].target = task[r].target
      /\ task'[r].outcome = task[r].outcome
      /\ \A x \in Recordings \ {r} : task'[x] = task[x]
  BY <1>3 DEF TypeOK
<1> QED
  BY <1>2, <1>4

\* A step of a goroutine moves it on or fails it; three steps change more of it.
LEMMA RunMoves ==
  ASSUME NEW r \in Recordings, RunTask(r)
  PROVE  \/ \E step \in Steps \ {"idle", "save"} : Goto(r, step) \/ Fail(r, step)
         \/ task' = [task EXCEPT ![r].pc = "replace", ![r].target = FallbackAACPath(task[r].path)]
         \/ Look(r)
         \/ Updated(r)
<1> DEFINE Moves == \E step \in Steps \ {"idle", "save"} : Goto(r, step) \/ Fail(r, step)
<1>1. SaveStarted(r) => Moves
  <2>1. "create" \in Steps \ {"idle", "save"} /\ "done" \in Steps \ {"idle", "save"}
    BY DEF Steps
  <2> QED
    BY <2>1 DEF SaveStarted
<1>2. CreateOutput(r) => Moves
  BY DEF CreateOutput, FailMedia, Steps
<1>3. WriteOutput(r) => Moves
  BY DEF WriteOutput, FailMedia, Steps
<1>4. LoadInfo(r) => Moves
  BY DEF LoadInfo, Steps
<1>5. RemuxAAC(r) =>
        Moves \/ task' = [task EXCEPT ![r].pc = "replace", ![r].target = FallbackAACPath(task[r].path)]
  BY DEF RemuxAAC, Steps
<1>6. ReplaceFinal(r) => Moves
  BY DEF ReplaceFinal, Reported, Steps
<1>7. StoreOutcome(r) \/ ResaveInfo(r) \/ RemoveTemp(r) => Moves
  BY DEF StoreOutcome, ResaveInfo, RemoveTemp, Reported, Steps
<1>8. GetInfo(r) => Look(r) \/ Updated(r)
  BY DEF GetInfo, Look
<1> HIDE DEF Moves
<1>9. \/ Moves
      \/ task' = [task EXCEPT ![r].pc = "replace", ![r].target = FallbackAACPath(task[r].path)]
      \/ Look(r)
      \/ Updated(r)
  BY <1>1, <1>2, <1>3, <1>4, <1>5, <1>6, <1>7, <1>8 DEF RunTask, SetInfo
<1> QED
  BY <1>9 DEF Moves

\* A goroutine changes nothing of another one, of the requests or of what was erased.
LEMMA TouchesOwn ==
  ASSUME Sound, NEW r \in Recordings, RunTask(r)
  PROVE  /\ UNCHANGED <<request, erased, crashes>>
         /\ \A x \in Recordings \ {r} : task'[x] = task[x] /\ info'[x] = info[x]
         /\ task'[r].path = task[r].path
         /\ task[r].pc \notin {"idle", "done"} /\ task'[r].pc \notin {"idle", "save"}
<1>1. TypeOK
  BY DEF Sound
<1>2. /\ UNCHANGED <<request, erased, crashes>>
      /\ task[r].pc \notin {"idle", "done"}
  BY DEF RunTask, SaveStarted, CreateOutput, WriteOutput, LoadInfo, RemuxAAC, ReplaceFinal, RemoveTemp,
         StoreOutcome, ResaveInfo, GetInfo, SetInfo, At
<1>3. \A x \in Recordings \ {r} : info'[x] = info[x]
  BY <1>1 DEF TypeOK, RunTask, SaveStarted, CreateOutput, WriteOutput, LoadInfo, RemuxAAC, ReplaceFinal, RemoveTemp,
         StoreOutcome, ResaveInfo, GetInfo, SetInfo, saveRecordingInfo
<1>4. /\ \A x \in Recordings \ {r} : task'[x] = task[x]
      /\ task'[r].path = task[r].path /\ task'[r].pc \notin {"idle", "save"}
  <2>1. CASE \E step \in Steps \ {"idle", "save"} : Goto(r, step) \/ Fail(r, step)
    <3>1. PICK step \in Steps \ {"idle", "save"} : Goto(r, step) \/ Fail(r, step)
      BY <2>1
    <3>2. CASE Goto(r, step)
      BY <3>2, <1>1, MovedFields
    <3>3. CASE Fail(r, step)
      BY <3>3, <1>1, FailedFields
    <3> QED
      BY <3>1, <3>2, <3>3
  <2>2. CASE task' = [task EXCEPT ![r].pc = "replace", ![r].target = FallbackAACPath(task[r].path)]
    BY <2>2, <1>1 DEF TypeOK
  <2>3. CASE Look(r)
    BY <2>3, <1>1, LookFields
  <2>4. CASE Updated(r)
    BY <2>4, <1>1, UpdatedTyped
  <2> QED
    BY <2>1, <2>2, <2>3, <2>4, RunMoves
<1> QED
  BY <1>2, <1>3, <1>4

\* What is said of a recording stays true as long as its goroutine, what was erased of it
\* and its files do not change, and every new copy of its RecordingInfo is sound.
LEMMA Untouched ==
  ASSUME Sound, NEW r \in Recordings,
         task'[r] = task[r], erased'[r] = erased[r], crashes' = crashes,
         \A c \in Copies(r)' : c \in Copies(r) \/ CopySound(r, c)',
         Alone(r) => \A p \in Paths : p[1] \in {ProgramOf[r], r} => SameFile(p),
         \A q \in Requests : Unlinking(q, r) => Unlinking(q, r)'
  PROVE  RecordingSound(r)'
<1>1. RecordingSound(r)
  BY DEF Sound
<1>2. Alone(r) /\ ~At(r, "idle") =>
        /\ SameFile(TempAACPath(task[r].path))
        /\ SameFile(TaggingPath(task[r].path))
        /\ SameFile(task[r].target)
  <2> SUFFICES ASSUME Alone(r), ~At(r, "idle")
               PROVE  /\ SameFile(TempAACPath(task[r].path))
                      /\ SameFile(TaggingPath(task[r].path))
                      /\ SameFile(task[r].target)
    OBVIOUS
  <2>1. /\ task[r].target[1] = task[r].path[1]
        /\ TempAACPath(task[r].path)[1] = task[r].path[1]
        /\ TaggingPath(task[r].path)[1] = task[r].path[1]
        /\ task[r].path[1] \in {ProgramOf[r], r}
    BY OwnFiles DEF TempAACPath, TaggingPath
  <2> QED
    BY <2>1, OwnFiles
<1>3. TaskSound(r)'
  BY <1>1 DEF RecordingSound, TaskSound
<1>4. Finished(r) => Finished(r)'
  BY <1>2 DEF Finished, Converted, Kept, SameFile, After, At, Alone
<1>5. ASSUME NEW c \in Copies(r)' PROVE CopySound(r, c)'
  <2>1. CASE c \in Copies(r)
    BY <1>1, <1>4, <2>1 DEF RecordingSound, CopySound
  <2> QED
    BY <2>1
<1>6. WorkSound(r)'
  BY <1>1, <1>2, <1>4 DEF RecordingSound, WorkSound, From, At, Alone, Converted, SameFile
<1>7. EraseSound(r)'
  BY <1>1, <1>2 DEF RecordingSound, EraseSound, At, Alone, Kept, SameFile
<1> QED
  BY <1>3, <1>5, <1>6, <1>7 DEF RecordingSound

\* A copy that was sound stays so while its goroutine moves on: before the conversion it
\* is not completed and names the path, afterwards the target stays what it is.
LEMMA CopyKept ==
  ASSUME Sound, NEW r \in Recordings, NEW c \in Copies(r),
         task'[r].path = task[r].path, task'[r].pc \notin {"idle", "save"},
         task[r].pc \in After =>
            /\ task'[r].pc \in After /\ task'[r].target = task[r].target
            /\ Finished(r) => Finished(r)'
  PROVE  CopySound(r, c)'
<1>1. CopySound(r, c)
  BY DEF Sound, RecordingSound
<1>2. CASE task[r].pc \in After
  BY <1>1, <1>2 DEF CopySound
<1>3. CASE task[r].pc \notin After
  BY <1>1, <1>3 DEF CopySound, Finished
<1> QED
  BY <1>2, <1>3

\* The copies after a step are copies of before, or what was just stored.
LEMMA CopiesFrom ==
  ASSUME NEW r \in Recordings, NEW rec,
         info'[r] \in {info[r], NoInfo, rec},
         task'[r].copy \in {task[r].copy, NoInfo, rec},
         \A q \in Requests : request'[q].id = r =>
            \/ request[q].id = r /\ request'[q].copy = request[q].copy
            \/ request'[q].copy \in {NoInfo, rec}
  PROVE  \A c \in Copies(r)' : c \in Copies(r) \/ (c = rec /\ rec # NoInfo)
BY DEF Copies

\* Before its key is written a recording has no RecordingInfo anywhere.
LEMMA NoCopiesYet ==
  ASSUME Sound, NEW r \in Recordings, task[r].pc \in {"idle", "save"}
  PROVE  Copies(r) = {}
BY DEF Sound, RecordingSound, CopySound

-----------------------------------------------------------------------------
(* The goroutines *)

\* A step of a goroutine before the conversion is done keeps what is said of its recording,
\* as long as it fails properly and leaves what the next step reads.
LEMMA EarlyStep ==
  ASSUME Sound, NEW r \in Recordings, RunTask(r), task[r].pc \notin After, TaskSound(r)', WorkSound(r)',
         \A c \in Copies(r)' : c \in Copies(r) \/ CopySound(r, c)'
  PROVE  RecordingSound(r)'
<1>1. RecordingSound(r)
  BY DEF Sound
<1>2. task'[r].path = task[r].path /\ task'[r].pc \notin {"idle", "save"} /\ erased' = erased
  BY TouchesOwn
<1>3. \A c \in Copies(r)' : CopySound(r, c)'
  BY <1>2, CopyKept
<1>4. EraseSound(r)'
  BY <1>1, <1>2 DEF RecordingSound, EraseSound, At, After
<1> QED
  BY <1>3, <1>4 DEF RecordingSound

\* The start.
LEMMA BeginSound ==
  ASSUME Sound, NEW r \in Recordings, Begin(r)
  PROVE  RecordingSound(r)'
<1>1. RecordingSound(r) /\ TypeOK /\ At(r, "idle")
  BY DEF Sound, Begin
<1>2. /\ task'[r].pc = "save" /\ task'[r].path = NewPath(r) /\ task'[r].target = NewPath(r)
      /\ task'[r].outcome = task[r].outcome /\ task'[r].copy = task[r].copy
  BY <1>1 DEF TypeOK, Begin
<1>3. NewPath(r) \in {Final(ProgramOf[r]), Final(r)}
  BY DEF NewPath
<1>4. TaskSound(r)'
  BY <1>1, <1>2, <1>3 DEF RecordingSound, TaskSound, At, After
<1>5. Copies(r)' = {}
  <2>1. Copies(r) = {}
    BY <1>1, NoCopiesYet DEF At
  <2> QED
    BY <2>1, <1>2 DEF Copies, Begin
<1>6. WorkSound(r)'
  BY <1>2 DEF WorkSound, After
<1>7. EraseSound(r)'
  BY <1>1, <1>2 DEF Begin, RecordingSound, EraseSound, At
<1> QED
  BY <1>4, <1>5, <1>6, <1>7 DEF RecordingSound

\* The first key.
LEMMA SaveStartedSound ==
  ASSUME Sound, NEW r \in Recordings, SaveStarted(r)
  PROVE  RecordingSound(r)'
<1>0. TypeOK /\ TaskSound(r) /\ task[r].pc = "save"
  BY DEF Sound, RecordingSound, SaveStarted, At
<1>1. RunTask(r) /\ task[r].pc \notin After
  BY <1>0 DEF RunTask, After
<1>2. PICK step \in {"create", "done"} : Goto(r, step)
  BY DEF SaveStarted
<1>3. /\ task'[r].pc = step /\ task'[r].path = task[r].path /\ task'[r].target = task[r].target
      /\ task'[r].outcome = task[r].outcome /\ task'[r].copy = task[r].copy
  BY <1>0, <1>2, MovedFields
<1>4. TaskSound(r)' /\ WorkSound(r)'
  BY <1>0, <1>3 DEF TaskSound, WorkSound, After
<1> DEFINE rec == [status |-> "recording", path |-> task[r].path]
<1>5. \A c \in Copies(r)' : c \in Copies(r) \/ c = rec
  <2>1. info'[r] \in {info[r], NoInfo, rec}
    BY <1>0 DEF SaveStarted, TypeOK
  <2>2. request' = request
    BY DEF SaveStarted
  <2> HIDE DEF rec
  <2> QED
    BY <2>1, <2>2, <1>3, CopiesFrom
<1>6. ASSUME NEW c \in Copies(r)', c = rec PROVE CopySound(r, c)'
  <2>1. rec \in Info
    BY <1>0, OwnFiles, InfoTyped DEF At
  <2> QED
    BY <1>6, <2>1, <1>3 DEF CopySound
<1>7. \A c \in Copies(r)' : c \in Copies(r) \/ CopySound(r, c)'
  BY <1>5, <1>6
<1> QED
  BY <1>1, <1>4, <1>7, EarlyStep

\* A goroutine whose media work failed before the conversion was done.
LEMMA FailedSound ==
  ASSUME Sound, NEW r \in Recordings, RunTask(r), task[r].pc \notin After,
         NEW step \in (IF r \in Scheduled THEN {"get"} ELSE {"load", "store"})
                        \cup (IF HasFFmpeg THEN {"tidy"} ELSE {}),
         Fail(r, step), info' = info
  PROVE  RecordingSound(r)'
<1>0. TypeOK /\ TaskSound(r) /\ task[r].pc # "idle"
  <2>1. task[r].pc # "idle"
    BY TouchesOwn
  <2> QED
    BY <2>1 DEF Sound, RecordingSound
<1>2. /\ task'[r].pc = step /\ task'[r].path = task[r].path /\ task'[r].target = task[r].path
      /\ task'[r].outcome = "failed" /\ task'[r].copy = task[r].copy
  BY <1>0, FailedFields
<1>3. TaskSound(r)' /\ WorkSound(r)'
  <2>1. CASE r \in Scheduled
    BY <2>1, <1>0, <1>2 DEF TaskSound, WorkSound, After
  <2>2. CASE r \notin Scheduled
    BY <2>2, <1>0, <1>2 DEF TaskSound, WorkSound, After
  <2> QED
    BY <2>1, <2>2
<1>4. \A c \in Copies(r)' : c \in Copies(r)
  <2>1. request' = request
    BY TouchesOwn
  <2> QED
    BY <1>2, <2>1, CopiesFrom
<1> QED
  BY <1>3, <1>4, EarlyStep

\* The download.
LEMMA DownloadSound ==
  ASSUME Sound, NEW r \in Recordings, CreateOutput(r) \/ WriteOutput(r)
  PROVE  RecordingSound(r)'
<1>0. TypeOK /\ TaskSound(r) /\ task[r].pc \in {"create", "write"}
  BY DEF Sound, RecordingSound, CreateOutput, WriteOutput, At
<1>1. RunTask(r) /\ task[r].pc \notin After
  BY <1>0 DEF RunTask, After
<1>2. info' = info /\ request' = request
  BY DEF CreateOutput, WriteOutput
<1>3. CASE FailMedia(r)
  <2>1. CASE r \in Scheduled
    BY <1>1, <1>2, <1>3, <2>1, FailedSound DEF FailMedia
  <2>2. CASE r \notin Scheduled
    BY <1>1, <1>2, <1>3, <2>2, FailedSound DEF FailMedia
  <2> QED
    BY <2>1, <2>2
<1>4. CASE ~FailMedia(r)
  <2>1. \/ task[r].pc = "create" /\ Goto(r, "write")
        \/ /\ task[r].pc = "write" /\ Goto(r, IF r \in Scheduled THEN "remux" ELSE "load")
           /\ disk[TempAACPath(task[r].path)] # "none"
           /\ \E content \in {"whole"} \cup (IF Shared(r) THEN {"partial"} ELSE {}) :
                disk' = [disk EXCEPT ![TempAACPath(task[r].path)] = content]
    BY <1>4 DEF CreateOutput, WriteOutput, At
  <2>2. PICK step \in (IF r \in Scheduled THEN {"write", "remux"} ELSE {"write", "load"}) : Goto(r, step)
    BY <2>1
  <2>3. /\ task'[r].pc = step /\ task'[r].path = task[r].path /\ task'[r].target = task[r].target
        /\ task'[r].outcome = task[r].outcome /\ task'[r].copy = task[r].copy
    BY <1>0, <2>2, MovedFields
  <2>4. TaskSound(r)'
    BY <1>0, <2>3 DEF TaskSound, After
  <2>5. Alone(r) /\ task[r].pc = "write" => disk'[TempAACPath(task[r].path)] = "whole"
    <3> SUFFICES ASSUME Alone(r), task[r].pc = "write" PROVE disk'[TempAACPath(task[r].path)] = "whole"
      OBVIOUS
    <3>1. ~Shared(r)
      <4> SUFFICES ASSUME NEW q \in Recordings \ {r}, task[q].path = task[r].path, ~At(q, "idle")
                   PROVE  FALSE
        BY DEF Shared, At
      <4>1. task[q].path[1] \in {ProgramOf[q], q} /\ task[r].path[1] \in {ProgramOf[r], r}
        BY OwnFiles DEF At
      <4> QED
        BY <4>1, StemsApart
    <3>2. disk' = [disk EXCEPT ![TempAACPath(task[r].path)] = "whole"]
      BY <2>1, <3>1
    <3>3. TempAACPath(task[r].path) \in Paths
      BY OwnFiles DEF At
    <3> QED
      BY <1>0, <3>2, <3>3 DEF TypeOK
  <2>6. WorkSound(r)'
    <3>1. CASE task[r].pc = "create"
      <4>1. task'[r].pc = "write"
        BY <1>0, <2>1, <3>1, MovedFields
      <4> QED
        BY <4>1 DEF WorkSound, After
    <3>2. CASE task[r].pc = "write"
      <4>1. task'[r].pc \in {"remux", "load"}
        BY <1>0, <2>1, <3>2, MovedFields
      <4> QED
        BY <4>1, <3>2, <2>3, <2>5 DEF WorkSound, After, From, Alone
    <3> QED
      BY <1>0, <3>1, <3>2
  <2>7. \A c \in Copies(r)' : c \in Copies(r)
    BY <1>2, <2>3, CopiesFrom
  <2> QED
    BY <1>1, <2>4, <2>6, <2>7, EarlyStep
<1> QED
  BY <1>3, <1>4

\* The look for a stop.
LEMMA LoadInfoSound ==
  ASSUME Sound, NEW r \in Recordings, LoadInfo(r)
  PROVE  RecordingSound(r)'
<1>0. TypeOK /\ TaskSound(r) /\ WorkSound(r) /\ task[r].pc = "load"
  BY DEF Sound, RecordingSound, LoadInfo, At
<1>1. RunTask(r) /\ task[r].pc \notin After
  BY <1>0 DEF RunTask, After
<1>2. PICK step \in {"done", "store", "remux"} :
        Goto(r, step) /\ step = (IF step = "done" THEN "done" ELSE IF task[r].outcome = "failed" THEN "store" ELSE "remux")
  BY DEF LoadInfo
<1>3. /\ task'[r].pc = step /\ task'[r].path = task[r].path /\ task'[r].target = task[r].target
      /\ task'[r].outcome = task[r].outcome /\ task'[r].copy = task[r].copy
  BY <1>0, <1>2, MovedFields
<1>4. task[r].outcome \in {"completed", "failed"}
  BY <1>0 DEF TypeOK
<1>5. TaskSound(r)'
  BY <1>0, <1>2, <1>3, <1>4 DEF TaskSound, After
<1>6. WorkSound(r)'
  <2>1. disk' = disk
    BY DEF LoadInfo
  <2> QED
    BY <1>0, <1>2, <1>3, <1>4, <2>1 DEF WorkSound, After, From, Alone
<1>7. \A c \in Copies(r)' : c \in Copies(r)
  <2>1. info' = info /\ request' = request
    BY DEF LoadInfo
  <2> QED
    BY <2>1, <1>3, CopiesFrom
<1> QED
  BY <1>1, <1>5, <1>6, <1>7, EarlyStep

\* The conversion.
LEMMA RemuxSound ==
  ASSUME Sound, NEW r \in Recordings, RemuxAAC(r)
  PROVE  RecordingSound(r)'
<1>0. TypeOK /\ TaskSound(r) /\ WorkSound(r) /\ task[r].pc = "remux" /\ task[r].outcome = "completed"
  BY DEF Sound, RecordingSound, TaskSound, RemuxAAC, At
<1>1. RunTask(r) /\ task[r].pc \notin After
  BY <1>0 DEF RunTask, After
<1>2. info' = info /\ request' = request
  BY DEF RemuxAAC
<1>3. CASE HasFFmpeg /\ Fail(r, "tidy")
  BY <1>1, <1>2, <1>3, FailedSound
<1>4. CASE ~(HasFFmpeg /\ Fail(r, "tidy"))
  <2>f. /\ TempAACPath(task[r].path) \in Paths /\ TaggingPath(task[r].path) \in Paths
        /\ task[r].path \in Paths
    BY <1>0, OwnFiles DEF At
  <2>1. /\ task'[r].pc = "replace" /\ task'[r].path = task[r].path
        /\ task'[r].outcome = "completed" /\ task'[r].copy = task[r].copy
        /\ HasFFmpeg => task'[r].target = task[r].target
        /\ ~HasFFmpeg => task'[r].target = FallbackAACPath(task[r].path)
    <3>1. CASE HasFFmpeg
      BY <1>0, <1>4, <3>1, MovedFields DEF RemuxAAC
    <3>2. CASE ~HasFFmpeg
      BY <1>0, <3>2 DEF RemuxAAC, TypeOK
    <3> QED
      BY <3>1, <3>2
  <2>2. \/ task'[r].target = task[r].target
        \/ \E n \in Numbers : task'[r].target = <<task[r].path[1], <<"aac", n>>>>
    <3>1. CASE HasFFmpeg
      BY <2>1, <3>1
    <3>2. CASE ~HasFFmpeg
      BY <2>1, <2>f, <3>2, FallbackFound
    <3> QED
      BY <3>1, <3>2
  <2>3. TaskSound(r)'
    BY <1>0, <2>1, <2>2 DEF TaskSound, After, Numbers
  <2>4. disk'[From(r)'] = disk[From(r)]
    <3>1. From(r) = TempAACPath(task[r].path)
      BY <1>0 DEF From
    <3>2. CASE HasFFmpeg
      <4>1. disk' = [disk EXCEPT ![TaggingPath(task[r].path)] = disk[TempAACPath(task[r].path)]]
        BY <3>2, <1>4 DEF RemuxAAC
      <4>2. From(r)' = TaggingPath(task[r].path)
        BY <2>1, <3>2 DEF From
      <4> QED
        BY <1>0, <2>f, <3>1, <4>1, <4>2 DEF TypeOK
    <3>3. CASE ~HasFFmpeg
      <4>1. disk' = disk
        BY <3>3 DEF RemuxAAC
      <4>2. From(r)' = TempAACPath(task[r].path)
        BY <2>1, <3>3 DEF From
      <4> QED
        BY <3>1, <4>1, <4>2
    <3> QED
      BY <3>2, <3>3
  <2>5. WorkSound(r)'
    BY <1>0, <2>1, <2>4 DEF WorkSound, After, Alone
  <2>6. \A c \in Copies(r)' : c \in Copies(r)
    BY <1>2, <2>1, CopiesFrom
  <2> QED
    BY <1>1, <2>3, <2>5, <2>6, EarlyStep
<1> QED
  BY <1>3, <1>4

\* The final file: what the conversion leaves is finished.
LEMMA ReplaceSound ==
  ASSUME Sound, NEW r \in Recordings, ReplaceFinal(r)
  PROVE  RecordingSound(r)'
<1>0. TypeOK /\ TaskSound(r) /\ WorkSound(r) /\ task[r].pc = "replace" /\ task[r].outcome = "completed"
  BY DEF Sound, RecordingSound, TaskSound, ReplaceFinal, At
<1>1. RunTask(r) /\ task[r].pc \notin After
  BY <1>0 DEF RunTask, After
<1>2. info' = info /\ request' = request
  BY DEF ReplaceFinal
<1>3. CASE Fail(r, IF HasFFmpeg THEN "tidy" ELSE Reported(r))
  <2>1. PICK step \in (IF r \in Scheduled THEN {"get"} ELSE {"load", "store"})
                        \cup (IF HasFFmpeg THEN {"tidy"} ELSE {}) : Fail(r, step)
    BY <1>3 DEF Reported
  <2> QED
    BY <1>1, <1>2, <2>1, FailedSound
<1>4. CASE ~Fail(r, IF HasFFmpeg THEN "tidy" ELSE Reported(r))
  <2> DEFINE temp == TempAACPath(task[r].path)
             tagging == TaggingPath(task[r].path)
             target == task[r].target
  <2>f. /\ temp \in Paths /\ tagging \in Paths /\ target \in Paths
        /\ temp # tagging /\ target \notin {temp, tagging}
    BY <1>0, OwnFiles DEF At
  <2>g. From(r) = IF HasFFmpeg THEN tagging ELSE temp
    BY <1>0 DEF From
  <2>h. /\ disk[From(r)] # "none" /\ disk' = Renamed(From(r), target)
        /\ Goto(r, IF HasFFmpeg THEN "tidy"
                   ELSE IF r \notin Scheduled THEN "store"
                   ELSE IF task[r].target # task[r].path THEN "resave" ELSE "get")
    BY <1>4, <2>g DEF ReplaceFinal
  <2>1. PICK step \in (IF HasFFmpeg THEN {"tidy"}
                       ELSE IF r \in Scheduled THEN {"resave", "get"} ELSE {"store"}) : Goto(r, step)
    BY <2>h
  <2>2. /\ task'[r].pc = step /\ task'[r].path = task[r].path /\ task'[r].target = task[r].target
        /\ task'[r].outcome = "completed" /\ task'[r].copy = task[r].copy
    BY <1>0, <2>1, MovedFields
  <2>3. TaskSound(r)'
    BY <1>0, <2>1, <2>2 DEF TaskSound, After
  <2>t. disk \in [Paths -> {"none", "partial", "whole"}]
    BY <1>0 DEF TypeOK
  <2>4. disk'[From(r)] = "none" /\ disk'[target] = disk[From(r)]
    <3> HIDE DEF temp, tagging, target
    <3>1. disk' = [disk EXCEPT ![target] = disk[From(r)], ![From(r)] = "none"]
      BY <2>h DEF Renamed
    <3> QED
      BY <3>1, <2>t, <2>f, <2>g
  <2>5. disk'[tagging] = "none"
    <3>1. CASE HasFFmpeg
      BY <2>4, <2>g, <3>1
    <3>2. CASE ~HasFFmpeg
      <4>1. disk' = [disk EXCEPT ![target] = disk[temp], ![temp] = "none"]
        BY <2>g, <2>h, <3>2 DEF Renamed
      <4>3. disk[tagging] = "none"
        <5>1. task[r].path[1] \in Stems
          BY <1>0, OwnFiles, PathFacts DEF At
        <5> QED
          BY <3>2, <5>1 DEF Sound, Untagged, TaggingPath
      <4> HIDE DEF temp, tagging, target
      <4> QED
        BY <4>1, <4>3, <2>f, <2>t
    <3> QED
      BY <3>1, <3>2
  <2>6. Alone(r) => disk[From(r)] = "whole"
    BY <1>0, <2>h DEF WorkSound
  <2>7. Converted(r)'
    BY <2>2, <2>4, <2>5, <2>6 DEF Converted, Alone
  <2>8. WorkSound(r)'
    <3>1. CASE HasFFmpeg
      BY <2>1, <2>2, <2>7, <3>1 DEF WorkSound, After
    <3>2. CASE ~HasFFmpeg
      <4>1. Finished(r)'
        BY <2>1, <2>2, <2>4, <2>7, <2>g, <3>2 DEF Finished, Kept, After, Alone
      <4> QED
        BY <2>1, <2>2, <3>2, <4>1 DEF WorkSound, After
    <3> QED
      BY <3>1, <3>2
  <2>9. \A c \in Copies(r)' : c \in Copies(r)
    BY <1>2, <2>2, CopiesFrom
  <2> QED
    BY <1>1, <2>3, <2>8, <2>9, EarlyStep
<1> QED
  BY <1>3, <1>4

\* The removal after the conversion, which may fail.
LEMMA RemoveTempSound ==
  ASSUME Sound, NEW r \in Recordings, RemoveTemp(r)
  PROVE  RecordingSound(r)'
<1>0. TypeOK /\ TaskSound(r) /\ WorkSound(r) /\ task[r].pc = "tidy" /\ HasFFmpeg
  BY DEF Sound, RecordingSound, TaskSound, RemoveTemp, At
<1>1. RunTask(r) /\ task[r].pc \notin After
  BY <1>0 DEF RunTask, After
<1>2. info' = info /\ request' = request /\ erased' = erased
  BY DEF RemoveTemp
<1>3. PICK step \in (IF r \in Scheduled THEN {"get"} ELSE {"store"}) : Goto(r, step)
  BY DEF RemoveTemp, Reported
<1>4. /\ task'[r].pc = step /\ task'[r].path = task[r].path /\ task'[r].target = task[r].target
      /\ task'[r].outcome = task[r].outcome /\ task'[r].copy = task[r].copy
  BY <1>0, <1>3, MovedFields
<1>5. TaskSound(r)'
  BY <1>0, <1>3, <1>4 DEF TaskSound, After
<1>6. ASSUME task[r].outcome = "completed" PROVE Finished(r)'
  <2> DEFINE temp == TempAACPath(task[r].path)
             tagging == TaggingPath(task[r].path)
             target == task[r].target
  <2>f. /\ temp \in Paths /\ tagging \in Paths /\ target \in Paths
        /\ temp # tagging /\ target \notin {temp, tagging}
    BY <1>0, OwnFiles DEF At
  <2>1. RemoveFile(temp)
    BY <1>6 DEF RemoveTemp
  <2>r. PICK file \in Paths : file = temp
    BY <2>f
  <2>k. ~Kept(file)' /\ \A x \in Paths \ {file} : disk'[x] = disk[x]
    BY <1>0, <2>1, <2>r, Removal
  <2>2. ~Kept(file)' /\ disk'[tagging] = disk[tagging] /\ disk'[target] = disk[target]
    BY <2>f, <2>r, <2>k
  <2>3. Converted(r)
    BY <1>0, <1>6 DEF WorkSound
  <2>4. Converted(r)'
    BY <1>2, <1>4, <2>2, <2>3 DEF Converted, Alone
  <2>5. ~Kept(TempAACPath(task[r].path))'
    BY <1>4, <2>2, <2>r DEF Kept
  <2> QED
    BY <1>3, <1>4, <1>6, <2>4, <2>5 DEF Finished, After
<1>7. WorkSound(r)'
  BY <1>3, <1>4, <1>6 DEF WorkSound, After
<1>8. \A c \in Copies(r)' : c \in Copies(r)
  BY <1>2, <1>4, CopiesFrom
<1> QED
  BY <1>1, <1>5, <1>7, <1>8, EarlyStep

\* A step after the conversion: the target stays, and what is written back is sound.
LEMMA LateStep ==
  ASSUME Sound, NEW r \in Recordings, RunTask(r), task[r].pc \in After, UNCHANGED <<disk, stuck>>,
         task'[r].pc \in (IF r \in Scheduled THEN {"get", "set", "done"} ELSE {"done"}),
         task'[r].target = task[r].target, task'[r].outcome = task[r].outcome,
         task'[r].pc = "set" => task'[r].copy # NoInfo,
         \A c \in Copies(r)' : c \in Copies(r) \/ CopySound(r, c)'
  PROVE  RecordingSound(r)'
<1>1. TaskSound(r) /\ WorkSound(r) /\ EraseSound(r)
  BY DEF Sound, RecordingSound
<1>2. /\ task'[r].path = task[r].path /\ task'[r].pc \notin {"idle", "save"} /\ erased' = erased
      /\ task[r].pc \notin {"idle", "done"}
  BY TouchesOwn
<1>3. task'[r].pc \in After
  BY DEF After
<1>4. TaskSound(r)'
  <2>1. CASE r \in Scheduled
    BY <2>1, <1>1, <1>2, <1>3 DEF TaskSound, After
  <2>2. CASE r \notin Scheduled
    BY <2>2, <1>1, <1>2, <1>3 DEF TaskSound, After
  <2> QED
    BY <2>1, <2>2
<1>5. Finished(r) => Finished(r)'
  BY <1>2, <1>3 DEF Finished, Converted, Kept, Alone
<1>6. \A c \in Copies(r)' : CopySound(r, c)'
  BY <1>2, <1>3, <1>5, CopyKept
<1>7. WorkSound(r)'
  BY <1>1, <1>2, <1>3, <1>5 DEF WorkSound, After
<1>8. EraseSound(r)'
  BY <1>1, <1>2 DEF EraseSound, At, Kept
<1> QED
  BY <1>4, <1>6, <1>7, <1>8 DEF RecordingSound

\* The user's outcome.
LEMMA StoreOutcomeSound ==
  ASSUME Sound, NEW r \in Recordings, StoreOutcome(r)
  PROVE  RecordingSound(r)'
<1>0. TypeOK /\ TaskSound(r) /\ WorkSound(r) /\ task[r].pc = "store" /\ r \notin Scheduled
  BY DEF Sound, RecordingSound, TaskSound, StoreOutcome, At
<1>1. RunTask(r) /\ task[r].pc \in After /\ UNCHANGED <<disk, stuck, request, erased>>
  BY <1>0 DEF RunTask, After, StoreOutcome
<1>2. /\ task'[r].pc = "done" /\ task'[r].path = task[r].path /\ task'[r].target = task[r].target
      /\ task'[r].outcome = task[r].outcome /\ task'[r].copy = task[r].copy
  BY <1>0, MovedFields DEF StoreOutcome
<1> DEFINE rec == [status |-> task[r].outcome, path |-> task[r].target]
<1>3. \A c \in Copies(r)' : c \in Copies(r) \/ c = rec
  <2>1. info'[r] \in {info[r], NoInfo, rec}
    BY <1>0 DEF StoreOutcome, saveRecordingInfo, TypeOK
  <2> HIDE DEF rec
  <2> QED
    BY <1>1, <1>2, <2>1, CopiesFrom
<1>4. ASSUME NEW c \in Copies(r)', c = rec PROVE CopySound(r, c)'
  <2>1. task[r].outcome \in {"completed", "failed"} /\ task[r].target \in Paths
    BY <1>0, OwnFiles DEF TypeOK, At
  <2>2. rec \in Info
    BY <2>1, InfoTyped
  <2>3. c.status = "completed" => Finished(r)'
    BY <1>0, <1>1, <1>2, <1>4 DEF WorkSound, Finished, Converted, Kept, After, Alone
  <2> QED
    BY <1>2, <1>4, <2>2, <2>3 DEF CopySound, After
<1> QED
  BY <1>0, <1>1, <1>2, <1>3, <1>4, LateStep

\* The scheduler's new path.
LEMMA ResaveSound ==
  ASSUME Sound, NEW r \in Recordings, ResaveInfo(r)
  PROVE  RecordingSound(r)'
<1>0. TypeOK /\ TaskSound(r) /\ task[r].pc = "resave" /\ r \in Scheduled
  <2>1. TypeOK /\ TaskSound(r) /\ task[r].pc = "resave"
    BY DEF Sound, RecordingSound, ResaveInfo, At
  <2> QED
    BY <2>1 DEF TaskSound
<1>1. RunTask(r) /\ task[r].pc \in After /\ UNCHANGED <<disk, stuck, request>>
  BY <1>0 DEF RunTask, After, ResaveInfo
<1>2. /\ task'[r].pc = "get" /\ task'[r].path = task[r].path /\ task'[r].target = task[r].target
      /\ task'[r].outcome = task[r].outcome /\ task'[r].copy = task[r].copy
  BY <1>0, MovedFields DEF ResaveInfo
<1> DEFINE rec == [status |-> "recording", path |-> task[r].target]
<1>3. \A c \in Copies(r)' : c \in Copies(r) \/ c = rec
  <2>1. info'[r] \in {info[r], NoInfo, rec}
    BY <1>0 DEF ResaveInfo, saveRecordingInfo, TypeOK
  <2> HIDE DEF rec
  <2> QED
    BY <1>1, <1>2, <2>1, CopiesFrom
<1>4. ASSUME NEW c \in Copies(r)', c = rec PROVE CopySound(r, c)'
  <2>1. rec \in Info
    BY <1>0, OwnFiles, InfoTyped DEF At
  <2> QED
    BY <1>2, <1>4, <2>1 DEF CopySound, After
<1> QED
  BY <1>0, <1>1, <1>2, <1>3, <1>4, LateStep

\* The scheduler's read: the copy it takes is what it is about to store.
LEMMA GetInfoSound ==
  ASSUME Sound, NEW r \in Recordings, GetInfo(r)
  PROVE  RecordingSound(r)'
<1>0. TypeOK /\ TaskSound(r) /\ WorkSound(r) /\ task[r].pc = "get" /\ r \in Scheduled
  <2>1. TypeOK /\ TaskSound(r) /\ WorkSound(r) /\ task[r].pc = "get"
    BY DEF Sound, RecordingSound, GetInfo, At
  <2> QED
    BY <2>1 DEF TaskSound
<1>1. RunTask(r) /\ task[r].pc \in After /\ UNCHANGED <<disk, stuck, request, info, erased>>
  BY <1>0 DEF RunTask, After, GetInfo
<1>2. CASE Updated(r)
  <2>1. /\ task'[r].pc \in {"get", "done"} /\ task'[r].target = task[r].target
        /\ task'[r].outcome = task[r].outcome /\ task'[r].copy = NoInfo
    BY <1>0, <1>2, UpdatedTyped
  <2>2. \A c \in Copies(r)' : c \in Copies(r)
    BY <1>1, <2>1, CopiesFrom
  <2> QED
    BY <1>0, <1>1, <2>1, <2>2, LateStep
<1>3. CASE Look(r)
  <2>1. PICK rec \in Info :
            /\ rec.path = info[r].path /\ rec.status = task[r].outcome
            /\ task'[r].pc = "set" /\ task'[r].copy = rec
            /\ task'[r].path = task[r].path /\ task'[r].target = task[r].target
            /\ task'[r].outcome = task[r].outcome
    BY <1>0, <1>3, LookFields
  <2>2. \A c \in Copies(r)' : c \in Copies(r) \/ c = rec
    BY <1>1, <2>1, CopiesFrom
  <2>3. CopySound(r, info[r])
    <3>1. info[r] \in Copies(r)
      BY <1>3 DEF Look, Copies
    <3> QED
      BY <3>1 DEF Sound, RecordingSound
  <2>4. rec.status = "completed" => Finished(r)'
    BY <1>0, <1>1, <2>1 DEF WorkSound, Finished, Converted, Kept, After, Alone
  <2>5. CopySound(r, rec)'
    BY <1>0, <2>1, <2>3, <2>4 DEF CopySound, After
  <2>6. \A c \in Copies(r)' : c \in Copies(r) \/ CopySound(r, c)'
    BY <2>2, <2>5
  <2>7. rec # NoInfo
    BY InfoTyped
  <2> QED
    BY <1>0, <1>1, <2>1, <2>6, <2>7, LateStep
<1> QED
  BY <1>2, <1>3 DEF GetInfo, Look

\* The scheduler's outcome.
LEMMA SetInfoSound ==
  ASSUME Sound, NEW r \in Recordings, SetInfo(r)
  PROVE  RecordingSound(r)'
<1>0. TypeOK /\ TaskSound(r) /\ task[r].pc = "set" /\ r \in Scheduled
  <2>1. TypeOK /\ TaskSound(r) /\ task[r].pc = "set"
    BY DEF Sound, RecordingSound, SetInfo, At
  <2> QED
    BY <2>1 DEF TaskSound
<1>1. RunTask(r) /\ task[r].pc \in After /\ UNCHANGED <<disk, stuck, request>>
  BY <1>0 DEF RunTask, After, SetInfo
<1>2. /\ task'[r].pc \in {"get", "done"} /\ task'[r].target = task[r].target
      /\ task'[r].outcome = task[r].outcome /\ task'[r].copy = NoInfo
  BY <1>0, UpdatedTyped DEF SetInfo
<1>3. \A c \in Copies(r)' : c \in Copies(r)
  <2>1. info'[r] \in {info[r], NoInfo, task[r].copy}
    BY <1>0 DEF SetInfo, saveRecordingInfo, TypeOK
  <2>2. \A c \in Copies(r)' : c \in Copies(r) \/ c = task[r].copy
    BY <1>1, <1>2, <2>1, CopiesFrom
  <2>3. task[r].copy \in Copies(r)
    BY <1>0 DEF TaskSound, Copies
  <2> QED
    BY <2>2, <2>3
<1> QED
  BY <1>0, <1>1, <1>2, <1>3, LateStep

\* Whatever its goroutine does next, what is said of a recording stays true.
LEMMA RunSound ==
  ASSUME Sound, NEW r \in Recordings, RunTask(r)
  PROVE  RecordingSound(r)'
BY SaveStartedSound, DownloadSound, LoadInfoSound, RemuxSound, ReplaceSound, RemoveTempSound, StoreOutcomeSound,
   ResaveSound, GetInfoSound, SetInfoSound DEF RunTask

-----------------------------------------------------------------------------
(* The requests, the TTL and the crash *)

\* A goroutine's step or an expired key leaves the other recordings alone.
LEMMA OthersSound ==
  ASSUME Sound, NEW r \in Recordings, NEW x \in Recordings \ {r}, Begin(r) \/ RunTask(r)
  PROVE  RecordingSound(x)'
<1>0. TypeOK
  BY DEF Sound
<1>1. /\ UNCHANGED <<request, erased, crashes>>
      /\ task'[x] = task[x] /\ info'[x] = info[x]
  BY <1>0, TouchesOwn DEF Begin, TypeOK
<1>2. Alone(x) => \A p \in Paths : p[1] \in {ProgramOf[x], x} => SameFile(p)
  <2>1. CASE Begin(r)
    BY <2>1 DEF Begin, SameFile
  <2>2. CASE RunTask(r)
    <3>1. task[r].path[1] \in {ProgramOf[r], r}
      BY <2>2, TouchesOwn, OwnFiles DEF At
    <3> QED
      BY <2>2, <3>1, StemsApart, WritesOwnStem
  <2> QED
    BY <2>1, <2>2
<1>3. \A c \in Copies(x)' : c \in Copies(x)
  BY <1>1 DEF Copies
<1>4. \A q \in Requests : Unlinking(q, x) => Unlinking(q, x)'
  BY <1>1 DEF Unlinking
<1> QED
  BY <1>1, <1>2, <1>3, <1>4, Untouched

\* A key that is gone promises nothing.
LEMMA ExpireSound ==
  ASSUME Sound, NEW r \in Recordings, NEW x \in Recordings, Expire(r)
  PROVE  RecordingSound(x)'
<1>1. TypeOK /\ UNCHANGED <<disk, stuck, task, request, erased, crashes>>
  BY DEF Sound, Expire
<1>2. info'[x] \in {info[x], NoInfo}
  BY <1>1 DEF Expire, TypeOK
<1>3. \A c \in Copies(x)' : c \in Copies(x)
  BY <1>1, <1>2 DEF Copies
<1>4. \A q \in Requests : Unlinking(q, x) => Unlinking(q, x)'
  BY <1>1 DEF Unlinking
<1> QED
  BY <1>1, <1>3, <1>4, Untouched DEF SameFile

\* A request that begins holds a copy of what is there.
LEMMA LoadSound ==
  ASSUME Sound, NEW q \in Requests, NEW r \in Recordings, NEW x \in Recordings,
         StopRecording(q, r) \/ DeleteRecording(q, r)
  PROVE  RecordingSound(x)'
<1>1. TypeOK
  BY DEF Sound
<1>2. PICK pc \in {"stop", "del"} : Load(q, r, pc)
  BY DEF StopRecording, DeleteRecording
<1> DEFINE rec == [info[r] EXCEPT !.status = "stopped"]
<1>3. /\ UNCHANGED <<info, disk, stuck, task, erased, crashes>> /\ request[q].pc = "idle"
      /\ request'[q].id = r /\ request'[q].copy = rec
      /\ \A y \in Requests \ {q} : request'[y] = request[y]
  BY <1>1, <1>2 DEF Load, TypeOK
<1>r. rec \in Info /\ rec.path = info[r].path /\ rec.status = "stopped" /\ info[r] # NoInfo
  <2>1. info[r] \in Info /\ info[r] # NoInfo
    BY <1>1, <1>2 DEF Load, TypeOK
  <2> QED
    BY <2>1 DEF Info
<1>4. \A c \in Copies(x)' : c \in Copies(x) \/ CopySound(x, c)'
  <2> PICK new \in Info : new = rec
    BY <1>r
  <2> HIDE DEF rec
  <2>1. CASE x = r
    <3>1. \A c \in Copies(x)' : c \in Copies(x) \/ c = new
      <4>1. \A y \in Requests : request'[y].id = x =>
                \/ request[y].id = x /\ request'[y].copy = request[y].copy
                \/ request'[y].copy \in {NoInfo, new}
        BY <1>3, <2>1
      <4> QED
        BY <1>3, <4>1, CopiesFrom
    <3>2. CopySound(r, info[r])
      <4>1. info[r] \in Copies(r)
        BY <1>r DEF Copies
      <4> QED
        BY <4>1 DEF Sound, RecordingSound
    <3>3. CopySound(r, new)'
      <4>1. new \in Info /\ new.path = info[r].path /\ new.status = "stopped"
        BY <1>r
      <4> QED
        BY <1>3, <3>2, <4>1 DEF CopySound
    <3> QED
      BY <2>1, <3>1, <3>3
  <2>2. CASE x # r
    <3>1. \A y \in Requests : request'[y].id = x =>
              request[y].id = x /\ request'[y].copy = request[y].copy
      BY <1>3, <2>2
    <3> QED
      BY <1>3, <3>1, CopiesFrom
  <2> QED
    BY <2>1, <2>2
<1>5. \A y \in Requests : Unlinking(y, x) => Unlinking(y, x)'
  BY <1>3 DEF Unlinking
<1> QED
  BY <1>3, <1>4, <1>5, Untouched DEF SameFile

\* A request in progress is about a recording and holds a sound copy of its RecordingInfo.
LEMMA RequestCopy ==
  ASSUME Sound, NEW q \in Requests, request[q].pc # "idle"
  PROVE  /\ request[q].id \in Recordings /\ request[q].copy \in Copies(request[q].id)
         /\ CopySound(request[q].id, request[q].copy)
<1>1. request[q].id \in Recordings /\ request[q].copy # NoInfo
  BY DEF Sound, RequestSound
<1>2. request[q].copy \in Copies(request[q].id)
  BY <1>1 DEF Copies
<1> QED
  BY <1>1, <1>2 DEF Sound, RecordingSound

\* The end of a request gives its copy up and nothing else.
LEMMA EndedFields ==
  ASSUME TypeOK, NEW q \in Requests, request' = [request EXCEPT ![q] = NoRequest]
  PROVE  /\ request'[q] = NoRequest /\ \A y \in Requests \ {q} : request'[y] = request[y]
         /\ \A x \in Recordings, y \in Requests : request'[y].id = x =>
                request[y].id = x /\ request'[y].copy = request[y].copy
<1>1. request'[q] = NoRequest /\ \A y \in Requests \ {q} : request'[y] = request[y]
  BY DEF TypeOK
<1>2. \A x \in Recordings : NoRequest.id # x
  BY ConstantsAssumption DEF NoRequest
<1> QED
  BY <1>1, <1>2

\* Stop writes the copy back as "stopped".
LEMMA SaveStoppedSound ==
  ASSUME Sound, NEW q \in Requests, NEW x \in Recordings, SaveStopped(q)
  PROVE  RecordingSound(x)'
<1>1. TypeOK
  BY DEF Sound
<1>2. /\ UNCHANGED <<disk, stuck, task, erased, crashes>> /\ request[q].pc = "stop"
      /\ request' = [request EXCEPT ![q] = NoRequest]
  BY DEF SaveStopped
<1>3. request[q].id \in Recordings /\ request[q].copy \in Copies(request[q].id)
  BY <1>2, RequestCopy
<1>4. \A c \in Copies(x)' : c \in Copies(x)
  <2>1. \A y \in Requests : request'[y].id = x =>
            request[y].id = x /\ request'[y].copy = request[y].copy
    BY <1>1, <1>2, EndedFields
  <2>2. info'[x] = info[x] \/ (x = request[q].id /\ info'[x] = request[q].copy)
    BY <1>1, <1>3 DEF SaveStopped, saveRecordingInfo, TypeOK
  <2>3. info'[x] \in Copies(x) \cup {NoInfo}
    BY <1>3, <2>2 DEF Copies
  <2>4. \A c \in Copies(x)' : c \in Copies(x) \/ c = info'[x]
    BY <1>2, <2>1 DEF Copies
  <2>5. \A c \in Copies(x)' : c # NoInfo
    BY DEF Copies
  <2> QED
    BY <2>3, <2>4, <2>5
<1>5. \A y \in Requests : Unlinking(y, x) => Unlinking(y, x)'
  <2>1. \A y \in Requests \ {q} : request'[y] = request[y]
    BY <1>1, <1>2, EndedFields
  <2> QED
    BY <1>2, <2>1 DEF Unlinking
<1> QED
  BY <1>2, <1>4, <1>5, Untouched DEF SameFile

\* Delete removes the key; the file is what it has left to do.
LEMMA DeleteKeySound ==
  ASSUME Sound, NEW q \in Requests, NEW x \in Recordings, DeleteKey(q)
  PROVE  RecordingSound(x)'
<1>1. TypeOK
  BY DEF Sound
<1>2. UNCHANGED <<disk, stuck, task, crashes>> /\ request[q].pc = "del"
  BY DEF DeleteKey
<1> DEFINE r == request[q].id
<1>3. r \in Recordings
  BY <1>2, RequestCopy
<1>4. info'[x] \in {info[x], NoInfo}
  BY <1>1, <1>3 DEF DeleteKey, TypeOK
<1>5. \A y \in Requests : request'[y].id = x =>
            request[y].id = x /\ request'[y].copy = request[y].copy
  <2>1. CASE request' = [request EXCEPT ![q] = NoRequest]
    BY <1>1, <2>1, EndedFields
  <2>2. CASE request' = [request EXCEPT ![q].pc = "unlink"]
    BY <1>1, <2>2 DEF TypeOK
  <2> QED
    BY <2>1, <2>2 DEF DeleteKey
<1>6. \A c \in Copies(x)' : c \in Copies(x)
  BY <1>2, <1>4, <1>5, CopiesFrom
<1>7. \A y \in Requests : Unlinking(y, x) => Unlinking(y, x)'
  <2>1. \A y \in Requests \ {q} : request'[y] = request[y]
    BY <1>1 DEF DeleteKey, TypeOK
  <2> QED
    BY <1>2, <2>1 DEF Unlinking
<1>8. CASE erased'[x] = erased[x]
  BY <1>2, <1>6, <1>7, <1>8, Untouched DEF SameFile
<1>9. CASE erased'[x] # erased[x]
  <2>1. /\ x = r /\ request' = [request EXCEPT ![q].pc = "unlink"]
        /\ erased'[x] = IF request[q].ended THEN "ended" ELSE "running"
    BY <1>1, <1>9 DEF DeleteKey, TypeOK
  <2>2. Unlinking(q, x)'
    BY <1>1, <2>1 DEF Unlinking, TypeOK
  <2>3. RecordingSound(x)
    BY DEF Sound
  <2>4. TaskSound(x)' /\ WorkSound(x)' /\ (Finished(x) => Finished(x)')
    <3>1. Finished(x) => Finished(x)'
      BY <1>2, <2>1 DEF Finished, Converted, Kept, Alone
    <3> QED
      BY <1>2, <2>1, <2>3, <3>1 DEF RecordingSound, TaskSound, WorkSound, Converted, From, Alone
  <2>5. \A c \in Copies(x)' : CopySound(x, c)'
    BY <1>2, <1>6, <2>3, <2>4 DEF RecordingSound, CopySound
  <2>6. EraseSound(x)'
    <3>1. erased'[x] = "ended" => At(x, "done")
      BY <2>1 DEF Sound, RequestSound
    <3> QED
      BY <1>2, <2>2, <3>1 DEF EraseSound, At
  <2> QED
    BY <2>4, <2>5, <2>6 DEF RecordingSound
<1> QED
  BY <1>8, <1>9

\* ... which was the recording's own; it goes, or the request knows no better.
LEMMA UnlinkPath ==
  ASSUME Sound, NEW q \in Requests, UnlinkFile(q)
  PROVE  \E r \in Recordings, path \in Paths :
            /\ r = request[q].id /\ path = request[q].copy.path /\ RemoveFile(path)
            /\ ~At(r, "idle") /\ erased[r] # "no" /\ path \in {task[r].path, task[r].target}
            /\ path[1] \in {ProgramOf[r], r}
            /\ path \notin {TempAACPath(task[r].path), TaggingPath(task[r].path)}
<1>1. request[q].pc = "unlink" /\ RemoveFile(request[q].copy.path)
  BY DEF UnlinkFile
<1>2. request[q].id \in Recordings /\ CopySound(request[q].id, request[q].copy)
  BY <1>1, RequestCopy
<1>3. /\ erased[request[q].id] # "no" /\ ~At(request[q].id, "idle")
      /\ request[q].copy.path \in {task[request[q].id].path, task[request[q].id].target}
  BY <1>1, <1>2 DEF Sound, RequestSound, CopySound, At
<1>4. TaskSound(request[q].id)
  BY <1>2 DEF Sound, RecordingSound
<1>5. task[request[q].id].path \notin {TempAACPath(task[request[q].id].path), TaggingPath(task[request[q].id].path)}
  BY <1>3, <1>4 DEF TaskSound, At, Final, TempAACPath, TaggingPath
<1> QED
  BY <1>1, <1>2, <1>3, <1>5, OwnFiles

\* What is left of the recording after the removal of its file.
LEMMA UnlinkSound ==
  ASSUME Sound, NEW q \in Requests, NEW x \in Recordings, UnlinkFile(q)
  PROVE  RecordingSound(x)'
<1>1. TypeOK
  BY DEF Sound
<1>2. /\ UNCHANGED <<info, task, erased, crashes>> /\ request[q].pc = "unlink"
      /\ request' = [request EXCEPT ![q] = NoRequest]
  BY DEF UnlinkFile
<1>3. PICK r \in Recordings, path \in Paths :
         /\ r = request[q].id /\ path = request[q].copy.path /\ RemoveFile(path)
         /\ ~At(r, "idle") /\ erased[r] # "no" /\ path \in {task[r].path, task[r].target}
         /\ path[1] \in {ProgramOf[r], r}
         /\ path \notin {TempAACPath(task[r].path), TaggingPath(task[r].path)}
  BY UnlinkPath
<1>4. /\ ~Kept(path)' /\ disk'[path] \in {disk[path], "none"}
      /\ \A p \in Paths \ {path} : disk'[p] = disk[p] /\ (p \in stuck' <=> p \in stuck)
  BY <1>1, <1>3, Removal
<1>6. \A y \in Requests \ {q} : request'[y] = request[y]
  BY <1>1, <1>2, EndedFields
<1>7. \A c \in Copies(x)' : c \in Copies(x)
  <2>1. \A y \in Requests : request'[y].id = x =>
            request[y].id = x /\ request'[y].copy = request[y].copy
    BY <1>1, <1>2, EndedFields
  <2> QED
    BY <1>2, <2>1, CopiesFrom
<1>8. CASE x # r
  <2>1. Alone(x) => \A p \in Paths : p[1] \in {ProgramOf[x], x} => SameFile(p)
    BY <1>3, <1>4, <1>8, StemsApart DEF SameFile
  <2>2. \A y \in Requests : Unlinking(y, x) => Unlinking(y, x)'
    BY <1>3, <1>6, <1>8 DEF Unlinking
  <2> QED
    BY <1>2, <1>7, <2>1, <2>2, Untouched
<1>9. CASE x = r
  <2>1. RecordingSound(x) /\ ~At(x, "idle")
    BY <1>3, <1>9 DEF Sound
  <2>2. TaskSound(x)'
    BY <1>2, <2>1 DEF RecordingSound, TaskSound
  <2> DEFINE temp == TempAACPath(task[x].path)
             tagging == TaggingPath(task[x].path)
  <2>f. temp \in Paths \ {path} /\ tagging \in Paths \ {path} /\ task[x].target \in Paths
    BY <1>3, <1>9, <2>1, OwnFiles
  <2>3. SameFile(temp) /\ SameFile(tagging)
    BY <1>4, <2>f DEF SameFile
  <2>c. Converted(x) => Converted(x)'
    BY <1>2, <1>3, <1>9, <2>3 DEF Converted, Alone, SameFile
  <2>4. Finished(x) => Finished(x)'
    BY <1>2, <2>c, <2>3 DEF Finished, Kept, Alone, SameFile
  <2>5. \A c \in Copies(x)' : CopySound(x, c)'
    BY <1>2, <1>7, <2>1, <2>4 DEF RecordingSound, CopySound
  <2>6. WorkSound(x)'
    <3>1. From(x) \in {temp, tagging} /\ From(x)' = From(x)
      BY <1>2 DEF From
    <3>2. disk'[From(x)] = disk[From(x)]
      BY <2>3, <3>1 DEF SameFile
    <3> QED
      BY <1>2, <2>1, <2>4, <2>c, <3>1, <3>2 DEF RecordingSound, WorkSound, Alone
  <2>7. EraseSound(x)'
    <3>1. HasFFmpeg => ~Kept(task[x].target)'
      <4>1. HasFFmpeg => path = task[x].target
        BY <1>3, <1>9, <2>1 DEF RecordingSound, TaskSound
      <4> QED
        BY <1>2, <1>4, <4>1 DEF Kept
    <3> QED
      BY <1>2, <2>1, <3>1 DEF RecordingSound, EraseSound, At, Kept
  <2> QED
    BY <2>2, <2>5, <2>6, <2>7 DEF RecordingSound
<1> QED
  BY <1>8, <1>9

\* After a crash there are no goroutines and no requests; every key still tells the truth.
LEMMA CrashSound ==
  ASSUME Sound, NEW x \in Recordings, Crash
  PROVE  RecordingSound(x)'
<1>1. TypeOK /\ RecordingSound(x)
  BY DEF Sound
<1>2. /\ UNCHANGED <<info, disk, stuck, erased>>
      /\ request' = [q \in Requests |-> NoRequest]
      /\ crashes' = crashes + 1
  BY DEF Crash
<1>3. task'[x] = IF At(x, "idle") THEN task[x]
                 ELSE [task[x] EXCEPT !.pc = "done", !.updates = 0, !.copy = NoInfo]
  BY DEF Crash
<1>4. /\ task'[x].path = task[x].path /\ task'[x].target = task[x].target
      /\ task'[x].copy \in {task[x].copy, NoInfo}
      /\ task'[x].outcome = task[x].outcome
      /\ task'[x].pc = IF At(x, "idle") THEN "idle" ELSE "done"
  BY <1>1, <1>3 DEF TypeOK, At
<1>5. TaskSound(x)'
  BY <1>1, <1>4 DEF RecordingSound, TaskSound, After, At
<1>6. \A c \in Copies(x)' : c \in Copies(x)
  <2>1. NoRequest.id \notin Recordings
    BY ConstantsAssumption DEF NoRequest
  <2>2. \A q \in Requests : request'[q] = NoRequest
    BY <1>2
  <2> QED
    BY <1>2, <1>4, <2>1, <2>2, CopiesFrom
<1>7. \A c \in Copies(x)' : CopySound(x, c)'
  <2>1. CASE At(x, "idle")
    BY <1>6, <2>1, NoCopiesYet DEF At
  <2>2. CASE ~At(x, "idle")
    <3>1. Finished(x) => Finished(x)'
      BY <1>2, <1>4, <2>2 DEF Finished, Converted, Kept, After, Alone
    <3> QED
      BY <1>4, <1>6, <2>2, <3>1, CopyKept DEF After
  <2> QED
    BY <2>1, <2>2
<1>8. WorkSound(x)'
  BY <1>4 DEF WorkSound, After
<1>9. EraseSound(x)'
  <2>1. crashes' # 0
    BY <1>1, <1>2, ConstantsAssumption DEF TypeOK
  <2> QED
    BY <1>1, <1>2, <1>4, <2>1 DEF RecordingSound, EraseSound, At
<1> QED
  BY <1>5, <1>7, <1>8, <1>9 DEF RecordingSound

-----------------------------------------------------------------------------
(* The directory and the requests *)

\* A goroutine takes a fallback name by writing its target, and keeps it.
LEMMA FallbacksRun ==
  ASSUME Sound, NEW r \in Recordings, RunTask(r)
  PROVE  Fallbacks'
<1>0. TypeOK /\ TaskSound(r)
  BY DEF Sound, RecordingSound
<1> SUFFICES ASSUME NEW s \in Stems, NEW n \in Numbers, disk'[<<s, <<"aac", n>>>>] # "none"
             PROVE  \E x \in Recordings : task'[x].pc \in After /\ task'[x].target = <<s, <<"aac", n>>>>
  BY DEF Fallbacks
<1> DEFINE p == <<s, <<"aac", n>>>>
<1>1. p \in Paths /\ p \notin {TempAACPath(task[r].path), TaggingPath(task[r].path)}
  BY PathFacts DEF TempAACPath, TaggingPath
<1>2. /\ ~At(r, "idle") /\ TempAACPath(task[r].path) \in Paths /\ TaggingPath(task[r].path) \in Paths
      /\ \A x \in Recordings \ {r} : task'[x] = task[x]
  BY TouchesOwn, OwnFiles DEF At
<1> HIDE DEF p
<1>3. CASE disk[p] # "none"
  <2>1. PICK x \in Recordings : task[x].pc \in After /\ task[x].target = p
    BY <1>3 DEF Sound, Fallbacks, p
  <2>2. x = r => task'[x].pc \in After /\ task'[x].target = p
    <3> SUFFICES ASSUME x = r PROVE task'[r].pc \in After /\ task'[r].target = p
      OBVIOUS
    <3>1. \/ \E step \in {"get", "done"} : Goto(r, step)
          \/ Look(r)
          \/ Updated(r)
      BY <2>1 DEF RunTask, SaveStarted, CreateOutput, WriteOutput, LoadInfo, RemuxAAC, ReplaceFinal, RemoveTemp,
                  StoreOutcome, ResaveInfo, GetInfo, SetInfo, Look, At, After
    <3>2. CASE \E step \in {"get", "done"} : Goto(r, step)
      BY <1>0, <2>1, <3>2, MovedFields DEF After
    <3>3. CASE Look(r)
      BY <1>0, <2>1, <3>3, LookFields DEF After
    <3>4. CASE Updated(r)
      BY <1>0, <2>1, <3>4, UpdatedTyped DEF After
    <3> QED
      BY <3>1, <3>2, <3>3, <3>4
  <2> QED
    BY <1>2, <2>1, <2>2 DEF p
<1>4. CASE disk[p] = "none"
  <2>0. disk \in [Paths -> {"none", "partial", "whole"}]
    BY <1>0 DEF TypeOK
  <2>1. disk'[p] # disk[p]
    BY <1>4 DEF p
  <2>2. ~(CreateOutput(r) \/ WriteOutput(r) \/ RemuxAAC(r) \/ RemoveTemp(r))
    BY <1>1, <1>2, <1>4, <2>0, <2>1 DEF CreateOutput, WriteOutput, RemuxAAC, RemoveTemp, RemoveFile
  <2>3. ReplaceFinal(r)
    BY <2>1, <2>2 DEF RunTask, SaveStarted, LoadInfo, StoreOutcome, ResaveInfo, GetInfo, SetInfo
  <2>4. PICK from \in {TempAACPath(task[r].path), TaggingPath(task[r].path)} :
           /\ disk' = Renamed(from, task[r].target)
           /\ Goto(r, IF HasFFmpeg THEN "tidy"
                      ELSE IF r \notin Scheduled THEN "store"
                      ELSE IF task[r].target # task[r].path THEN "resave" ELSE "get")
    BY <2>1, <2>3 DEF ReplaceFinal
  <2>5. task[r].target = p
    BY <1>1, <1>2, <2>0, <2>1, <2>4 DEF Renamed
  <2>6. ~HasFFmpeg
    <3>1. HasFFmpeg => task[r].target = task[r].path
      BY <1>0 DEF TaskSound
    <3>2. task[r].path \in {Final(ProgramOf[r]), Final(r)}
      BY <1>0, <1>2 DEF TaskSound, At
    <3> QED
      BY <2>5, <3>1, <3>2 DEF p, Final
  <2>7. PICK step \in {"store", "resave", "get"} : Goto(r, step)
    BY <2>4, <2>6
  <2>8. task'[r].pc \in After /\ task'[r].target = p
    BY <1>0, <2>5, <2>7, MovedFields DEF After
  <2> QED
    BY <2>8 DEF p
<1> QED
  BY <1>3, <1>4

\* Nothing writes a tagged file without ffmpeg.
LEMMA UntaggedRun ==
  ASSUME Sound, NEW r \in Recordings, RunTask(r)
  PROVE  Untagged'
<1>0. TypeOK /\ ~At(r, "idle")
  BY TouchesOwn DEF Sound, At
<1> SUFFICES ASSUME ~HasFFmpeg, NEW s \in Stems PROVE disk'[<<s, <<"tagging", 0>>>>] = "none"
  BY DEF Untagged
<1> DEFINE p == <<s, <<"tagging", 0>>>>
<1>1. /\ p \in Paths /\ p # TempAACPath(task[r].path) /\ TempAACPath(task[r].path) \in Paths
      /\ TaggingPath(task[r].path) \in Paths
  BY <1>0, PathFacts, OwnFiles DEF TempAACPath
<1>2. p # task[r].target
  <2>1. \/ task[r].target = <<task[r].path[1], <<"m4a", 0>>>>
        \/ \E n \in Numbers : task[r].target = <<task[r].path[1], <<"aac", n>>>>
    BY <1>0 DEF Sound, RecordingSound, TaskSound, At, Numbers, Final
  <2> QED
    BY <2>1
<1>3. disk \in [Paths -> {"none", "partial", "whole"}] /\ disk[p] = "none"
  BY <1>0 DEF TypeOK, Sound, Untagged
<1> HIDE DEF p
<1>4. disk'[p] = "none"
  BY <1>1, <1>2, <1>3 DEF RunTask, SaveStarted, CreateOutput, WriteOutput, LoadInfo, RemuxAAC, ReplaceFinal, RemoveTemp,
     RemoveFile, Renamed, StoreOutcome, ResaveInfo, GetInfo, SetInfo
<1> QED
  BY <1>4 DEF p

\* A goroutine that has ended stays ended, so the requests that saw it end are right.
LEMMA RequestsRun ==
  ASSUME Sound, NEW r \in Recordings, Begin(r) \/ RunTask(r), NEW q \in Requests
  PROVE  RequestSound(q)'
<1>1. TypeOK /\ RequestSound(q)
  BY DEF Sound
<1>2. /\ UNCHANGED <<request, erased>> /\ task[r].pc # "done"
      /\ \A x \in Recordings \ {r} : task'[x] = task[x]
  BY <1>1, TouchesOwn DEF Begin, At, TypeOK
<1>3. request[q].ended => request[q].id \in Recordings
  BY <1>1 DEF RequestSound, NoRequest
<1> QED
  BY <1>1, <1>2, <1>3 DEF RequestSound, At

\* The same for the steps of requests.
LEMMA RequestsServed ==
  ASSUME Sound, NEW q \in Requests, Serve(q), NEW y \in Requests
  PROVE  RequestSound(y)'
<1>1. TypeOK /\ RequestSound(y) /\ RequestSound(q)
  BY DEF Sound
<1>2. UNCHANGED task
  BY DEF Serve, SaveStopped, DeleteKey, UnlinkFile
<1>3. CASE y = q /\ request' = [request EXCEPT ![q] = NoRequest]
  <2>1. request'[q] = NoRequest
    BY <1>1, <1>3, EndedFields
  <2> QED
    BY <1>3, <2>1 DEF RequestSound, NoRequest
<1>4. CASE y = q /\ request' # [request EXCEPT ![q] = NoRequest]
  <2>1. /\ request[q].pc = "del" /\ request' = [request EXCEPT ![q].pc = "unlink"]
        /\ erased' = [erased EXCEPT ![request[q].id] = IF request[q].ended THEN "ended" ELSE "running"]
    BY <1>4 DEF Serve, SaveStopped, DeleteKey, UnlinkFile
  <2>2. request'[q] = [request[q] EXCEPT !.pc = "unlink"]
    BY <1>1, <2>1 DEF TypeOK
  <2>3. /\ request'[q].pc = "unlink" /\ request'[q].id = request[q].id
        /\ request'[q].copy = request[q].copy /\ request'[q].ended = request[q].ended
    BY <1>1, <2>2 DEF TypeOK
  <2>4. request[q].id \in Recordings /\ erased'[request[q].id] # "no"
    BY <1>1, <2>1 DEF RequestSound, TypeOK
  <2> QED
    BY <1>1, <1>2, <1>4, <2>1, <2>3, <2>4 DEF RequestSound, At
<1>5. CASE y # q
  <2>1. request'[y] = request[y]
    BY <1>1, <1>5 DEF Serve, SaveStopped, DeleteKey, UnlinkFile, TypeOK
  <2>2. \A x \in Recordings : erased[x] # "no" => erased'[x] # "no"
    <3>1. CASE erased' = erased
      BY <3>1
    <3>2. CASE \E v \in {"running", "ended"} : erased' = [erased EXCEPT ![request[q].id] = v]
      BY <1>1, <3>2 DEF TypeOK
    <3> QED
      BY <3>1, <3>2 DEF Serve, SaveStopped, DeleteKey, UnlinkFile
  <2> QED
    BY <1>1, <1>2, <2>1, <2>2 DEF RequestSound, At
<1> QED
  BY <1>3, <1>4, <1>5

\* A file that is gone frees its name; nothing else outside the goroutines touches the directory.
LEMMA DirectoryServed ==
  ASSUME Sound, NEW q \in Requests, Serve(q)
  PROVE  Fallbacks' /\ Untagged'
<1>1. TypeOK /\ Fallbacks /\ Untagged
  BY DEF Sound
<1>2. task' = task
  BY DEF Serve, SaveStopped, DeleteKey, UnlinkFile
<1>3. \A p \in Paths : disk'[p] = disk[p] \/ disk'[p] = "none"
  BY <1>1 DEF Serve, RemoveFile, SaveStopped, DeleteKey, UnlinkFile, TypeOK
<1> QED
  BY <1>1, <1>2, <1>3, PathFacts DEF Fallbacks, Untagged

-----------------------------------------------------------------------------
(* The tagged files *)

\* The two tagged files a recording may make are in the directory.
LEMMA TaggedPaths ==
  ASSUME NEW r \in Recordings, NEW s \in {ProgramOf[r], r}
  PROVE  <<s, <<"tagging", 0>>>> \in Paths /\ <<s, <<"tagging", 0>>>>[1] = s
BY PathFacts, ConstantsAssumption DEF Stems

\* What is said of them stays true while they and the goroutine do not change.
LEMMA TaggedUntouched ==
  ASSUME Sound, NEW r \in Recordings, task'[r] = task[r], crashes' = crashes,
         Alone(r) => \A s \in {ProgramOf[r], r} : SameFile(<<s, <<"tagging", 0>>>>)
  PROVE  TaggedSound(r)'
<1>1. TaggedSound(r)
  BY DEF Sound
<1> SUFFICES ASSUME Alone(r), crashes = 0, NEW s \in {ProgramOf[r], r}, Kept(<<s, <<"tagging", 0>>>>)'
             PROVE  /\ s = task[r].path[1]
                    /\ task[r].pc = "replace" \/ (task[r].pc = "tidy" /\ task[r].outcome = "failed")
  BY DEF TaggedSound, Alone
<1>2. Kept(<<s, <<"tagging", 0>>>>)
  BY DEF Kept, SameFile
<1> QED
  BY <1>1, <1>2 DEF TaggedSound

\* A goroutine makes its own and, when all goes well, takes it away again.
LEMMA TaggedRun ==
  ASSUME Sound, NEW r \in Recordings, Begin(r) \/ RunTask(r)
  PROVE  TaggedSound(r)'
<1>1. TaggedSound(r) /\ TypeOK /\ TaskSound(r) /\ WorkSound(r) /\ Untagged
  BY DEF Sound, RecordingSound
<1>2. crashes' = crashes
  BY TouchesOwn DEF Begin
<1> SUFFICES ASSUME Alone(r), crashes = 0, NEW s \in {ProgramOf[r], r}, Kept(<<s, <<"tagging", 0>>>>)'
             PROVE  /\ s = task'[r].path[1]
                    /\ task'[r].pc = "replace" \/ (task'[r].pc = "tidy" /\ task'[r].outcome = "failed")
  BY <1>2 DEF TaggedSound, Alone
<1> DEFINE p == <<s, <<"tagging", 0>>>>
<1>p. p \in Paths /\ p[1] = s
  BY TaggedPaths
<1>3. Kept(p) => /\ s = task[r].path[1]
                 /\ task[r].pc = "replace" \/ (task[r].pc = "tidy" /\ task[r].outcome = "failed")
  BY <1>1 DEF TaggedSound
<1>4. CASE Begin(r)
  BY <1>3, <1>4 DEF Begin, At, Kept
<1>5. ASSUME RunTask(r), s # task[r].path[1] PROVE FALSE
  BY <1>3, <1>5, <1>p, WritesOwnStem DEF Kept, SameFile
<1>6. ASSUME RunTask(r), s = task[r].path[1]
      PROVE  /\ s = task'[r].path[1]
             /\ task'[r].pc = "replace" \/ (task'[r].pc = "tidy" /\ task'[r].outcome = "failed")
  <2>1. /\ task'[r].path = task[r].path /\ p = TaggingPath(task[r].path)
        /\ p # TempAACPath(task[r].path) /\ p # task[r].target
    <3>1. task[r].path \in {Final(ProgramOf[r]), Final(r)} /\ ~At(r, "idle")
      BY <1>1, <1>6, TouchesOwn DEF TaskSound, At
    <3> QED
      BY <1>6, <3>1, TouchesOwn, OwnFiles DEF TaggingPath
  <2>d. disk \in [Paths -> {"none", "partial", "whole"}]
    BY <1>1 DEF TypeOK
  <2>2. CASE RemuxAAC(r)
    <3>1. CASE Fail(r, "tidy")
      BY <1>1, <1>6, <2>1, <3>1, FailedFields
    <3>2. CASE HasFFmpeg /\ Goto(r, "replace")
      BY <1>1, <1>6, <2>1, <3>2, MovedFields
    <3>3. CASE ~HasFFmpeg /\ disk' = disk /\ stuck' = stuck
      BY <1>p, <1>6, <3>3, <1>3, <2>2 DEF Kept, RemuxAAC, At
    <3> QED
      BY <2>2, <3>1, <3>2, <3>3 DEF RemuxAAC
  <2>3. CASE ReplaceFinal(r)
    <3>0. task[r].pc = "replace" /\ stuck' = stuck
      BY <2>3 DEF ReplaceFinal, At
    <3>1. CASE HasFFmpeg
      <4>1. CASE Fail(r, "tidy")
        BY <1>1, <1>6, <2>1, <4>1, FailedFields
      <4>2. CASE ~Fail(r, "tidy")
        <5>1. disk' = Renamed(p, task[r].target)
          BY <2>1, <2>3, <3>1, <4>2 DEF ReplaceFinal
        <5>2. disk'[p] = "none"
          BY <1>p, <2>1, <2>d, <5>1 DEF Renamed
        <5> QED
          BY <5>2 DEF Kept
      <4> QED
        BY <4>1, <4>2
    <3>2. CASE ~HasFFmpeg
      <4>1. Untagged'
        BY <1>6, UntaggedRun
      <4>2. s \in Stems
        BY ConstantsAssumption DEF Stems
      <4> QED
        BY <3>2, <4>1, <4>2 DEF Untagged, Kept
    <3> QED
      BY <3>1, <3>2
  <2>4. CASE RemoveTemp(r)
    <3>1. CASE task[r].outcome = "completed"
      <4>1. RemoveFile(TempAACPath(task[r].path)) /\ task[r].pc = "tidy"
        BY <2>4, <3>1 DEF RemoveTemp, At
      <4>2. TempAACPath(task[r].path) \in Paths
        BY <1>6, TouchesOwn, OwnFiles DEF At
      <4>3. Kept(p)
        BY <1>1, <1>p, <2>1, <4>1, <4>2, Removal DEF Kept
      <4> QED
        BY <1>3, <3>1, <4>1, <4>3
    <3>2. CASE task[r].outcome # "completed"
      <4>1. RemoveFile(p)
        BY <2>1, <2>4, <3>2 DEF RemoveTemp
      <4> QED
        BY <1>1, <1>p, <4>1, Removal
    <3> QED
      BY <3>1, <3>2
  <2>5. CASE ~(RemuxAAC(r) \/ ReplaceFinal(r) \/ RemoveTemp(r))
    <3>1. /\ stuck' = stuck /\ task[r].pc \notin {"replace", "tidy"}
          /\ disk'[p] = disk[p]
      <4>1. TempAACPath(task[r].path) \in Paths
        BY <1>6, TouchesOwn, OwnFiles DEF At
      <4> HIDE DEF p
      <4> QED
        BY <1>6, <2>1, <2>5, <2>d, <1>p, <4>1 DEF RunTask, SaveStarted, CreateOutput, WriteOutput, LoadInfo,
             StoreOutcome, ResaveInfo, GetInfo, SetInfo, At
    <3> QED
      BY <1>3, <3>1 DEF Kept
  <2> QED
    BY <2>2, <2>3, <2>4, <2>5
<1> QED
  BY <1>4, <1>5, <1>6

\* Nobody else touches them.
LEMMA TaggedOthers ==
  ASSUME Sound, NEW r \in Recordings, NEW x \in Recordings \ {r}, Begin(r) \/ RunTask(r)
  PROVE  TaggedSound(x)'
<1>1. TypeOK
  BY DEF Sound
<1>2. crashes' = crashes /\ task'[x] = task[x]
  BY <1>1, TouchesOwn DEF Begin, TypeOK
<1>3. ASSUME Alone(x), NEW s \in {ProgramOf[x], x} PROVE SameFile(<<s, <<"tagging", 0>>>>)
  <2>1. CASE Begin(r)
    BY <2>1 DEF Begin, SameFile
  <2>2. CASE RunTask(r)
    <3>1. task[r].path[1] \in {ProgramOf[r], r}
      BY <2>2, TouchesOwn, OwnFiles DEF At
    <3>2. s # task[r].path[1]
      BY <1>3, <3>1, StemsApart
    <3> QED
      BY <2>2, <3>2, WritesOwnStem, TaggedPaths
  <2> QED
    BY <2>1, <2>2
<1> QED
  BY <1>2, <1>3, TaggedUntouched

\* A request removes a final file.
LEMMA TaggedServed ==
  ASSUME Sound, NEW q \in Requests, Serve(q), NEW x \in Recordings
  PROVE  TaggedSound(x)'
<1>1. TypeOK /\ task' = task /\ crashes' = crashes
  BY DEF Sound, Serve, SaveStopped, DeleteKey, UnlinkFile
<1>2. ASSUME NEW s \in {ProgramOf[x], x} PROVE SameFile(<<s, <<"tagging", 0>>>>)
  <2>1. CASE UNCHANGED <<disk, stuck>>
    BY <2>1 DEF SameFile
  <2>2. CASE UnlinkFile(q)
    <3>1. PICK r \in Recordings, path \in Paths :
             /\ RemoveFile(path) /\ ~At(r, "idle") /\ path \in {task[r].path, task[r].target}
             /\ path \notin {TempAACPath(task[r].path), TaggingPath(task[r].path)}
      BY <2>2, UnlinkPath
    <3>2. path[1] = task[r].path[1]
      BY <3>1, OwnFiles
    <3>3. <<s, <<"tagging", 0>>>> # path
      BY <3>1, <3>2 DEF TaggingPath
    <3> QED
      BY <1>1, <3>1, <3>3, TaggedPaths, Removal DEF SameFile
  <2> QED
    BY <2>1, <2>2 DEF Serve, SaveStopped, DeleteKey
<1> QED
  BY <1>1, <1>2, TaggedUntouched

-----------------------------------------------------------------------------
(* The theorems *)

\* The invariant holds of the empty directory and the empty Redis.
LEMMA SoundInit == Init => Sound
<1> SUFFICES ASSUME Init PROVE Sound
  OBVIOUS
<1>1. NoTask \in Task
  BY DEF NoTask, Task, Steps
<1>2. TypeOK
  BY <1>1, ConstantsAssumption DEF Init, TypeOK, Task, NoRequest
<1>3. ASSUME NEW r \in Recordings PROVE RecordingSound(r)
  <2>1. task[r] = NoTask /\ info[r] = NoInfo /\ erased[r] = "no"
    BY DEF Init
  <2>2. Copies(r) = {}
    BY <2>1 DEF Copies, Init, NoTask, NoRequest
  <2> QED
    BY <2>1, <2>2 DEF RecordingSound, TaskSound, WorkSound, EraseSound, NoTask, After
<1>4. \A q \in Requests : RequestSound(q)
  BY DEF Init, RequestSound, NoRequest
<1>5. Fallbacks /\ Untagged
  BY PathFacts DEF Init, Fallbacks, Untagged
<1>6. \A r \in Recordings : TaggedSound(r)
  BY TaggedPaths DEF Init, TaggedSound, Kept
<1> QED
  BY <1>2, <1>3, <1>4, <1>5, <1>6 DEF Sound

\* Every step keeps the invariant.
LEMMA SoundStep == Sound /\ [Next]_vars => Sound'
<1> SUFFICES ASSUME Sound, [Next]_vars PROVE Sound'
  OBVIOUS
<1>0. TypeOK'
  BY TypeStep
<1>t. TypeOK /\ Fallbacks /\ Untagged /\ (\A q \in Requests : RequestSound(q))
  BY DEF Sound
<1>1. CASE UNCHANGED vars
  <2>1. \A x \in Recordings : RecordingSound(x)'
    <3> SUFFICES ASSUME NEW x \in Recordings PROVE RecordingSound(x)'
      OBVIOUS
    <3>1. UNCHANGED <<info, disk, stuck, task, request, erased, crashes>>
      BY <1>1 DEF vars
    <3>2. \A c \in Copies(x)' : c \in Copies(x)
      BY <3>1 DEF Copies
    <3>3. \A q \in Requests : Unlinking(q, x) => Unlinking(q, x)'
      BY <3>1 DEF Unlinking
    <3> QED
      BY <3>1, <3>2, <3>3, Untouched DEF SameFile
  <2>2. (\A q \in Requests : RequestSound(q)') /\ Fallbacks' /\ Untagged'
    BY <1>1, <1>t DEF vars, RequestSound, Fallbacks, Untagged, At
  <2>3. \A x \in Recordings : TaggedSound(x)'
    BY <1>1, TaggedUntouched DEF vars, SameFile
  <2> QED
    BY <1>0, <2>1, <2>2, <2>3 DEF Sound
<1>2. ASSUME NEW r \in Recordings, Begin(r) PROVE Sound'
  <2>1. \A x \in Recordings : RecordingSound(x)'
    BY <1>2, BeginSound, OthersSound
  <2>2. \A q \in Requests : RequestSound(q)'
    BY <1>2, RequestsRun
  <2>3. Fallbacks' /\ Untagged'
    <3>1. disk' = disk /\ \A x \in Recordings : task[x].pc \in After => task'[x] = task[x]
      BY <1>2, <1>t DEF Begin, At, After, TypeOK
    <3> QED
      BY <1>t, <3>1 DEF Fallbacks, Untagged
  <2>4. \A x \in Recordings : TaggedSound(x)'
    BY <1>2, TaggedRun, TaggedOthers
  <2> QED
    BY <1>0, <2>1, <2>2, <2>3, <2>4 DEF Sound
<1>3. ASSUME NEW r \in Recordings, RunTask(r) PROVE Sound'
  <2>1. \A x \in Recordings : RecordingSound(x)'
    BY <1>3, RunSound, OthersSound
  <2>2. \A q \in Requests : RequestSound(q)'
    BY <1>3, RequestsRun
  <2>3. \A x \in Recordings : TaggedSound(x)'
    BY <1>3, TaggedRun, TaggedOthers
  <2> QED
    BY <1>0, <1>3, <2>1, <2>2, <2>3, FallbacksRun, UntaggedRun DEF Sound
<1>4. ASSUME NEW r \in Recordings, Expire(r) PROVE Sound'
  <2>1. \A x \in Recordings : RecordingSound(x)'
    BY <1>4, ExpireSound
  <2>2. (\A q \in Requests : RequestSound(q)') /\ Fallbacks' /\ Untagged'
    BY <1>4, <1>t DEF Expire, RequestSound, Fallbacks, Untagged, At
  <2>3. \A x \in Recordings : TaggedSound(x)'
    BY <1>4, TaggedUntouched DEF Expire, SameFile
  <2> QED
    BY <1>0, <2>1, <2>2, <2>3 DEF Sound
<1>5. ASSUME NEW q \in Requests, NEW r \in Recordings,
             StopRecording(q, r) \/ DeleteRecording(q, r)
      PROVE  Sound'
  <2>1. \A x \in Recordings : RecordingSound(x)'
    BY <1>5, LoadSound
  <2>2. PICK pc \in {"stop", "del"} : Load(q, r, pc)
    BY <1>5 DEF StopRecording, DeleteRecording
  <2>3. ASSUME NEW y \in Requests PROVE RequestSound(y)'
    <3>1. CASE y = q
      <4>1. /\ request'[q].pc = pc /\ request'[q].id = r /\ request'[q].ended = At(r, "done")
            /\ request'[q].copy = [info[r] EXCEPT !.status = "stopped"] /\ task' = task
        BY <1>t, <2>2 DEF Load, TypeOK
      <4>2. request'[q].copy # NoInfo /\ request'[q].copy.status = "stopped"
        <5>1. info[r] \in Info
          BY <1>t, <2>2 DEF Load, TypeOK
        <5> DEFINE rec == [info[r] EXCEPT !.status = "stopped"]
        <5>2. rec \in Info /\ rec.status = "stopped"
          BY <5>1 DEF Info
        <5> HIDE DEF rec
        <5>3. rec # NoInfo
          BY <5>2, InfoTyped
        <5> QED
          BY <4>1, <5>2, <5>3 DEF rec
      <4> QED
        BY <3>1, <4>1, <4>2 DEF RequestSound, At
    <3>2. CASE y # q
      BY <1>t, <2>2, <3>2 DEF Load, RequestSound, At, TypeOK
    <3> QED
      BY <3>1, <3>2
  <2>4. Fallbacks' /\ Untagged'
    BY <1>t, <2>2 DEF Load, Fallbacks, Untagged
  <2>5. \A x \in Recordings : TaggedSound(x)'
    BY <2>2, TaggedUntouched DEF Load, SameFile
  <2> QED
    BY <1>0, <2>1, <2>3, <2>4, <2>5 DEF Sound
<1>6. ASSUME NEW q \in Requests, Serve(q) PROVE Sound'
  <2>1. \A x \in Recordings : RecordingSound(x)'
    BY <1>6, SaveStoppedSound, DeleteKeySound, UnlinkSound DEF Serve
  <2> QED
    BY <1>0, <1>6, <2>1, RequestsServed, DirectoryServed, TaggedServed DEF Sound
<1>7. CASE Crash
  <2>1. \A x \in Recordings : RecordingSound(x)'
    BY <1>7, CrashSound
  <2>2. \A q \in Requests : RequestSound(q)'
    BY <1>7 DEF Crash, RequestSound, NoRequest
  <2>3. Fallbacks' /\ Untagged'
    <3>1. disk' = disk
      BY <1>7 DEF Crash
    <3>2. \A x \in Recordings : task[x].pc \in After => task'[x].pc \in After /\ task'[x].target = task[x].target
      BY <1>7, <1>t DEF Crash, At, After, TypeOK
    <3> QED
      BY <1>t, <3>1, <3>2 DEF Fallbacks, Untagged
  <2>4. \A x \in Recordings : TaggedSound(x)'
    <3>1. crashes' # 0
      <4>1. crashes \in 0..MaxCrashes /\ crashes' = crashes + 1
        BY <1>7, <1>t DEF Crash, TypeOK
      <4> QED
        BY <4>1, MaxCrashesNat
    <3> QED
      BY <3>1 DEF TaggedSound
  <2> QED
    BY <1>0, <2>1, <2>2, <2>3, <2>4 DEF Sound
<1> QED
  BY <1>1, <1>2, <1>3, <1>4, <1>5, <1>6, <1>7 DEF Next

\* The invariant holds throughout.
LEMMA SoundAlways == Spec => []Sound
BY SoundInit, SoundStep, PTL DEF Spec

\* Every value has its type: a goroutine never follows a path that is not there, and a
\* fallback name is always found.
THEOREM StorageTypeCorrect == Spec => []TypeOK
<1>1. Sound => TypeOK
  BY DEF Sound
<1> QED
  BY <1>1, SoundAlways, PTL

\* A completed RecordingInfo leads to a finished file, whatever is stopped, deleted, expires,
\* fails or crashes, for any number of recordings and requests.
THEOREM CompletedServed == Spec => []CompletedIsServed
<1>1. Sound => CompletedIsServed
  <2> SUFFICES ASSUME Sound, NEW r \in Recordings,
                      Alone(r), erased[r] = "no", info[r].status = "completed"
               PROVE  \/ disk[info[r].path] = "whole"
                      \/ ~HasFFmpeg /\ r \in Scheduled /\ info[r].path # task[r].target
    BY DEF CompletedIsServed
  <2>1. CopySound(r, info[r])
    <3>1. info[r] \in Copies(r)
      BY DEF Copies, NoInfo
    <3> QED
      BY <3>1 DEF Sound, RecordingSound
  <2>2. Finished(r) /\ TaskSound(r)
    BY <2>1 DEF CopySound, Sound, RecordingSound
  <2>3. disk[task[r].target] = "whole"
    BY <2>2 DEF Finished, Converted
  <2>4. HasFFmpeg => info[r].path = task[r].target
    BY <2>1, <2>2 DEF CopySound, TaskSound
  <2> QED
    BY <2>1, <2>3, <2>4 DEF CopySound
<1> QED
  BY <1>1, SoundAlways, PTL

\* Temporary files: a completed recording has given its download back, and one that has ended
\* without a crash its tagged file, unless the removal of that file was tried and failed.
THEOREM NoTemporaryFiles == Spec => []NoTempLeft
<1>1. Sound => NoTempLeft
  <2> SUFFICES ASSUME Sound, NEW r \in Recordings, Alone(r)
               PROVE  /\ info[r].status = "completed" => ~Kept(TempAACPath(info[r].path))
                      /\ info[r].status = "completed" \/ (At(r, "done") /\ crashes = 0) =>
                           ~Kept(TaggingPath(task[r].path))
    BY DEF NoTempLeft, Kept
  <2>1. ASSUME info[r].status = "completed"
        PROVE  ~Kept(TempAACPath(info[r].path)) /\ ~Kept(TaggingPath(task[r].path))
    <3>1. CopySound(r, info[r])
      <4>1. info[r] \in Copies(r)
        BY <2>1 DEF Copies, NoInfo
      <4> QED
        BY <4>1 DEF Sound, RecordingSound
    <3>2. Finished(r) /\ ~At(r, "idle") /\ info[r].path \in {task[r].path, task[r].target}
      BY <2>1, <3>1 DEF CopySound, At
    <3>3. info[r].path[1] = task[r].path[1]
      BY <3>2, OwnFiles
    <3> QED
      BY <3>2, <3>3 DEF Finished, Converted, Kept, TempAACPath
  <2>2. ASSUME At(r, "done"), crashes = 0
        PROVE  ~Kept(TaggingPath(task[r].path))
    <3>1. TaggedSound(r)
      BY DEF Sound
    <3>2. task[r].path[1] \in {ProgramOf[r], r}
      BY <2>2, OwnFiles DEF At
    <3> QED
      BY <2>2, <3>1, <3>2 DEF TaggedSound, TaggingPath, At
  <2> QED
    BY <2>1, <2>2
<1> QED
  BY <1>1, SoundAlways, PTL

\* With ffmpeg and without a crash, what was deleted after it had ended is gone from the disk,
\* or its removal was tried and failed.
THEOREM DeletionComplete == Spec => []DeleteLeavesNoFile
<1>1. Sound => DeleteLeavesNoFile
  BY DEF Sound, RecordingSound, EraseSound, Kept, DeleteLeavesNoFile, Pending, Unlinking
<1> QED
  BY <1>1, SoundAlways, PTL

\* A stored stop is not overwritten, and a user's recording that is stopped in time is not
\* converted.
THEOREM StopHolds == Spec => StopSticks
<1> DEFINE A == \A r \in Recordings \ Scheduled :
                  info[r].status = "stopped" /\ ~PastLook(r) =>
                    ~PastLook(r)' /\ info'[r].status \in {"stopped", "none"}
<1>1. Sound /\ [Next]_vars => A
  <2> SUFFICES ASSUME Sound, [Next]_vars, NEW r \in Recordings \ Scheduled,
                      info[r].status = "stopped", ~PastLook(r)
               PROVE  ~PastLook(r)' /\ info'[r].status \in {"stopped", "none"}
    BY DEF A
  <2>0. TypeOK /\ TaskSound(r)
    BY DEF Sound, RecordingSound
  <2>1. task[r].pc \in {"create", "write", "load", "done"}
    <3>1. info[r] \in Copies(r)
      BY DEF Copies, NoInfo
    <3>2. task[r].pc \notin {"idle", "save"}
      BY <3>1 DEF Sound, RecordingSound, CopySound
    <3> QED
      BY <2>0, <3>2 DEF TypeOK, TaskSound, PastLook, Steps
  <2>2. CASE UNCHANGED vars
    BY <2>2 DEF vars, PastLook
  <2>3. ASSUME NEW x \in Recordings, Begin(x) \/ RunTask(x)
        PROVE  ~PastLook(r)' /\ info'[r].status \in {"stopped", "none"}
    <3>1. CASE x # r
      BY <2>0, <2>3, <3>1, TouchesOwn DEF Begin, PastLook, TypeOK
    <3>2. CASE x = r
      <4>1. CreateOutput(r) \/ WriteOutput(r) \/ LoadInfo(r)
        BY <2>1, <2>3, <3>2 DEF Begin, RunTask, SaveStarted, CreateOutput, WriteOutput, LoadInfo, RemuxAAC,
             ReplaceFinal, RemoveTemp, StoreOutcome, ResaveInfo, GetInfo, SetInfo, At
      <4>2. info' = info
        BY <4>1 DEF CreateOutput, WriteOutput, LoadInfo
      <4>3. \E step \in {"write", "load", "done"} : Goto(r, step) \/ Fail(r, step)
        BY <4>1 DEF CreateOutput, WriteOutput, LoadInfo, FailMedia
      <4>4. task'[r].pc \in {"write", "load", "done"}
        <5>1. PICK step \in {"write", "load", "done"} : Goto(r, step) \/ Fail(r, step)
          BY <4>3
        <5>2. CASE Goto(r, step)
          BY <2>0, <5>2, MovedFields
        <5>3. CASE Fail(r, step)
          BY <2>0, <5>3, FailedFields
        <5> QED
          BY <5>1, <5>2, <5>3
      <4> QED
        BY <4>2, <4>4 DEF PastLook
    <3> QED
      BY <3>1, <3>2
  <2>4. ASSUME NEW x \in Recordings, Expire(x)
        PROVE  ~PastLook(r)' /\ info'[r].status \in {"stopped", "none"}
    BY <2>0, <2>4 DEF Expire, PastLook, TypeOK, NoInfo
  <2>5. ASSUME NEW q \in Requests, NEW x \in Recordings, StopRecording(q, x) \/ DeleteRecording(q, x)
        PROVE  ~PastLook(r)' /\ info'[r].status \in {"stopped", "none"}
    BY <2>5 DEF StopRecording, DeleteRecording, Load, PastLook
  <2>6. ASSUME NEW q \in Requests, Serve(q)
        PROVE  ~PastLook(r)' /\ info'[r].status \in {"stopped", "none"}
    <3>1. task' = task
      BY <2>6 DEF Serve, SaveStopped, DeleteKey, UnlinkFile
    <3>2. CASE SaveStopped(q)
      <4>1. request[q].id \in Recordings /\ request[q].copy.status = "stopped"
        BY <3>2 DEF SaveStopped, Sound, RequestSound
      <4> QED
        BY <2>0, <3>1, <3>2, <4>1 DEF SaveStopped, saveRecordingInfo, PastLook, TypeOK
    <3>3. CASE DeleteKey(q)
      <4>1. info'[r] \in {info[r], NoInfo}
        BY <2>0, <3>3 DEF DeleteKey, TypeOK
      <4> QED
        BY <3>1, <4>1 DEF PastLook, NoInfo
    <3>4. CASE UnlinkFile(q)
      BY <3>1, <3>4 DEF UnlinkFile, PastLook
    <3> QED
      BY <2>6, <3>2, <3>3, <3>4 DEF Serve
  <2>7. CASE Crash
    <3>1. task'[r] = [task[r] EXCEPT !.pc = "done", !.updates = 0, !.copy = NoInfo] /\ info' = info
      BY <2>1, <2>7 DEF Crash, At
    <3>2. task'[r].pc = "done"
      BY <2>0, <3>1 DEF TypeOK
    <3> QED
      BY <3>1, <3>2 DEF PastLook
  <2> QED
    BY <2>2, <2>3, <2>4, <2>5, <2>6, <2>7 DEF Next
<1>2. Sound /\ [Next]_vars => [A]_vars
  BY <1>1
<1> QED
  BY <1>2, SoundAlways, PTL DEF Spec, StopSticks
=============================================================================
