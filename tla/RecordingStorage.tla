-------------------------- MODULE RecordingStorage --------------------------
(***************************************************************************)
(* What recordings leave in Redis and on disk.  A recording is started by  *)
(* a user (handler/recording.go, StartTimefree) or by the scheduler        *)
(* (job/scheduler.go); its goroutine downloads to a temporary file, turns  *)
(* it into the final one and writes the outcome into its RecordingInfo,    *)
(* while the user may stop or delete it and the key may expire.            *)
(*                                                                         *)
(* Every Redis command and every file operation is one step.  The content  *)
(* of a file is "partial" or "whole"; what a download holds does not       *)
(* matter.  The retention jobs, which look at ages of a day and more, are  *)
(* not here (ScheduledRecording has what they do to a recording).          *)
(***************************************************************************)
EXTENDS Naturals, FiniteSets

CONSTANTS
    Recordings,    \* recording ids; each is started at most once
    Scheduled,     \* those the scheduler starts
    Programs,
    ProgramOf,     \* what each recording records: station, start time and title
    Requests,      \* user requests in progress at the same time
    None,
    HasFFmpeg,     \* ffmpeg is installed
    KeysExpire,    \* the TTL may run out
    MaxCrashes,
    Faults         \* what may fail: "redis" commands, "media" (network, disk, ffmpeg)

ASSUME ConstantsAssumption ==
    /\ Scheduled \subseteq Recordings
    /\ ProgramOf \in [Recordings -> Programs]
    /\ Recordings \cap Programs = {}
    /\ None \notin Recordings
    /\ IsFiniteSet(Recordings)
    /\ MaxCrashes \in Nat
    /\ {HasFFmpeg, KeysExpire} \subseteq BOOLEAN
    /\ Faults \subseteq {"redis", "media"}

VARIABLES
    info,      \* recording_<id>: the RecordingInfo, its status and FilePath
    disk,      \* the storage directory
    task,      \* the goroutines
    request,   \* the Stop and Delete requests and the RecordingInfo each has loaded
    stuck,     \* history: the files whose os.Remove failed the last time it was tried
    erased,    \* history: the recordings whose key a Delete has removed, and when it read them
    crashes

vars == <<info, disk, task, request, stuck, erased, crashes>>

\* BaseName gives the stem of a programme, the short id that of one recording; the
\* number tells the fallback names stem.aac, stem_1.aac, ... apart.
Paths == (Programs \cup Recordings) \X
            ({<<"m4a", 0>>, <<"temp", 0>>, <<"tagging", 0>>}
                \cup ({"aac"} \X (0..Cardinality(Recordings))))

Final(stem) == <<stem, <<"m4a", 0>>>>
TempAACPath(path) == <<path[1], <<"temp", 0>>>>
TaggingPath(path) == <<path[1], <<"tagging", 0>>>>

NoInfo == [status |-> "none", path |-> None]
Info == [status : {"recording", "stopped", "completed", "failed"}, path : Paths]

Steps == {"idle", "save", "create", "write", "load", "remux", "replace", "tidy",
          "resave", "get", "set", "store", "done"}

TypeOK ==
    /\ info \in [Recordings -> Info \cup {NoInfo}]
    /\ disk \in [Paths -> {"none", "partial", "whole"}]
    /\ task \in [Recordings -> [pc : Steps, path : Paths \cup {None}, target : Paths \cup {None},
                                outcome : {"completed", "failed"}, updates : 0..1,
                                copy : Info \cup {NoInfo}]]
    /\ request \in [Requests -> [pc : {"idle", "stop", "del", "unlink"}, id : Recordings \cup {None},
                                 copy : Info \cup {NoInfo}, ended : BOOLEAN]]
    /\ stuck \subseteq Paths
    /\ erased \in [Recordings -> {"no", "running", "ended"}]
    /\ crashes \in 0..MaxCrashes

NoTask == [pc |-> "idle", path |-> None, target |-> None, outcome |-> "completed",
           updates |-> 0, copy |-> NoInfo]
NoRequest == [pc |-> "idle", id |-> None, copy |-> NoInfo, ended |-> FALSE]

Init ==
    /\ info = [r \in Recordings |-> NoInfo]
    /\ disk = [p \in Paths |-> "none"]
    /\ task = [r \in Recordings |-> NoTask]
    /\ request = [q \in Requests |-> NoRequest]
    /\ stuck = {}
    /\ erased = [r \in Recordings |-> "no"]
    /\ crashes = 0

-----------------------------------------------------------------------------
(* Helpers *)

Outcomes(kind) == IF kind \in Faults THEN BOOLEAN ELSE {TRUE}

At(r, step) == task[r].pc = step
Goto(r, step) == task' = [task EXCEPT ![r].pc = step]

\* SET recording_<id>, or an error.
saveRecordingInfo(r, rec) ==
    \E ok \in Outcomes("redis") : info' = IF ok THEN [info EXCEPT ![r] = rec] ELSE info

\* os.Remove, whose error is ignored.
RemoveFile(p) ==
    \/ disk' = [disk EXCEPT ![p] = "none"] /\ stuck' = stuck \ {p}
    \/ "media" \in Faults /\ disk[p] # "none" /\ stuck' = stuck \cup {p} /\ UNCHANGED disk

\* The media work failed.
Fail(r, step) ==
    task' = [task EXCEPT ![r].pc = step, ![r].outcome = "failed", ![r].target = task[r].path]

\* After a failure the scheduler updates the status a second time when no retry is left.
Updated(r) ==
    \E again \in {FALSE, task[r].outcome = "failed" /\ task[r].updates = 0} :
        task' = [task EXCEPT ![r].pc = IF again THEN "get" ELSE "done",
                             ![r].updates = IF again THEN 1 ELSE 0, ![r].copy = NoInfo]

-----------------------------------------------------------------------------
(* The start *)

\* The name is looked up on disk only: a recording under way has no finished file yet.
NewPath(r) ==
    IF disk[Final(ProgramOf[r])] = "none" THEN Final(ProgramOf[r]) ELSE Final(r)

\* Also: no token, no recording, which is not a step.
Begin(r) ==
    /\ At(r, "idle")
    /\ task' = [task EXCEPT ![r].pc = "save", ![r].path = NewPath(r), ![r].target = NewPath(r)]
    /\ UNCHANGED <<info, disk, request, stuck, erased, crashes>>

\* A user's recording ends here when Redis refuses the key; the scheduler's goes on.
SaveStarted(r) ==
    /\ At(r, "save")
    /\ \E ok \in Outcomes("redis") :
        IF ok THEN /\ info' = [info EXCEPT ![r] = [status |-> "recording", path |-> task[r].path]]
                   /\ Goto(r, "create")
              ELSE /\ Goto(r, IF r \in Scheduled THEN "create" ELSE "done")
                   /\ UNCHANGED info
    /\ UNCHANGED <<disk, request, stuck, erased, crashes>>

-----------------------------------------------------------------------------
(* The download, then the conversion *)

\* Mutants: the error is lost, or the goroutine just ends.
FailMediaUnreported(r) == Goto(r, IF r \in Scheduled THEN "get" ELSE "load")
FailMediaQuietly(r) == Goto(r, "done")

FailMedia(r) == Fail(r, IF r \in Scheduled THEN "get" ELSE "load")

\* Playlists and segments are fetched before the output is created.
CreateOutput(r) ==
    /\ At(r, "create")
    /\ \/ disk' = [disk EXCEPT ![TempAACPath(task[r].path)] = "partial"] /\ Goto(r, "write")
       \/ "media" \in Faults /\ FailMedia(r) /\ UNCHANGED disk
    /\ UNCHANGED <<info, request, stuck, erased, crashes>>

\* Another recording has opened the same file for writing.
Shared(r) == \E q \in Recordings \ {r} :
    task[q].path = task[r].path /\ task[q].pc \notin {"idle", "save", "create"}

\* The file is closed and looked at: it must be there still.  Two writers of one file
\* leave holes or do not.
WriteOutput(r) ==
    /\ At(r, "write")
    /\ LET temp == TempAACPath(task[r].path) IN
        \/ /\ disk[temp] # "none"
           /\ \E content \in {"whole"} \cup (IF Shared(r) THEN {"partial"} ELSE {}) :
                disk' = [disk EXCEPT ![temp] = content]
           /\ Goto(r, IF r \in Scheduled THEN "remux" ELSE "load")
        \/ /\ disk[temp] = "none" \/ "media" \in Faults
           /\ FailMedia(r)
           /\ UNCHANGED disk
    /\ UNCHANGED <<info, request, stuck, erased, crashes>>

\* Mutant: the user's Stop is not looked for.
LoadUnchecked(r) ==
    /\ At(r, "load")
    /\ Goto(r, IF info[r] = NoInfo THEN "done"
               ELSE IF task[r].outcome = "failed" THEN "store" ELSE "remux")
    /\ UNCHANGED <<info, disk, request, stuck, erased, crashes>>

\* The user's recording looks whether it was stopped; without its key it gives up.
LoadInfo(r) ==
    /\ At(r, "load")
    /\ \E ok \in Outcomes("redis") :
        Goto(r, IF ~ok \/ info[r].status \in {"none", "stopped"} THEN "done"
                ELSE IF task[r].outcome = "failed" THEN "store" ELSE "remux")
    /\ UNCHANGED <<info, disk, request, stuck, erased, crashes>>

\* The first name of stem.aac, stem_1.aac, ... that is free.
FallbackAACPath(path) ==
    LET free == {n \in 0..Cardinality(Recordings) : disk[<<path[1], <<"aac", n>>>>] = "none"}
    IN  <<path[1], <<"aac", CHOOSE n \in free : \A k \in free : n <= k>>>>

\* ffmpeg copies the stream into a tagged file, of which a failure may leave a part;
\* without ffmpeg another name is chosen.
RemuxAAC(r) ==
    /\ At(r, "remux")
    /\ LET temp == TempAACPath(task[r].path) IN
        \/ /\ HasFFmpeg /\ disk[temp] # "none"
           /\ disk' = [disk EXCEPT ![TaggingPath(task[r].path)] = disk[temp]]
           /\ Goto(r, "replace")
        \/ /\ HasFFmpeg /\ (disk[temp] = "none" \/ "media" \in Faults)
           /\ \E left \in {disk[TaggingPath(task[r].path)], "partial"} :
                disk' = [disk EXCEPT ![TaggingPath(task[r].path)] = left]
           /\ Fail(r, "tidy")
        \/ /\ ~HasFFmpeg
           /\ task' = [task EXCEPT ![r].pc = "replace", ![r].target = FallbackAACPath(task[r].path)]
           /\ UNCHANGED disk
    /\ UNCHANGED <<info, request, stuck, erased, crashes>>

Reported(r) == IF r \in Scheduled THEN "get" ELSE "store"

Renamed(from, to) == [disk EXCEPT ![to] = disk[from], ![from] = "none"]

\* The tagged file or, without ffmpeg, the download itself becomes the recording.
ReplaceFinal(r) ==
    /\ At(r, "replace")
    /\ LET from == IF HasFFmpeg THEN TaggingPath(task[r].path) ELSE TempAACPath(task[r].path) IN
        \/ /\ disk[from] # "none"
           /\ disk' = Renamed(from, task[r].target)
           /\ Goto(r, IF HasFFmpeg THEN "tidy"
                      ELSE IF r \notin Scheduled THEN "store"
                      ELSE IF task[r].target # task[r].path THEN "resave" ELSE "get")
        \/ /\ disk[from] = "none" \/ "media" \in Faults
           /\ Fail(r, IF HasFFmpeg THEN "tidy" ELSE Reported(r))
           /\ UNCHANGED disk
    /\ UNCHANGED <<info, request, stuck, erased, crashes>>

\* Mutant: the input of ffmpeg stays.
RemoveTaggedOnly(r) ==
    /\ At(r, "tidy")
    /\ IF task[r].outcome = "completed" THEN UNCHANGED <<disk, stuck>>
                                       ELSE RemoveFile(TaggingPath(task[r].path))
    /\ Goto(r, Reported(r))
    /\ UNCHANGED <<info, request, erased, crashes>>

\* With ffmpeg: the input after a success, the tagged file after a failure.
RemoveTemp(r) ==
    /\ At(r, "tidy")
    /\ RemoveFile(IF task[r].outcome = "completed" THEN TempAACPath(task[r].path)
                                              ELSE TaggingPath(task[r].path))
    /\ Goto(r, Reported(r))
    /\ UNCHANGED <<info, request, erased, crashes>>

-----------------------------------------------------------------------------
(* The outcome *)

\* The user's recording: the RecordingInfo loaded before the conversion is written back.
StoreOutcome(r) ==
    /\ At(r, "store")
    /\ saveRecordingInfo(r, [status |-> task[r].outcome, path |-> task[r].target])
    /\ Goto(r, "done")
    /\ UNCHANGED <<disk, request, stuck, erased, crashes>>

\* The scheduler's: the new FilePath first, with the status the goroutine holds.
ResaveInfo(r) ==
    /\ At(r, "resave")
    /\ saveRecordingInfo(r, [status |-> "recording", path |-> task[r].target])
    /\ Goto(r, "get")
    /\ UNCHANGED <<disk, request, stuck, erased, crashes>>

\* updateRedisRecordingStatus: GET, and the copy is changed; a missing key is an error the
\* callers drop.
GetInfo(r) ==
    /\ At(r, "get")
    /\ \E ok \in Outcomes("redis") :
        IF ok /\ info[r] # NoInfo
        THEN task' = [task EXCEPT ![r].pc = "set", ![r].copy = [info[r] EXCEPT !.status = task[r].outcome]]
        ELSE Updated(r)
    /\ UNCHANGED <<info, disk, request, stuck, erased, crashes>>

\* ... then SET of the copy.
SetInfo(r) ==
    /\ At(r, "set")
    /\ saveRecordingInfo(r, task[r].copy)
    /\ Updated(r)
    /\ UNCHANGED <<disk, request, stuck, erased, crashes>>

-----------------------------------------------------------------------------
(* Requests of the owner; those of others are refused without a change *)

\* Stop changes the status of its copy at once; of Delete's copy only the path is used.
Load(q, r, pc) ==
    /\ request[q].pc = "idle"
    /\ info[r] # NoInfo
    /\ request' = [request EXCEPT ![q] = [pc |-> pc, id |-> r, ended |-> At(r, "done"),
                                          copy |-> [info[r] EXCEPT !.status = "stopped"]]]
    /\ UNCHANGED <<info, disk, task, stuck, erased, crashes>>

StopRecording(q, r) == Load(q, r, "stop")
DeleteRecording(q, r) == Load(q, r, "del")

\* Mutant: a status nobody knows.
SaveAborted(q) ==
    /\ request[q].pc = "stop"
    /\ saveRecordingInfo(request[q].id, [request[q].copy EXCEPT !.status = "aborted"])
    /\ request' = [request EXCEPT ![q] = NoRequest]
    /\ UNCHANGED <<disk, task, stuck, erased, crashes>>

\* The loaded copy is written back as "stopped", whatever its status was.
SaveStopped(q) ==
    /\ request[q].pc = "stop"
    /\ saveRecordingInfo(request[q].id, request[q].copy)
    /\ request' = [request EXCEPT ![q] = NoRequest]
    /\ UNCHANGED <<disk, task, stuck, erased, crashes>>

DeleteKey(q) ==
    /\ request[q].pc = "del"
    /\ LET r == request[q].id IN
       \E ok \in Outcomes("redis") :
        IF ok THEN /\ info' = [info EXCEPT ![r] = NoInfo]
                   /\ erased' = [erased EXCEPT ![r] = IF request[q].ended THEN "ended" ELSE "running"]
                   /\ request' = [request EXCEPT ![q].pc = "unlink"]
              ELSE request' = [request EXCEPT ![q] = NoRequest] /\ UNCHANGED <<info, erased>>
    /\ UNCHANGED <<disk, task, stuck, crashes>>

\* Mutant: the recording's file is left where it is.
UnlinkNothing(q) ==
    /\ request[q].pc = "unlink"
    /\ request' = [request EXCEPT ![q] = NoRequest]
    /\ UNCHANGED <<info, disk, task, stuck, erased, crashes>>

\* os.Remove of the loaded FilePath; the answer is "deleted" also when it fails.
UnlinkFile(q) ==
    /\ request[q].pc = "unlink"
    /\ RemoveFile(request[q].copy.path)
    /\ request' = [request EXCEPT ![q] = NoRequest]
    /\ UNCHANGED <<info, task, erased, crashes>>

-----------------------------------------------------------------------------
\* Two hours after the last SET of the handlers, a day after the scheduler's.
Expire(r) ==
    /\ KeysExpire
    /\ info[r] # NoInfo
    /\ info' = [info EXCEPT ![r] = NoInfo]
    /\ UNCHANGED <<disk, task, request, stuck, erased, crashes>>

\* The process dies: goroutines and requests are gone, Redis and the disk stay.
Crash ==
    /\ crashes < MaxCrashes
    /\ crashes' = crashes + 1
    /\ task' = [r \in Recordings |-> IF At(r, "idle") THEN task[r]
                               ELSE [task[r] EXCEPT !.pc = "done", !.updates = 0, !.copy = NoInfo]]
    /\ request' = [q \in Requests |-> NoRequest]
    /\ UNCHANGED <<info, disk, stuck, erased>>

RunTask(r) ==
    \/ SaveStarted(r)
    \/ CreateOutput(r)
    \/ WriteOutput(r)
    \/ LoadInfo(r)
    \/ RemuxAAC(r)
    \/ ReplaceFinal(r)
    \/ RemoveTemp(r)
    \/ StoreOutcome(r)
    \/ ResaveInfo(r)
    \/ GetInfo(r)
    \/ SetInfo(r)

Serve(q) == SaveStopped(q) \/ DeleteKey(q) \/ UnlinkFile(q)

Next ==
    \/ \E r \in Recordings : Begin(r) \/ RunTask(r) \/ Expire(r)
    \/ \E q \in Requests : Serve(q) \/ (\E r \in Recordings : StopRecording(q, r) \/ DeleteRecording(q, r))
    \/ Crash

Spec == Init /\ [][Next]_vars

\* Goroutines and requests that have begun run to their end.
Fairness ==
    /\ \A r \in Recordings : WF_vars(RunTask(r))
    /\ \A q \in Requests : WF_vars(Serve(q))

FairSpec == Spec /\ Fairness

-----------------------------------------------------------------------------
(* Properties *)

\* No other recording is of the same programme (see DuplicatesGetOwnPath for those).
Alone(r) == \A q \in Recordings \ {r} : ProgramOf[q] # ProgramOf[r]

PastLook(r) == task[r].pc \in {"remux", "replace", "tidy", "store"}

Pending(r) == \E q \in Requests : request[q].id = r

\* What the download, stream and feed handlers rely on: a completed RecordingInfo leads to
\* a finished, complete file, whatever was stopped, expired, failed or crashed, unless its
\* owner has deleted the recording.  One exception: without ffmpeg the scheduler's file gets
\* a new name, and a Stop that read the old one, or a failed SET, puts the old name back.
CompletedIsServed ==
    \A r \in Recordings :
        Alone(r) /\ erased[r] = "no" /\ info[r].status = "completed" =>
            \/ disk[info[r].path] = "whole"
            \/ ~HasFFmpeg /\ r \in Scheduled /\ info[r].path # task[r].target

\* A recording deleted after its goroutine had ended leaves no final file behind, whatever
\* else the user asked for at the same time, unless the removal of that very file failed,
\* which the answer "deleted" hides (a crash between the two steps does leave it).
DeleteLeavesNoFile ==
    HasFFmpeg /\ crashes = 0 =>
        \A r \in Recordings :
            Alone(r) /\ erased[r] = "ended" /\ ~Pending(r) =>
                disk[task[r].target] = "none" \/ task[r].target \in stuck

\* A completed recording has given its download back, and no recording that has ended
\* leaves a tagged file, however it ended: only a file whose own removal failed is still there.
NoTempLeft ==
    \A r \in Recordings : Alone(r) =>
        /\ info[r].status = "completed" =>
             LET temp == TempAACPath(info[r].path) IN disk[temp] = "none" \/ temp \in stuck
        /\ info[r].status = "completed" \/ (At(r, "done") /\ crashes = 0) =>
             LET tagged == TaggingPath(task[r].path) IN disk[tagged] = "none" \/ tagged \in stuck

\* A user's recording whose stop is stored before its goroutine looks is not converted,
\* and neither its goroutine nor another request stores anything over the stop.
StopSticks ==
    [][\A r \in Recordings \ Scheduled :
        info[r].status = "stopped" /\ ~PastLook(r) =>
            ~PastLook(r)' /\ info'[r].status \in {"stopped", "none"}]_vars

\* Every recording that was started leaves the status "recording".
RecordingEnds == \A r \in Recordings : info[r].status = "recording" ~> info[r].status # "recording"

\* What NewPath is tested for: a duplicate gets a path of its own.
DuplicatesGetOwnPath ==
    \A q, r \in Recordings :
        q # r /\ info[q] # NoInfo /\ info[r] # NoInfo => info[q].path # info[r].path

=============================================================================
