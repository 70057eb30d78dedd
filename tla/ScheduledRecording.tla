------------------------- MODULE ScheduledRecording -------------------------
(***************************************************************************)
(* Reserved recordings: the rows of recording_schedules, the minute ticker *)
(* of the scheduler that looks for due rows, and the goroutines it starts, *)
(* one per due row and tick (internal/job/scheduler.go).  The user creates *)
(* and cancels rows through internal/service/schedule.go.                  *)
(*                                                                         *)
(* Every statement sent to MySQL or Redis is one atomic step; between two  *)
(* statements everything else may run.  No statement of the code tests the *)
(* status it overwrites, and neither do the actions below.                 *)
(*                                                                         *)
(* Time is abstracted to the two comparisons FindPendingBefore makes:      *)
(* row.due is scheduled_start_time <= now, row.waiting is                  *)
(* next_retry_at > now; the passing of time flips them.                    *)
(*                                                                         *)
(* What else may happen to a recording once its key exists (the owner      *)
(* stops or deletes it, its time to live ends, a sweeper takes its file)   *)
(* is in three actions here and step by step in RecordingStorage.          *)
(***************************************************************************)
EXTENDS Naturals, FiniteSets

CONSTANTS
    Schedules,     \* ids the table may ever hand out (bounds the rows created)
    Workers,       \* goroutines; each runs once and names one recording_id (bounds the attempts)
    None,          \* SQL NULL
    MaxRetries,    \* maxScheduledRecordingRetries
    MaxCrashes,    \* bound on the crashes of the process
    Touched,       \* recordings the owner, the TTL or a sweeper may touch (bound: all, or those named)
    Faults,        \* what may fail: "db", "redis" statements, "media" (auth, mkdir, download, ffmpeg)
    PromptClaims   \* a goroutine's first UPDATE is executed before the next tick, a minute later

ASSUME ConstantsAssumption ==
    /\ None \notin Schedules \cup Workers
    /\ MaxRetries \in Nat
    /\ MaxCrashes \in Nat
    /\ Touched \subseteq Workers
    /\ Faults \subseteq {"db", "redis", "media"}
    /\ PromptClaims \in BOOLEAN

VARIABLES
    rows,       \* recording_schedules
    batch,      \* rows the tick has selected and not yet handed to a goroutine
    worker,     \* the goroutines: where they stand and their copy (sc) of the row
    redis,      \* recording_<id>: the status of the RecordingInfo of each goroutine
    files,      \* goroutines whose finished audio file is in place
    removed,    \* goroutines whose finished audio file was there and is not any more
    dropped,    \* history: goroutines that ignored an error from SaveInfo on, or died before they had published
    notified,   \* the notification row each goroutine has inserted
    crashes     \* crashes so far

vars == <<rows, batch, worker, redis, files, removed, dropped, notified, crashes>>

Status == {"absent", "pending", "recording", "completed", "failed", "cancelled"}

Step == {"idle", "claim", "auth", "save", "setid", "download", "finalize",
         "complete", "publish", "notify", "recur",
         "retry", "giveup", "failinfo", "notifyfail", "done"}

Row == [status : Status, retry_count : Nat, due : BOOLEAN, waiting : BOOLEAN,
        recurring : BOOLEAN, parent : Schedules \cup {None}, recording_id : Workers \cup {None}]

\* "none": never saved; "gone": deleted or expired.
KeyStatus == {"none", "recording", "completed", "failed", "stopped", "gone"}

Snapshot == [id : Schedules, retry_count : Nat]

TypeOK ==
    /\ rows \in [Schedules -> Row]
    /\ batch \subseteq Snapshot
    /\ worker \in [Workers -> [pc : Step, id : Schedules \cup {None}, retry_count : Nat]]
    /\ redis \in [Workers -> KeyStatus]
    /\ files \subseteq Workers /\ removed \subseteq Workers /\ dropped \subseteq Workers
    /\ notified \in [Workers -> {"none", "completed", "failed"}]
    /\ crashes \in 0..MaxCrashes

NoRow == [status |-> "absent", retry_count |-> 0, due |-> FALSE, waiting |-> FALSE,
          recurring |-> FALSE, parent |-> None, recording_id |-> None]

Init ==
    /\ rows = [s \in Schedules |-> NoRow]
    /\ batch = {}
    /\ worker = [w \in Workers |-> [pc |-> "idle", id |-> None, retry_count |-> 0]]
    /\ redis = [w \in Workers |-> "none"]
    /\ files = {} /\ removed = {} /\ dropped = {}
    /\ notified = [w \in Workers |-> "none"]
    /\ crashes = 0

-----------------------------------------------------------------------------
(* Helpers *)

\* Whether an operation of this kind succeeds: it always does unless the kind may fail.
Outcomes(kind) == IF kind \in Faults THEN BOOLEAN ELSE {TRUE}

Live(w) == worker[w].pc \notin {"idle", "done"}

At(w, step) == worker[w].pc = step

Goto(w, step) == worker' = [worker EXCEPT ![w].pc = step]

\* UPDATE recording_schedules SET status = st WHERE id = s, whatever the status was.
updateScheduleStatus(s, st) == rows' = [rows EXCEPT ![s].status = st]

\* The error of a statement is logged or ignored, and the goroutine goes on.
GoesOn(w, ok) == dropped' = IF ok THEN dropped ELSE dropped \cup {w}

\* Redis GET, change of the status, SET; a missing key is an error the callers drop.
updateRedisRecordingStatus(w, st) ==
    \E ok \in Outcomes("redis") :
        /\ redis' = IF ok /\ redis[w] \notin {"none", "gone"} THEN [redis EXCEPT ![w] = st] ELSE redis
        /\ GoesOn(w, ok)

saveRecordingInfo(w) ==
    \E ok \in Outcomes("redis") :
        /\ redis' = IF ok THEN [redis EXCEPT ![w] = "recording"] ELSE redis
        /\ GoesOn(w, ok)

Create(s, r, p, d) ==
    rows' = [rows EXCEPT ![s] = [NoRow EXCEPT !.status = "pending", !.recurring = r,
                                              !.parent = p, !.due = d]]

-----------------------------------------------------------------------------
(* The user and the clock *)

\* A reservation, of the future or of the past (time-free).
Schedule(s, recurring) == \E due \in BOOLEAN : Create(s, recurring, None, due)

\* POST /recording/schedule; a body the validation refuses changes nothing.
Store(s) ==
    /\ rows[s].status = "absent"
    /\ \E recurring \in BOOLEAN : Schedule(s, recurring)
    /\ UNCHANGED <<batch, worker, redis, files, removed, dropped, notified, crashes>>

\* Mutant: a status the ENUM does not know.
CancelMisspelt(s) ==
    /\ rows[s].status \notin {"absent", "cancelled"}
    /\ updateScheduleStatus(s, "canceled")
    /\ UNCHANGED <<batch, worker, redis, files, removed, dropped, notified, crashes>>

\* POST /recording/schedule/cancel by the owner: the status is not looked at.
Cancel(s) ==
    /\ rows[s].status \notin {"absent", "cancelled"}
    /\ updateScheduleStatus(s, "cancelled")
    /\ UNCHANGED <<batch, worker, redis, files, removed, dropped, notified, crashes>>

StartTimeArrives(s) ==
    /\ rows[s].status # "absent" /\ ~rows[s].due
    /\ rows' = [rows EXCEPT ![s].due = TRUE]
    /\ UNCHANGED <<batch, worker, redis, files, removed, dropped, notified, crashes>>

BackoffElapses(s) ==
    /\ rows[s].waiting
    /\ rows' = [rows EXCEPT ![s].waiting = FALSE]
    /\ UNCHANGED <<batch, worker, redis, files, removed, dropped, notified, crashes>>

-----------------------------------------------------------------------------
(* The ticker *)

\* Mutant: the SELECT without its status = 'pending'.
findAnyBefore == {s \in Schedules : rows[s].status # "absent" /\ rows[s].due /\ ~rows[s].waiting}

findPendingBefore ==
    {s \in Schedules : rows[s].status = "pending" /\ rows[s].due /\ ~rows[s].waiting}

\* One SELECT per minute; the loop of the previous tick is over.
processRecordingSchedules ==
    /\ batch = {}
    /\ findPendingBefore # {}
    /\ PromptClaims => \A w \in Workers : ~At(w, "claim")
    /\ batch' = {[id |-> s, retry_count |-> rows[s].retry_count] : s \in findPendingBefore}
    /\ UNCHANGED <<rows, worker, redis, files, removed, dropped, notified, crashes>>

\* Goroutines that have not run are interchangeable: which one is next does not matter.
NextWorker == CHOOSE w \in Workers : At(w, "idle")

\* go s.startScheduledRecording(ctx, &sc), on the copy of the row just read.
SpawnWorker ==
    /\ \E w \in Workers : At(w, "idle")
    /\ \E sc \in batch :
        /\ batch' = batch \ {sc}
        /\ worker' = [worker EXCEPT ![NextWorker] = [pc |-> "claim", id |-> sc.id,
                                                     retry_count |-> sc.retry_count]]
    /\ UNCHANGED <<rows, redis, files, removed, dropped, notified, crashes>>

-----------------------------------------------------------------------------
(* startScheduledRecording *)

\* Mutant: the row is not claimed before the work starts.
StartUnclaimed(w) ==
    /\ At(w, "claim")
    /\ Goto(w, "auth")
    /\ UNCHANGED <<rows, batch, redis, files, removed, dropped, notified, crashes>>

\* Status "recording"; on an error the goroutine ends and a later tick finds the row again.
ClaimSchedule(w) ==
    /\ At(w, "claim")
    /\ \E ok \in Outcomes("db") :
        IF ok THEN updateScheduleStatus(worker[w].id, "recording") /\ Goto(w, "auth")
              ELSE UNCHANGED rows /\ Goto(w, "done")
    /\ UNCHANGED <<batch, redis, files, removed, dropped, notified, crashes>>

\* The Radiko token, the output path and its directory.
PrepareRecording(w) ==
    /\ At(w, "auth")
    /\ \E ok \in Outcomes("media") : Goto(w, IF ok THEN "save" ELSE "retry")
    /\ UNCHANGED <<rows, batch, redis, files, removed, dropped, notified, crashes>>

\* The RecordingInfo goes to Redis; an error does not stop the recording.
SaveInfo(w) ==
    /\ At(w, "save")
    /\ saveRecordingInfo(w)
    /\ Goto(w, "setid")
    /\ UNCHANGED <<rows, batch, files, removed, notified, crashes>>

setScheduleRecordingID(w) ==
    /\ At(w, "setid")
    /\ \E ok \in Outcomes("db") :
        /\ rows' = IF ok THEN [rows EXCEPT ![worker[w].id].recording_id = w] ELSE rows
        /\ GoesOn(w, ok)
    /\ Goto(w, "download")
    /\ UNCHANGED <<batch, redis, files, removed, notified, crashes>>

DownloadTimefree(w) ==
    /\ At(w, "download")
    /\ \E ok \in Outcomes("media") :
        IF ok THEN UNCHANGED <<redis, dropped>> /\ Goto(w, "finalize")
              ELSE updateRedisRecordingStatus(w, "failed") /\ Goto(w, "retry")
    /\ UNCHANGED <<rows, batch, files, removed, notified, crashes>>

\* Remux with ffmpeg, or without it a rename to another path, which is saved again.
FinalizeAAC(w) ==
    /\ At(w, "finalize")
    /\ \/ /\ files' = files \cup {w}
          /\ (UNCHANGED <<redis, dropped>> \/ saveRecordingInfo(w))
          /\ Goto(w, "complete")
       \/ /\ "media" \in Faults
          /\ updateRedisRecordingStatus(w, "failed")
          /\ Goto(w, "retry")
          /\ UNCHANGED files
    /\ UNCHANGED <<rows, batch, removed, notified, crashes>>

\* The error of the status UPDATE is dropped.
CompleteSchedule(w) ==
    /\ At(w, "complete")
    /\ \E ok \in Outcomes("db") :
        /\ IF ok THEN updateScheduleStatus(worker[w].id, "completed") ELSE UNCHANGED rows
        /\ GoesOn(w, ok)
    /\ Goto(w, "publish")
    /\ UNCHANGED <<batch, redis, files, removed, notified, crashes>>

\* Mutant: only MySQL is told of the completion.
PublishForgotten(w) ==
    /\ At(w, "publish")
    /\ Goto(w, "notify")
    /\ UNCHANGED <<rows, batch, redis, files, removed, dropped, notified, crashes>>

PublishInfo(w) ==
    /\ At(w, "publish")
    /\ updateRedisRecordingStatus(w, "completed")
    /\ Goto(w, "notify")
    /\ UNCHANGED <<rows, batch, files, removed, notified, crashes>>

\* Mutant: the test of sc.IsRecurring is the wrong way round.
notifyThenRecurWrongly(w) ==
    /\ At(w, "notify")
    /\ notified' = [notified EXCEPT ![w] = "completed"]
    /\ Goto(w, IF rows[worker[w].id].recurring THEN "done" ELSE "recur")
    /\ UNCHANGED <<rows, batch, redis, files, removed, dropped, crashes>>

\* sc.IsRecurring was read with the row; nothing updates that column.
notifyRecordingCompleted(w) ==
    /\ At(w, "notify")
    /\ \E ok \in Outcomes("db") :
        notified' = IF ok THEN [notified EXCEPT ![w] = "completed"] ELSE notified
    /\ Goto(w, IF rows[worker[w].id].recurring THEN "recur" ELSE "done")
    /\ UNCHANGED <<rows, batch, redis, files, removed, dropped, crashes>>

\* The row of next week; once Schedules is used up no row is created (bound).
createNextRecurringSchedule(w) ==
    /\ At(w, "recur")
    /\ LET free == {s \in Schedules : rows[s].status = "absent"} IN
        \/ \E s \in free, d \in BOOLEAN : Create(s, TRUE, worker[w].id, d)
        \/ (free = {} \/ "db" \in Faults) /\ UNCHANGED rows
    /\ Goto(w, "done")
    /\ UNCHANGED <<batch, redis, files, removed, dropped, notified, crashes>>

-----------------------------------------------------------------------------
(* handleScheduledRecordingFailure: the limit is tested on the copy of the row *)

\* Mutants: one retry too many, one too few.
RetriesLeftOneMore(w) == worker[w].retry_count <= MaxRetries
RetriesLeftOneLess(w) == worker[w].retry_count + 1 < MaxRetries

RetriesLeft(w) == worker[w].retry_count < MaxRetries

\* Mutant: the row is not put back to "pending".
incrementRetryCountOnly(s) ==
    rows' = [rows EXCEPT ![s].retry_count = @ + 1, ![s].waiting = TRUE]

incrementScheduleRetryCount(s) ==
    rows' = [rows EXCEPT ![s].retry_count = @ + 1, ![s].status = "pending", ![s].waiting = TRUE]

QueueRetry(w) ==
    /\ At(w, "retry") /\ RetriesLeft(w)
    /\ \E ok \in Outcomes("db") :
        IF ok THEN incrementScheduleRetryCount(worker[w].id) /\ Goto(w, "done")
              ELSE UNCHANGED rows /\ Goto(w, "giveup")
    /\ UNCHANGED <<batch, redis, files, removed, dropped, notified, crashes>>

\* No retry left: also Redis is told.  After a failed retry UPDATE ("giveup") it is not.
FailSchedule(w) ==
    /\ \/ At(w, "giveup")
       \/ At(w, "retry") /\ ~RetriesLeft(w)
    /\ \E ok \in Outcomes("db") :
        IF ok THEN updateScheduleStatus(worker[w].id, "failed") ELSE UNCHANGED rows
    /\ Goto(w, IF At(w, "giveup") THEN "notifyfail" ELSE "failinfo")
    /\ UNCHANGED <<batch, redis, files, removed, dropped, notified, crashes>>

\* Mutant: the early return of the retry branch also skips the last notification.
FailInfoAndReturn(w) ==
    /\ At(w, "failinfo")
    /\ updateRedisRecordingStatus(w, "failed")
    /\ Goto(w, "done")
    /\ UNCHANGED <<rows, batch, files, removed, notified, crashes>>

FailInfo(w) ==
    /\ At(w, "failinfo")
    /\ updateRedisRecordingStatus(w, "failed")
    /\ Goto(w, "notifyfail")
    /\ UNCHANGED <<rows, batch, files, removed, notified, crashes>>

notifyRecordingFailed(w) ==
    /\ At(w, "notifyfail")
    /\ \E ok \in Outcomes("db") :
        notified' = IF ok THEN [notified EXCEPT ![w] = "failed"] ELSE notified
    /\ Goto(w, "done")
    /\ UNCHANGED <<rows, batch, redis, files, removed, dropped, crashes>>

-----------------------------------------------------------------------------
(* What is done to a recording from outside, at any time once its key was saved *)

\* POST /recording/stop: the RecordingInfo loaded a while ago is saved as "stopped".
StopRecording(w) ==
    /\ redis[w] # "none"
    /\ redis' = [redis EXCEPT ![w] = "stopped"]
    /\ UNCHANGED <<rows, batch, worker, files, removed, dropped, notified, crashes>>

\* POST /recording/delete, the end of the TTL, or the retention job.
KeyGoes(w) ==
    /\ redis[w] # "none"
    /\ redis' = [redis EXCEPT ![w] = "gone"]
    /\ UNCHANGED <<rows, batch, worker, files, removed, dropped, notified, crashes>>

\* os.Remove: after the DEL of a deletion, before that of the retention job (either may
\* fail by itself), or by the sweep of files no key names.
FileGoes(w) ==
    /\ w \in files
    /\ files' = files \ {w}
    /\ removed' = removed \cup {w}
    /\ UNCHANGED <<rows, batch, worker, redis, dropped, notified, crashes>>

Touch(w) == StopRecording(w) \/ KeyGoes(w) \/ FileGoes(w)

-----------------------------------------------------------------------------
\* The process dies and is started again: goroutines and the loop of the tick are gone,
\* the tables stay.  Nothing looks for rows left in "recording".
CrashRestart ==
    /\ crashes < MaxCrashes
    /\ crashes' = crashes + 1
    /\ batch' = {}
    /\ worker' = [w \in Workers |-> IF Live(w) THEN [worker[w] EXCEPT !.pc = "done"] ELSE worker[w]]
    /\ dropped' = dropped \cup {w \in Workers : At(w, "complete") \/ At(w, "publish")}
    /\ UNCHANGED <<rows, redis, files, removed, notified>>

RunWorker(w) ==
    \/ ClaimSchedule(w)
    \/ PrepareRecording(w)
    \/ SaveInfo(w)
    \/ setScheduleRecordingID(w)
    \/ DownloadTimefree(w)
    \/ FinalizeAAC(w)
    \/ CompleteSchedule(w)
    \/ PublishInfo(w)
    \/ notifyRecordingCompleted(w)
    \/ createNextRecurringSchedule(w)
    \/ QueueRetry(w)
    \/ FailSchedule(w)
    \/ FailInfo(w)
    \/ notifyRecordingFailed(w)

Next ==
    \/ \E s \in Schedules : Store(s) \/ Cancel(s) \/ StartTimeArrives(s) \/ BackoffElapses(s)
    \/ processRecordingSchedules
    \/ SpawnWorker
    \/ \E w \in Workers : RunWorker(w)
    \/ \E w \in Touched : Touch(w)
    \/ CrashRestart

Spec == Init /\ [][Next]_vars

(* Goroutines are scheduled, the ticker ticks and time passes.  Every remote   *)
(* call is taken to end, with an answer or an error: the environment owes      *)
(* that, since the HTTP clients of the code set no timeout.  Users and crashes *)
(* owe nothing.                                                                *)
Fairness ==
    /\ \A w \in Workers : WF_vars(RunWorker(w))
    /\ \A s \in Schedules : WF_vars(StartTimeArrives(s)) /\ WF_vars(BackoffElapses(s))
    /\ WF_vars(processRecordingSchedules)
    /\ WF_vars(SpawnWorker)

FairSpec == Spec /\ Fairness

-----------------------------------------------------------------------------
(* Safety *)

InFlight(s) == (\E sc \in batch : sc.id = s) \/ (\E w \in Workers : Live(w) /\ worker[w].id = s)

\* Two goroutines never record the same reservation at the same time (the ticker starts
\* one per due row and tick, and nothing but the status column keeps the ticks apart).
OneWorkerPerSchedule ==
    \A v, w \in Workers : Live(v) /\ Live(w) /\ worker[v].id = worker[w].id => v = w

\* retry_count never passes maxScheduledRecordingRetries, though the limit is tested on
\* the goroutine's old copy of the row and the UPDATE adds to the current value.
RetriesBounded == \A s \in Schedules : rows[s].retry_count <= MaxRetries

\* Unless MySQL itself fails, a row is given up only after every retry was used:
\* the first attempt and MaxRetries more.
FailedMeansExhausted ==
    "db" \notin Faults =>
        \A s \in Schedules : rows[s].status = "failed" =>
            /\ rows[s].retry_count = MaxRetries
            /\ Cardinality({w \in Workers : worker[w].id = s}) > MaxRetries

\* Whose audio was finished, whatever became of the file.
Recorded == files \cup removed

\* A reservation is recorded at most once, across retries, cancellations and crashes; so a
\* recurring one gets at most one row for next week, and the disk one file per broadcast.
OneRecordingPerSchedule ==
    \A v, w \in Recorded : worker[v].id = worker[w].id => v = w

\* MySQL, Redis and the disk agree, though they are told one after the other.  A completed
\* row has a finished recording, its recording_id leads there, and the RecordingInfo says so
\* unless it was stopped, deleted or expired since; a finished recording has a completed row
\* unless the user cancelled it.  An error that the code drops, and a crash, excuse only the
\* attempt that met them.
RowMatchesRecording ==
    /\ \A s \in Schedules : rows[s].status = "completed" =>
         \E w \in Recorded :
            /\ worker[w].id = s
            /\ \/ w \in dropped
               \/ /\ rows[s].recording_id = w
                  /\ redis[w] \in {"completed", "stopped", "gone"} \/ At(w, "publish")
    /\ \A w \in Recorded :
         \/ w \in dropped \/ At(w, "complete")
         \/ rows[worker[w].id].status \in {"completed", "cancelled"}

(* Action properties *)

\* A cancelled row nobody works on is left alone for good: no tick takes it up again.
CancelSticks ==
    [][\A s \in Schedules :
        rows[s].status = "cancelled" /\ ~InFlight(s) => ~InFlight(s)' /\ rows'[s].status = "cancelled"]_vars

\* What Cancel is documented to do: a cancelled reservation stays cancelled.
CancelIsFinal ==
    [][\A s \in Schedules : rows[s].status = "cancelled" => rows'[s].status = "cancelled"]_vars

(* Liveness *)

\* With MySQL up and no crash, every reservation reaches an end: its start time comes,
\* a tick takes it, and the attempts run out or one succeeds, unless the user cancels.
EveryScheduleSettles ==
    \A s \in Schedules :
        rows[s].status = "pending" ~> rows[s].status \in {"completed", "failed", "cancelled"}

\* A weekly reservation that was recorded gets its row for next week.
RecurringContinues ==
    \A s \in Schedules :
        rows[s].status = "completed" /\ rows[s].recurring ~>
            \/ \E c \in Schedules : rows[c].parent = s
            \/ \A c \in Schedules : rows[c].status # "absent"

\* Every completed or failed reservation is reported to the user.
OutcomeIsReported ==
    \A s \in Schedules :
        rows[s].status \in {"completed", "failed"} ~>
            \E w \in Workers : worker[w].id = s /\ notified[w] # "none"

(* Refinement *)

AttemptOf(s) ==
    IF \E w \in Workers : Live(w) /\ worker[w].id = s
    THEN LET w == CHOOSE w \in Workers : Live(w) /\ worker[w].id = s IN
         CASE At(w, "claim") -> "chosen"
           [] worker[w].pc \in {"publish", "notify", "recur", "failinfo", "notifyfail"} -> "closing"
           [] OTHER -> "running"
    ELSE IF \E sc \in batch : sc.id = s THEN "chosen" ELSE "none"

Lifecycle == INSTANCE ScheduleLifecycle WITH
                status <- [s \in Schedules |-> rows[s].status],
                retries <- [s \in Schedules |-> rows[s].retry_count],
                attempt <- [s \in Schedules |-> AttemptOf(s)]

\* The scheduler with its goroutines, Redis, faults and crashes implements the life cycle
\* of one reservation: one attempt at a time, and only its steps and Cancel write the row.
ImplementsLifecycle == Lifecycle!Spec

=============================================================================
