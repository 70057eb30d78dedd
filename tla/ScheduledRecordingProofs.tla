---------------------- MODULE ScheduledRecordingProofs ----------------------
(***************************************************************************)
(* Proofs about ScheduledRecording, for every number of rows, goroutines,  *)
(* retries and crashes.                                                    *)
(***************************************************************************)
EXTENDS ScheduledRecording, TLAPS

(* The inductive invariant.  That no two goroutines share a row cannot be    *)
(* seen from the goroutines alone: it holds because the status column says   *)
(* "pending" only while no goroutine is past its claim, and because the      *)
(* copy a goroutine holds still has the retry_count of the row.              *)

Unclaimed == {"pending", "cancelled"}
Claimed == {"recording", "completed", "failed", "cancelled"}

WorkerAgrees(w) ==
    Live(w) =>
        /\ worker[w].id \in Schedules
        /\ worker[w].retry_count = rows[worker[w].id].retry_count
        /\ rows[worker[w].id].status \in (IF At(w, "claim") THEN Unclaimed ELSE Claimed)

BatchAgrees(sc) ==
    /\ sc.retry_count = rows[sc.id].retry_count
    /\ rows[sc.id].status \in Unclaimed
    /\ \A w \in Workers : Live(w) => worker[w].id # sc.id

IInv ==
    /\ TypeOK
    /\ \A w \in Workers : WorkerAgrees(w)
    /\ \A sc \in batch : BatchAgrees(sc)
    /\ OneWorkerPerSchedule
    /\ RetriesBounded

-----------------------------------------------------------------------------
(* Type correctness *)

\* Init puts every variable in its type.
LEMMA InitTypeOK == Init => TypeOK
BY ConstantsAssumption DEF Init, TypeOK, Row, Status, Step, Snapshot, NoRow, KeyStatus

\* What is done from outside reaches the keys and the files and nothing else.
LEMMA TouchTable ==
    ASSUME TypeOK, NEW w \in Touched, Touch(w)
    PROVE  /\ TypeOK'
           /\ UNCHANGED <<rows, batch, worker, dropped, notified, crashes>>
           /\ Recorded' = Recorded
           /\ \A v \in Workers :
                redis'[v] = redis[v] \/ (redis[v] # "none" /\ redis'[v] \in {"stopped", "gone"})
<1>1. w \in Workers /\ redis \in [Workers -> KeyStatus] /\ {"stopped", "gone"} \subseteq KeyStatus
  BY ConstantsAssumption DEF TypeOK, KeyStatus
<1>2. CASE StopRecording(w)
  BY <1>1, <1>2 DEF StopRecording, TypeOK, Recorded
<1>3. CASE KeyGoes(w)
  BY <1>1, <1>3 DEF KeyGoes, TypeOK, Recorded
<1>4. CASE FileGoes(w)
  BY <1>1, <1>4 DEF FileGoes, TypeOK, Recorded
<1> QED BY <1>2, <1>3, <1>4 DEF Touch

\* A step of a goroutine ends in a known place of its program.
LEMMA GotoType ==
    ASSUME TypeOK, NEW w \in Workers, NEW step \in Step, Goto(w, step)
    PROVE  worker' \in [Workers -> [pc : Step, id : Schedules \cup {None}, retry_count : Nat]]
BY DEF TypeOK, Goto

\* A created row is a row of the table's type.
LEMMA CreateType ==
    ASSUME TypeOK, NEW s \in Schedules, NEW r \in BOOLEAN, NEW d \in BOOLEAN,
           NEW p \in Schedules \cup {None}, Create(s, r, p, d)
    PROVE  rows' \in [Schedules -> Row]
BY DEF TypeOK, Create, NoRow, Row, Status

\* The UPDATEs keep the table's type, of whatever row they are sent for.
LEMMA UpdateType ==
    ASSUME TypeOK, NEW s
    PROVE  /\ \A st \in Status : updateScheduleStatus(s, st) => rows' \in [Schedules -> Row]
           /\ incrementScheduleRetryCount(s) => rows' \in [Schedules -> Row]
<1>1. ASSUME NEW st \in Status, NEW row \in Row PROVE [row EXCEPT !.status = st] \in Row
  BY DEF Row
<1>2. ASSUME NEW row \in Row
      PROVE  [row EXCEPT !.retry_count = @ + 1, !.status = "pending", !.waiting = TRUE] \in Row
  <2>1. row \in Row /\ row.retry_count + 1 \in Nat /\ "pending" \in Status
    BY DEF Row, Status
  <2> QED BY <2>1 DEF Row
<1>3. rows \in [Schedules -> Row]
  BY DEF TypeOK
<1>4. \A st \in Status : updateScheduleStatus(s, st) => rows' \in [Schedules -> Row]
  <2> SUFFICES ASSUME NEW st \in Status, updateScheduleStatus(s, st) PROVE rows' \in [Schedules -> Row]
    OBVIOUS
  <2>1. rows' = [rows EXCEPT ![s] = [rows[s] EXCEPT !.status = st]]
    BY DEF updateScheduleStatus
  <2>2. s \in Schedules => [rows[s] EXCEPT !.status = st] \in Row
    BY <1>1, <1>3
  <2> QED BY <1>3, <2>1, <2>2
<1>5. incrementScheduleRetryCount(s) => rows' \in [Schedules -> Row]
  <2> SUFFICES ASSUME incrementScheduleRetryCount(s) PROVE rows' \in [Schedules -> Row]
    OBVIOUS
  <2>1. rows' = [rows EXCEPT ![s] = [rows[s] EXCEPT !.retry_count = @ + 1, !.status = "pending",
                                                    !.waiting = TRUE]]
    BY <1>3 DEF incrementScheduleRetryCount
  <2>2. s \in Schedules => [rows[s] EXCEPT !.retry_count = @ + 1, !.status = "pending",
                                           !.waiting = TRUE] \in Row
    BY <1>2, <1>3
  <2> QED BY <1>3, <2>1, <2>2
<1> QED BY <1>4, <1>5

\* Redis only ever holds the statuses the goroutines write.
LEMMA RedisType ==
    ASSUME TypeOK, NEW w \in Workers, NEW st \in {"completed", "failed"},
           updateRedisRecordingStatus(w, st) \/ saveRecordingInfo(w)
    PROVE  redis' \in [Workers -> KeyStatus] /\ dropped' \subseteq Workers
BY DEF TypeOK, updateRedisRecordingStatus, saveRecordingInfo, GoesOn, KeyStatus

\* No step of a goroutine breaks a type.
LEMMA RunWorkerTypeOK ==
    ASSUME TypeOK, NEW w \in Workers, RunWorker(w)
    PROVE  TypeOK'
<1> USE DEF Status
<1>g. \A step \in Step : Goto(w, step) =>
        worker' \in [Workers -> [pc : Step, id : Schedules \cup {None}, retry_count : Nat]]
  BY GotoType
<1>u. /\ \A s, st : st \in Status /\ updateScheduleStatus(s, st) => rows' \in [Schedules -> Row]
      /\ \A s : incrementScheduleRetryCount(s) => rows' \in [Schedules -> Row]
  BY UpdateType
<1>r. \A st \in {"completed", "failed"} :
        updateRedisRecordingStatus(w, st) \/ saveRecordingInfo(w) =>
          redis' \in [Workers -> KeyStatus] /\ dropped' \subseteq Workers
  BY RedisType
<1>d. \A ok \in BOOLEAN : GoesOn(w, ok) => dropped' \subseteq Workers
  BY DEF TypeOK, GoesOn
<1>o. Outcomes("db") \subseteq BOOLEAN
  BY DEF Outcomes
<1>1. CASE ClaimSchedule(w)
  BY <1>1, <1>g, <1>u DEF ClaimSchedule, TypeOK, Step
<1>2. CASE PrepareRecording(w)
  BY <1>2, <1>g DEF PrepareRecording, TypeOK, Step
<1>3. CASE SaveInfo(w)
  BY <1>3, <1>g, <1>r DEF SaveInfo, TypeOK, Step
<1>4. CASE setScheduleRecordingID(w)
  <2>1. [rows EXCEPT ![worker[w].id].recording_id = w] \in [Schedules -> Row]
    <3>1. \A row \in Row : [row EXCEPT !.recording_id = w] \in Row
      BY DEF Row
    <3> QED BY <3>1 DEF TypeOK
  <2>2. rows' \in [Schedules -> Row]
    BY <1>4, <2>1 DEF setScheduleRecordingID, TypeOK
  <2> QED BY <1>4, <1>d, <1>g, <1>o, <2>2 DEF setScheduleRecordingID, TypeOK, Step
<1>5. CASE DownloadTimefree(w)
  BY <1>5, <1>g, <1>r DEF DownloadTimefree, TypeOK, Step
<1>6. CASE FinalizeAAC(w)
  BY <1>6, <1>g, <1>r DEF FinalizeAAC, TypeOK, Step
<1>7. CASE CompleteSchedule(w)
  BY <1>7, <1>d, <1>g, <1>o, <1>u DEF CompleteSchedule, TypeOK, Step
<1>8. CASE PublishInfo(w)
  BY <1>8, <1>g, <1>r DEF PublishInfo, TypeOK, Step
<1>9. CASE notifyRecordingCompleted(w)
  BY <1>9, <1>g DEF notifyRecordingCompleted, TypeOK, Step
<1>10. CASE createNextRecurringSchedule(w)
  <2>1. worker[w].id \in Schedules \cup {None}
    BY DEF TypeOK
  <2>2. rows' \in [Schedules -> Row]
    BY <1>10, <2>1, CreateType DEF createNextRecurringSchedule, TypeOK
  <2> QED BY <1>10, <1>g, <2>2 DEF createNextRecurringSchedule, TypeOK, Step
<1>11. CASE QueueRetry(w)
  BY <1>11, <1>g, <1>u DEF QueueRetry, TypeOK, Step
<1>12. CASE FailSchedule(w)
  BY <1>12, <1>g, <1>u DEF FailSchedule, TypeOK, Step
<1>13. CASE FailInfo(w)
  BY <1>13, <1>g, <1>r DEF FailInfo, TypeOK, Step
<1>14. CASE notifyRecordingFailed(w)
  BY <1>14, <1>g DEF notifyRecordingFailed, TypeOK, Step
<1> QED BY <1>1, <1>2, <1>3, <1>4, <1>5, <1>6, <1>7, <1>8, <1>9, <1>10, <1>11, <1>12,
           <1>13, <1>14 DEF RunWorker

\* No step of the system breaks a type.
LEMMA NextTypeOK == TypeOK /\ [Next]_vars => TypeOK'
<1> SUFFICES ASSUME TypeOK, [Next]_vars PROVE TypeOK'
  OBVIOUS
<1>1. ASSUME NEW s \in Schedules, Store(s) PROVE TypeOK'
  <2>1. rows' \in [Schedules -> Row]
    BY <1>1, CreateType DEF Store, Schedule
  <2> QED BY <1>1, <2>1 DEF Store, TypeOK
<1>2. ASSUME NEW s \in Schedules, Cancel(s) PROVE TypeOK'
  <2>1. rows' \in [Schedules -> Row]
    BY <1>2, UpdateType DEF Cancel, Status
  <2> QED BY <1>2, <2>1 DEF Cancel, TypeOK
<1>3. ASSUME NEW s \in Schedules, StartTimeArrives(s) \/ BackoffElapses(s) PROVE TypeOK'
  <2>1. [rows EXCEPT ![s].due = TRUE] \in [Schedules -> Row]
    <3>1. \A row \in Row : [row EXCEPT !.due = TRUE] \in Row
      BY DEF Row
    <3> QED BY <3>1 DEF TypeOK
  <2>2. [rows EXCEPT ![s].waiting = FALSE] \in [Schedules -> Row]
    <3>1. \A row \in Row : [row EXCEPT !.waiting = FALSE] \in Row
      BY DEF Row
    <3> QED BY <3>1 DEF TypeOK
  <2> QED BY <1>3, <2>1, <2>2 DEF StartTimeArrives, BackoffElapses, TypeOK
<1>4. CASE processRecordingSchedules
  BY <1>4 DEF processRecordingSchedules, findPendingBefore, TypeOK, Snapshot, Row
<1>5. CASE SpawnWorker
  <2>1. PICK sc \in batch :
          /\ batch' = batch \ {sc}
          /\ worker' = [worker EXCEPT ![NextWorker] = [pc |-> "claim", id |-> sc.id,
                                                       retry_count |-> sc.retry_count]]
    BY <1>5 DEF SpawnWorker
  <2>2. sc.id \in Schedules /\ sc.retry_count \in Nat
    BY DEF TypeOK, Snapshot
  <2>3. [pc |-> "claim", id |-> sc.id, retry_count |-> sc.retry_count]
          \in [pc : Step, id : Schedules \cup {None}, retry_count : Nat]
    BY <2>2 DEF Step
  <2>4. worker' \in [Workers -> [pc : Step, id : Schedules \cup {None}, retry_count : Nat]]
    BY <2>1, <2>3 DEF TypeOK
  <2> QED BY <1>5, <2>1, <2>4 DEF SpawnWorker, TypeOK
<1>6. ASSUME NEW w \in Workers, RunWorker(w) PROVE TypeOK'
  BY <1>6, RunWorkerTypeOK
<1>7. CASE CrashRestart
  BY <1>7, ConstantsAssumption DEF CrashRestart, TypeOK, Step
<1>8. CASE UNCHANGED vars
  BY <1>8 DEF vars, TypeOK
<1> QED BY <1>1, <1>2, <1>3, <1>4, <1>5, <1>6, <1>7, <1>8, TouchTable DEF Next

\* Every value stays in its type: only the statuses of the ENUM are ever written, and a
\* goroutine never stands outside its program.
THEOREM TypeCorrect == Spec => []TypeOK
<1> QED BY InitTypeOK, NextTypeOK, PTL DEF Spec

-----------------------------------------------------------------------------
(* One goroutine per row *)

\* What the step of a goroutine at a row may do to the other rows: nothing, except
\* to turn a row that was absent into a new one.
OthersKept(s) ==
    \A t \in Schedules \ {s} :
        \/ rows'[t].status = rows[t].status /\ rows'[t].retry_count = rows[t].retry_count
        \/ rows[t].status = "absent"

\* The inductive invariant holds in the initial states.
LEMMA InitIInv == Init => IInv
BY InitTypeOK, ConstantsAssumption
   DEF Init, IInv, WorkerAgrees, Live, BatchAgrees, OneWorkerPerSchedule, RetriesBounded, NoRow

\* A goroutine's step keeps the invariant if it leaves the other rows alone and, unless
\* it ends the goroutine, leaves its own row claimed with the same retry_count.
LEMMA WorkerStep ==
    ASSUME IInv, TypeOK', NEW w \in Workers, Live(w),
           NEW step \in Step \ {"idle", "claim"}, Goto(w, step), batch' = batch,
           OthersKept(worker[w].id),
           step # "done" => /\ rows'[worker[w].id].status \in Claimed
                            /\ rows'[worker[w].id].retry_count = rows[worker[w].id].retry_count,
           RetriesBounded'
    PROVE  IInv'
<1> DEFINE s == worker[w].id
<1>1. s \in Schedules
  BY DEF IInv, WorkerAgrees
<1>2. /\ worker'[w].pc = step
      /\ \A v \in Workers : /\ worker'[v].id = worker[v].id
                            /\ worker'[v].retry_count = worker[v].retry_count
                            /\ v # w => worker'[v] = worker[v]
  BY DEF Goto, IInv, TypeOK
<1>3. \A v \in Workers : Live(v)' => Live(v)
  BY <1>2 DEF Live
<1>4. \A v \in Workers : Live(v) /\ v # w => worker[v].id # s
  BY DEF IInv, OneWorkerPerSchedule
<1>5. ASSUME NEW v \in Workers PROVE WorkerAgrees(v)'
  <2> SUFFICES ASSUME Live(v)' PROVE WorkerAgrees(v)'
    BY DEF WorkerAgrees
  <2>1. CASE v = w
    BY <2>1, <1>1, <1>2 DEF WorkerAgrees, IInv, Live, At
  <2>2. CASE v # w
    <3>1. /\ worker[v].id \in Schedules \ {s}
          /\ rows[worker[v].id].status # "absent"
      BY <2>2, <1>3, <1>4 DEF IInv, WorkerAgrees, Claimed, Unclaimed
    <3>2. /\ rows'[worker[v].id].status = rows[worker[v].id].status
          /\ rows'[worker[v].id].retry_count = rows[worker[v].id].retry_count
      BY <3>1 DEF OthersKept
    <3> QED BY <2>2, <3>1, <3>2, <1>2, <1>3 DEF WorkerAgrees, IInv, At, Live
  <2> QED BY <2>1, <2>2
<1>6. ASSUME NEW sc \in batch PROVE BatchAgrees(sc)'
  <2>1. sc.id \in Schedules \ {s} /\ rows[sc.id].status # "absent"
    BY DEF IInv, BatchAgrees, Unclaimed, TypeOK, Snapshot
  <2>2. /\ rows'[sc.id].status = rows[sc.id].status
        /\ rows'[sc.id].retry_count = rows[sc.id].retry_count
    BY <2>1 DEF OthersKept
  <2> QED BY <2>2, <1>2, <1>3 DEF BatchAgrees, IInv
<1>7. OneWorkerPerSchedule'
  BY <1>2, <1>3 DEF OneWorkerPerSchedule, IInv
<1> QED BY <1>5, <1>6, <1>7 DEF IInv

\* Every step of every goroutine keeps the invariant.
LEMMA RunWorkerIInv ==
    ASSUME IInv, NEW w \in Workers, RunWorker(w)
    PROVE  IInv'
<1> DEFINE s == worker[w].id
           Keeps(step) ==
               /\ Goto(w, step) /\ batch' = batch
               /\ OthersKept(s)
               /\ step # "done" => /\ rows'[s].status \in Claimed
                                   /\ rows'[s].retry_count = rows[s].retry_count
               /\ RetriesBounded'
<1>0. Live(w) /\ s \in Schedules /\ rows \in [Schedules -> Row] /\ rows[s].retry_count \in Nat
  BY DEF RunWorker, ClaimSchedule, PrepareRecording, SaveInfo, setScheduleRecordingID,
         DownloadTimefree, FinalizeAAC, CompleteSchedule, PublishInfo, notifyRecordingCompleted,
         createNextRecurringSchedule, QueueRetry, FailSchedule, FailInfo,
         notifyRecordingFailed, Live, At, IInv, WorkerAgrees, TypeOK, Row
<1>T. TypeOK'
  BY RunWorkerTypeOK DEF IInv
<1>K. ASSUME NEW step \in Step \ {"idle", "claim"}, Keeps(step) PROVE IInv'
  BY <1>0, <1>T, <1>K, WorkerStep
\* Steps that leave the table alone.
<1>a. ASSUME ~At(w, "claim"), UNCHANGED rows PROVE
        /\ OthersKept(s) /\ RetriesBounded'
        /\ rows'[s].status \in Claimed /\ rows'[s].retry_count = rows[s].retry_count
  BY <1>a, <1>0 DEF OthersKept, RetriesBounded, IInv, WorkerAgrees
\* UPDATE ... SET status on the own row.
<1>b. ASSUME NEW st \in Claimed, updateScheduleStatus(s, st) PROVE
        /\ OthersKept(s) /\ RetriesBounded'
        /\ rows'[s].status \in Claimed /\ rows'[s].retry_count = rows[s].retry_count
  BY <1>b, <1>0 DEF OthersKept, RetriesBounded, IInv, updateScheduleStatus, Row
<1>1. CASE ClaimSchedule(w)
  <2>1. CASE updateScheduleStatus(s, "recording") /\ Goto(w, "auth")
    BY <1>1, <2>1, <1>b, <1>K DEF ClaimSchedule, Claimed, Step
  <2>2. CASE UNCHANGED rows /\ Goto(w, "done")
    <3>1. OthersKept(s) /\ RetriesBounded'
      BY <2>2 DEF OthersKept, RetriesBounded, IInv
    <3> QED BY <1>1, <2>2, <3>1, <1>K DEF ClaimSchedule, Step
  <2> QED BY <1>1, <2>1, <2>2 DEF ClaimSchedule
<1>2. CASE PrepareRecording(w)
  BY <1>2, <1>a, <1>K DEF PrepareRecording, At, Step
<1>3. CASE SaveInfo(w)
  BY <1>3, <1>a, <1>K DEF SaveInfo, At, Step
<1>4. CASE setScheduleRecordingID(w)
  <2>1. /\ \A t \in Schedules : /\ rows'[t].status = rows[t].status
                                /\ rows'[t].retry_count = rows[t].retry_count
    BY <1>4, <1>0 DEF setScheduleRecordingID, Row
  <2>2. rows[s].status \in Claimed
    BY <1>4, <1>0 DEF setScheduleRecordingID, IInv, WorkerAgrees, At
  <2>3. OthersKept(s) /\ RetriesBounded'
    BY <2>1 DEF OthersKept, RetriesBounded, IInv
  <2> QED BY <1>4, <1>0, <2>1, <2>2, <2>3, <1>K DEF setScheduleRecordingID, Step
<1>5. CASE DownloadTimefree(w)
  BY <1>5, <1>a, <1>K DEF DownloadTimefree, At, Step
<1>6. CASE FinalizeAAC(w)
  BY <1>6, <1>a, <1>K DEF FinalizeAAC, At, Step
<1>7. CASE CompleteSchedule(w)
  BY <1>7, <1>a, <1>b, <1>K DEF CompleteSchedule, At, Step, Claimed
<1>8. CASE PublishInfo(w)
  BY <1>8, <1>a, <1>K DEF PublishInfo, At, Step
<1>9. CASE notifyRecordingCompleted(w)
  BY <1>9, <1>a, <1>K DEF notifyRecordingCompleted, At, Step
<1>10. CASE createNextRecurringSchedule(w)
  <2>1. CASE UNCHANGED rows
    BY <1>10, <2>1, <1>a, <1>K DEF createNextRecurringSchedule, At, Step
  <2>2. ASSUME NEW n \in Schedules, NEW d \in BOOLEAN,
               rows[n].status = "absent", Create(n, TRUE, s, d)
        PROVE  IInv'
    <3>1. OthersKept(s)
      BY <2>2, <1>0 DEF OthersKept, Create
    <3>2. RetriesBounded'
      BY <2>2, <1>0, ConstantsAssumption DEF RetriesBounded, IInv, Create, NoRow
    <3> QED BY <1>10, <3>1, <3>2, <1>K DEF createNextRecurringSchedule, Step
  <2> QED BY <1>10, <2>1, <2>2 DEF createNextRecurringSchedule
<1>11. CASE QueueRetry(w)
  <2>1. CASE incrementScheduleRetryCount(s) /\ Goto(w, "done")
    <3>1. OthersKept(s)
      BY <2>1, <1>0 DEF OthersKept, incrementScheduleRetryCount, Row
    <3>2. rows[s].retry_count < MaxRetries
      BY <1>11, <1>0 DEF QueueRetry, RetriesLeft, IInv, WorkerAgrees
    <3>3. RetriesBounded'
      BY <2>1, <3>2, <1>0, ConstantsAssumption
         DEF RetriesBounded, IInv, incrementScheduleRetryCount, Row
    <3> QED BY <1>11, <2>1, <3>1, <3>3, <1>K DEF QueueRetry, Step
  <2>2. CASE UNCHANGED rows /\ Goto(w, "giveup")
    BY <1>11, <2>2, <1>a, <1>K DEF QueueRetry, At, Step
  <2> QED BY <1>11, <2>1, <2>2 DEF QueueRetry
<1>12. CASE FailSchedule(w)
  BY <1>12, <1>a, <1>b, <1>K DEF FailSchedule, At, Step, Claimed
<1>13. CASE FailInfo(w)
  BY <1>13, <1>a, <1>K DEF FailInfo, At, Step
<1>14. CASE notifyRecordingFailed(w)
  BY <1>14, <1>a, <1>K DEF notifyRecordingFailed, At, Step
<1> QED BY <1>1, <1>2, <1>3, <1>4, <1>5, <1>6, <1>7, <1>8, <1>9, <1>10, <1>11, <1>12,
           <1>13, <1>14 DEF RunWorker

\* A step that moves no goroutine and keeps status and retry_count of every row anyone
\* works on, up to a cancellation, keeps the invariant.
LEMMA RowStep ==
    ASSUME IInv, TypeOK', UNCHANGED <<worker, batch>>,
           \A s \in Schedules :
             \/ rows[s].status = "absent" /\ rows'[s].retry_count = 0
             \/ /\ rows'[s].retry_count = rows[s].retry_count
                /\ rows'[s].status \in {rows[s].status, "cancelled"}
    PROVE  IInv'
<1>1. ASSUME NEW w \in Workers PROVE WorkerAgrees(w)'
  BY DEF IInv, WorkerAgrees, Live, At, Claimed, Unclaimed
<1>2. ASSUME NEW sc \in batch PROVE BatchAgrees(sc)'
  BY DEF IInv, BatchAgrees, Live, Unclaimed, TypeOK, Snapshot
<1>3. OneWorkerPerSchedule'
  BY DEF IInv, OneWorkerPerSchedule, Live
<1>4. RetriesBounded'
  BY ConstantsAssumption DEF IInv, RetriesBounded
<1> QED BY <1>1, <1>2, <1>3, <1>4 DEF IInv

\* A tick hands out pending rows only, and with prompt claims no goroutine holds one.
LEMMA TickIInv ==
    ASSUME IInv, TypeOK', PromptClaims, processRecordingSchedules
    PROVE  IInv'
<1>1. ASSUME NEW w \in Workers PROVE WorkerAgrees(w)'
  BY DEF processRecordingSchedules, IInv, WorkerAgrees, Live, At
<1>2. ASSUME NEW sc \in batch' PROVE BatchAgrees(sc)'
  <2>1. PICK s \in findPendingBefore : sc = [id |-> s, retry_count |-> rows[s].retry_count]
    BY DEF processRecordingSchedules
  <2>2. s \in Schedules /\ rows[s].status = "pending"
    BY DEF findPendingBefore
  <2>3. \A w \in Workers : Live(w) => rows[worker[w].id].status \in Claimed
    BY DEF processRecordingSchedules, IInv, WorkerAgrees
  <2> QED BY <2>1, <2>2, <2>3 DEF processRecordingSchedules, BatchAgrees, Live, Claimed, Unclaimed
<1>3. OneWorkerPerSchedule' /\ RetriesBounded'
  BY DEF processRecordingSchedules, IInv, OneWorkerPerSchedule, RetriesBounded, Live
<1> QED BY <1>1, <1>2, <1>3 DEF IInv

\* The row of a new goroutine leaves the batch, and nobody else holds it.
LEMMA SpawnIInv ==
    ASSUME IInv, TypeOK', SpawnWorker
    PROVE  IInv'
<1> DEFINE n == NextWorker
<1>1. n \in Workers /\ At(n, "idle")
  BY DEF SpawnWorker, NextWorker
<1>2. PICK sc \in batch :
        /\ batch' = batch \ {sc}
        /\ worker' = [worker EXCEPT ![n] = [pc |-> "claim", id |-> sc.id,
                                            retry_count |-> sc.retry_count]]
        /\ UNCHANGED rows
  BY DEF SpawnWorker
<1>3. BatchAgrees(sc) /\ sc.id \in Schedules
  BY DEF IInv, TypeOK, Snapshot
<1>4. /\ worker'[n] = [pc |-> "claim", id |-> sc.id, retry_count |-> sc.retry_count]
      /\ \A v \in Workers \ {n} : worker'[v] = worker[v]
  BY <1>1, <1>2 DEF IInv, TypeOK
<1>5. \A v \in Workers \ {n} : Live(v)' => Live(v) /\ worker'[v].id # sc.id
  BY <1>3, <1>4 DEF Live, BatchAgrees
<1>6. ASSUME NEW v \in Workers PROVE WorkerAgrees(v)'
  <2>1. CASE v = n
    BY <2>1, <1>2, <1>3, <1>4 DEF WorkerAgrees, BatchAgrees, At
  <2>2. CASE v # n
    BY <2>2, <1>2, <1>4 DEF WorkerAgrees, IInv, Live, At
  <2> QED BY <2>1, <2>2
<1>7. ASSUME NEW b \in batch' PROVE BatchAgrees(b)'
  <2>1. b \in batch /\ b # sc /\ BatchAgrees(b)
    BY <1>2 DEF IInv
  <2>2. b.id # sc.id
    <3> SUFFICES ASSUME b.id = sc.id PROVE FALSE
      OBVIOUS
    <3>1. b.retry_count = sc.retry_count
      BY <2>1, <1>3 DEF BatchAgrees
    <3> QED BY <3>1, <2>1 DEF IInv, TypeOK, Snapshot
  <2> QED BY <2>1, <2>2, <1>2, <1>4, <1>5 DEF BatchAgrees, Live
<1>8. OneWorkerPerSchedule'
  BY <1>4, <1>5 DEF OneWorkerPerSchedule, IInv
<1>9. RetriesBounded'
  BY <1>2 DEF RetriesBounded, IInv
<1> QED BY <1>6, <1>7, <1>8, <1>9 DEF IInv

\* With prompt claims, every step keeps the invariant.
LEMMA NextIInv ==
    ASSUME PromptClaims, IInv, [Next]_vars
    PROVE  IInv'
<1>0. TypeOK'
  BY NextTypeOK DEF IInv
<1>t. rows \in [Schedules -> Row]
  BY DEF IInv, TypeOK
<1>1. ASSUME NEW s \in Schedules, Store(s) PROVE IInv'
  <2>1. \A t \in Schedules :
          \/ t # s /\ rows'[t] = rows[t]
          \/ t = s /\ rows[t].status = "absent" /\ rows'[t].retry_count = 0
    BY <1>1, <1>t DEF Store, Schedule, Create, NoRow
  <2> QED BY <1>0, <1>1, <2>1, RowStep DEF Store
<1>2. ASSUME NEW s \in Schedules, Cancel(s) PROVE IInv'
  <2>1. \A t \in Schedules : /\ rows'[t].retry_count = rows[t].retry_count
                             /\ rows'[t].status \in {rows[t].status, "cancelled"}
    BY <1>2, <1>t DEF Cancel, updateScheduleStatus, Row
  <2> QED BY <1>0, <1>2, <2>1, RowStep DEF Cancel
<1>3. ASSUME NEW s \in Schedules, StartTimeArrives(s) PROVE IInv'
  <2>1. \A t \in Schedules : /\ rows'[t].retry_count = rows[t].retry_count
                             /\ rows'[t].status = rows[t].status
    BY <1>3, <1>t DEF StartTimeArrives, Row
  <2> QED BY <1>0, <1>3, <2>1, RowStep DEF StartTimeArrives
<1>4. ASSUME NEW s \in Schedules, BackoffElapses(s) PROVE IInv'
  <2>1. \A t \in Schedules : /\ rows'[t].retry_count = rows[t].retry_count
                             /\ rows'[t].status = rows[t].status
    BY <1>4, <1>t DEF BackoffElapses, Row
  <2> QED BY <1>0, <1>4, <2>1, RowStep DEF BackoffElapses
<1>5. CASE processRecordingSchedules
  BY <1>0, <1>5, TickIInv
<1>6. CASE SpawnWorker
  BY <1>0, <1>6, SpawnIInv
<1>7. ASSUME NEW w \in Workers, RunWorker(w) PROVE IInv'
  BY <1>7, RunWorkerIInv
<1>8. CASE CrashRestart
  <2>1. \A w \in Workers : ~Live(w)'
    BY <1>8 DEF CrashRestart, Live, IInv, TypeOK
  <2>2. OneWorkerPerSchedule' /\ RetriesBounded'
    BY <1>8, <2>1 DEF CrashRestart, OneWorkerPerSchedule, RetriesBounded, IInv
  <2> QED BY <1>0, <1>8, <2>1, <2>2 DEF CrashRestart, IInv, WorkerAgrees
<1>9. ASSUME UNCHANGED <<rows, batch, worker>> PROVE IInv'
  BY <1>0, <1>9, RowStep
<1>10. ASSUME NEW w \in Touched, Touch(w) PROVE IInv'
  BY <1>9, <1>10, TouchTable DEF IInv
<1> QED BY <1>1, <1>2, <1>3, <1>4, <1>5, <1>6, <1>7, <1>8, <1>9, <1>10 DEF Next, vars

\* Two goroutines never record the same reservation at the same time, however many rows
\* and goroutines there are and whatever fails or crashes, as long as a goroutine's first
\* UPDATE is executed before the next tick.
THEOREM NeverRecordedTwiceAtOnce ==
    ASSUME PromptClaims
    PROVE  Spec => []OneWorkerPerSchedule
<1>1. IInv /\ [Next]_vars => IInv'
  BY NextIInv
<1>2. IInv => OneWorkerPerSchedule
  BY DEF IInv
<1> QED BY InitIInv, <1>1, <1>2, PTL DEF Spec

\* Under the same assumption retry_count stays within maxScheduledRecordingRetries,
\* although the limit is tested on an old copy of the row.
THEOREM RetryLimitHolds ==
    ASSUME PromptClaims
    PROVE  Spec => []RetriesBounded
<1>1. IInv /\ [Next]_vars => IInv'
  BY NextIInv
<1>2. IInv => RetriesBounded
  BY DEF IInv
<1> QED BY InitIInv, <1>1, <1>2, PTL DEF Spec

-----------------------------------------------------------------------------
(* What one step of a goroutine does to its row and to itself *)

Running == {"auth", "save", "setid", "download", "finalize", "complete", "retry", "giveup"}
Closing == {"publish", "notify", "recur", "failinfo", "notifyfail"}

\* Status and retry_count are what the ticker and the limit look at.
RowsKept == \A t \in Schedules :
    rows'[t].status = rows[t].status /\ rows'[t].retry_count = rows[t].retry_count

\* The row and the place of a goroutine change in one of seven ways.
Way(w, step) ==
    \/ At(w, "claim") /\ step = "auth" /\ updateScheduleStatus(worker[w].id, "recording")
    \/ At(w, "claim") /\ step = "done" /\ UNCHANGED rows
    \/ worker[w].pc \in Running /\ step \in Running /\ RowsKept
    \/ /\ worker[w].pc \in {"complete", "retry", "giveup"} /\ step \in Closing
       /\ \/ UNCHANGED rows
          \/ \E st \in {"completed", "failed"} : updateScheduleStatus(worker[w].id, st)
    \/ /\ At(w, "retry") /\ step = "done" /\ RetriesLeft(w)
       /\ incrementScheduleRetryCount(worker[w].id)
    \/ worker[w].pc \in Closing /\ step \in Closing \cup {"done"} /\ UNCHANGED rows
    \/ /\ At(w, "recur") /\ step = "done"
       /\ \E n \in Schedules, d \in BOOLEAN :
             rows[n].status = "absent" /\ Create(n, TRUE, worker[w].id, d)

\* Every step of a goroutine is one of them.
LEMMA WorkerTable ==
    ASSUME TypeOK, NEW w \in Workers, RunWorker(w)
    PROVE  /\ Live(w) /\ UNCHANGED <<batch, crashes>>
           /\ \E step \in Step \ {"idle", "claim"} : Goto(w, step) /\ Way(w, step)
<1>0. Live(w) /\ UNCHANGED <<batch, crashes>> /\ rows \in [Schedules -> Row]
  BY DEF RunWorker, ClaimSchedule, PrepareRecording, SaveInfo, setScheduleRecordingID,
         DownloadTimefree, FinalizeAAC, CompleteSchedule, PublishInfo, notifyRecordingCompleted,
         createNextRecurringSchedule, QueueRetry, FailSchedule, FailInfo,
         notifyRecordingFailed, Live, At, TypeOK
<1>s. /\ {"auth", "done"} \subseteq Step \ {"idle", "claim"} /\ Running \subseteq Step \ {"idle", "claim"}
      /\ Closing \subseteq Step \ {"idle", "claim"}
  BY DEF Step, Running, Closing
<1> SUFFICES \E step \in {"auth", "done"} \cup Running \cup Closing : Goto(w, step) /\ Way(w, step)
  BY <1>0, <1>s
<1>k. UNCHANGED rows => RowsKept
  BY DEF RowsKept
<1>1. CASE ClaimSchedule(w)
  BY <1>1 DEF ClaimSchedule, Way
<1>2. CASE PrepareRecording(w) \/ SaveInfo(w) \/ DownloadTimefree(w) \/ FinalizeAAC(w)
  <2>1. PICK step \in Running : Goto(w, step) /\ worker[w].pc \in Running /\ UNCHANGED rows
    BY <1>2 DEF PrepareRecording, SaveInfo, DownloadTimefree, FinalizeAAC, At, Running
  <2>2. Way(w, step)
    BY <2>1, <1>k DEF Way
  <2> QED BY <2>1, <2>2
<1>3. CASE setScheduleRecordingID(w)
  <2>1. RowsKept
    BY <1>3, <1>0 DEF setScheduleRecordingID, RowsKept, Row
  <2>2. Goto(w, "download") /\ "download" \in Running /\ worker[w].pc \in Running
    BY <1>3 DEF setScheduleRecordingID, At, Running
  <2> QED BY <2>1, <2>2 DEF Way
<1>4. CASE CompleteSchedule(w)
  <2>1. Goto(w, "publish") /\ "publish" \in Closing /\ worker[w].pc = "complete"
    BY <1>4 DEF CompleteSchedule, At, Closing
  <2>2. UNCHANGED rows \/ \E st \in {"completed", "failed"} : updateScheduleStatus(worker[w].id, st)
    BY <1>4 DEF CompleteSchedule
  <2>3. Way(w, "publish")
    BY <2>1, <2>2 DEF Way
  <2> QED BY <2>1, <2>3
<1>5. CASE PublishInfo(w) \/ notifyRecordingCompleted(w) \/ FailInfo(w) \/ notifyRecordingFailed(w)
  <2>1. PICK step \in Closing \cup {"done"} : Goto(w, step) /\ worker[w].pc \in Closing /\ UNCHANGED rows
    BY <1>5 DEF PublishInfo, notifyRecordingCompleted, FailInfo, notifyRecordingFailed, At, Closing
  <2>2. Way(w, step)
    BY <2>1 DEF Way
  <2> QED BY <2>1, <2>2
<1>6. CASE createNextRecurringSchedule(w)
  <2>1. Goto(w, "done") /\ At(w, "recur") /\ worker[w].pc \in Closing
    BY <1>6 DEF createNextRecurringSchedule, At, Closing
  <2>2. \/ UNCHANGED rows
        \/ \E n \in Schedules, d \in BOOLEAN :
              rows[n].status = "absent" /\ Create(n, TRUE, worker[w].id, d)
    BY <1>6 DEF createNextRecurringSchedule
  <2>3. Way(w, "done")
    BY <2>1, <2>2 DEF Way
  <2> QED BY <2>1, <2>3
<1>7. CASE QueueRetry(w)
  <2>1. At(w, "retry") /\ RetriesLeft(w) /\ worker[w].pc \in Running
    BY <1>7 DEF QueueRetry, At, Running
  <2>2. CASE incrementScheduleRetryCount(worker[w].id) /\ Goto(w, "done")
    BY <2>1, <2>2 DEF Way
  <2>3. CASE UNCHANGED rows /\ Goto(w, "giveup")
    <3>1. "giveup" \in Running
      BY DEF Running
    <3> QED BY <2>1, <2>3, <3>1, <1>k DEF Way
  <2> QED BY <1>7, <2>2, <2>3 DEF QueueRetry
<1>8. CASE FailSchedule(w)
  <2>1. PICK step \in Closing : Goto(w, step) /\ worker[w].pc \in {"complete", "retry", "giveup"}
    BY <1>8 DEF FailSchedule, At, Closing
  <2>2. UNCHANGED rows \/ \E st \in {"completed", "failed"} : updateScheduleStatus(worker[w].id, st)
    BY <1>8 DEF FailSchedule
  <2>3. Way(w, step)
    BY <2>1, <2>2 DEF Way
  <2> QED BY <2>1, <2>3
<1> QED BY <1>1, <1>2, <1>3, <1>4, <1>5, <1>6, <1>7, <1>8 DEF RunWorker

\* The goroutine moves, the others stay, and no goroutine changes its row.
LEMMA WorkerMoves ==
    ASSUME TypeOK, NEW w \in Workers, NEW step, Goto(w, step)
    PROVE  /\ worker'[w].pc = step
           /\ \A v \in Workers : /\ worker'[v].id = worker[v].id
                                 /\ worker'[v].retry_count = worker[v].retry_count
                                 /\ v # w => worker'[v] = worker[v]
BY DEF TypeOK, Goto

\* Only the goroutine's own row and a row that was absent are written.
LEMMA OwnRowOnly ==
    ASSUME TypeOK, NEW w \in Workers, NEW step, Way(w, step), NEW t \in Schedules, t # worker[w].id
    PROVE  \/ rows'[t].status = rows[t].status /\ rows'[t].retry_count = rows[t].retry_count
           \/ rows[t].status = "absent"
<1>1. rows \in [Schedules -> Row]
  BY DEF TypeOK
<1> QED BY <1>1 DEF Way, RowsKept, updateScheduleStatus, incrementScheduleRetryCount, Create

\* The user creates a row where there was none or cancels one; the clock changes neither
\* status nor retry_count.
LEMMA UserTable ==
    ASSUME TypeOK, NEW s \in Schedules,
           Store(s) \/ Cancel(s) \/ StartTimeArrives(s) \/ BackoffElapses(s)
    PROVE  /\ UNCHANGED <<batch, worker, redis, files, removed, dropped, notified, crashes>>
           /\ \A t \in Schedules \ {s} : rows'[t] = rows[t]
           /\ \/ /\ rows[s].status = "absent"
                 /\ rows'[s].status = "pending" /\ rows'[s].retry_count = 0
              \/ /\ rows[s].status # "absent"
                 /\ rows'[s].status = "cancelled" /\ rows'[s].retry_count = rows[s].retry_count
              \/ rows'[s].status = rows[s].status /\ rows'[s].retry_count = rows[s].retry_count
<1>0. rows \in [Schedules -> Row]
  BY DEF TypeOK
<1>1. CASE Store(s)
  BY <1>0, <1>1 DEF Store, Schedule, Create, NoRow
<1>2. CASE Cancel(s)
  BY <1>0, <1>2 DEF Cancel, updateScheduleStatus, Row
<1>3. CASE StartTimeArrives(s)
  BY <1>0, <1>3 DEF StartTimeArrives, Row
<1>4. CASE BackoffElapses(s)
  BY <1>0, <1>4 DEF BackoffElapses, Row
<1> QED BY <1>1, <1>2, <1>3, <1>4

-----------------------------------------------------------------------------
(* Cancellation *)

\* A row that was cancelled while nobody worked on it is never taken up again, prompt
\* claims or not.
THEOREM CancellationSticks == Spec => CancelSticks
<1> DEFINE A == \A s \in Schedules :
                  rows[s].status = "cancelled" /\ ~InFlight(s) =>
                    ~InFlight(s)' /\ rows'[s].status = "cancelled"
<1>1. TypeOK /\ [Next]_vars => A
  <2> SUFFICES ASSUME TypeOK, [Next]_vars, NEW s \in Schedules,
                      rows[s].status = "cancelled", ~InFlight(s)
               PROVE  ~InFlight(s)' /\ rows'[s].status = "cancelled"
    BY DEF A
  <2>0. /\ rows \in [Schedules -> Row]
        /\ \A sc \in batch : sc.id # s
        /\ \A w \in Workers : Live(w) => worker[w].id # s
    BY DEF TypeOK, InFlight
  <2>r. ASSUME UNCHANGED <<worker, batch>>, rows'[s].status = "cancelled"
        PROVE  ~InFlight(s)' /\ rows'[s].status = "cancelled"
    BY <2>0, <2>r DEF InFlight, Live
  <2>1. ASSUME NEW t \in Schedules, Store(t) \/ Cancel(t) \/ StartTimeArrives(t) \/ BackoffElapses(t)
        PROVE  ~InFlight(s)' /\ rows'[s].status = "cancelled"
    BY <2>1, <2>r, UserTable
  <2>2. CASE processRecordingSchedules
    BY <2>0, <2>2 DEF processRecordingSchedules, findPendingBefore, InFlight, Live
  <2>3. CASE SpawnWorker
    <3>1. PICK sc \in batch :
            /\ batch' = batch \ {sc}
            /\ worker' = [worker EXCEPT ![NextWorker] = [pc |-> "claim", id |-> sc.id,
                                                         retry_count |-> sc.retry_count]]
      BY <2>3 DEF SpawnWorker
    <3>2. \A w \in Workers : worker'[w] = worker[w] \/ worker'[w].id = sc.id
      BY <3>1 DEF TypeOK
    <3> QED BY <2>0, <2>3, <3>1, <3>2 DEF SpawnWorker, InFlight, Live
  <2>4. ASSUME NEW w \in Workers, RunWorker(w) PROVE ~InFlight(s)' /\ rows'[s].status = "cancelled"
    <3>1. Live(w) /\ batch' = batch
      BY <2>4, WorkerTable
    <3>2. PICK step \in Step \ {"idle", "claim"} : Goto(w, step) /\ Way(w, step)
      BY <2>4, WorkerTable
    <3>3. rows'[s].status = "cancelled"
      BY <2>0, <3>1, <3>2, OwnRowOnly
    <3>4. \A v \in Workers : Live(v)' => Live(v) /\ worker'[v].id = worker[v].id
      BY <3>1, <3>2, WorkerMoves DEF Live
    <3> QED BY <2>0, <3>1, <3>3, <3>4 DEF InFlight
  <2>5. CASE CrashRestart
    BY <2>0, <2>5 DEF CrashRestart, InFlight, Live, TypeOK
  <2>6. CASE UNCHANGED vars
    BY <2>0, <2>6, <2>r DEF vars
  <2>7. ASSUME NEW w \in Touched, Touch(w) PROVE ~InFlight(s)' /\ rows'[s].status = "cancelled"
    BY <2>0, <2>7, <2>r, TouchTable
  <2> QED BY <2>1, <2>2, <2>3, <2>4, <2>5, <2>6, <2>7 DEF Next
<1>2. TypeOK /\ [Next]_vars => [A]_vars
  BY <1>1
<1> QED BY <1>2, TypeCorrect, PTL DEF Spec, CancelSticks

-----------------------------------------------------------------------------
(* One recording *)

\* A goroutine that has finished a file has its row to itself for good: the row is no
\* longer "pending", so no tick hands it out again.
FileAgrees(w) ==
    /\ worker[w].pc \in {"complete", "publish", "notify", "recur", "done"}
    /\ worker[w].id \in Schedules
    /\ rows[worker[w].id].status \in Claimed
    /\ \A sc \in batch : sc.id # worker[w].id
    /\ \A v \in Workers \ {w} : Live(v) => worker[v].id # worker[w].id

FInv == TypeOK /\ OneRecordingPerSchedule /\ \A w \in Recorded : FileAgrees(w)

\* A goroutine with a finished file goes on to report it and never to a retry.
LEMMA FileStep ==
    ASSUME IInv, NEW w \in Workers, RunWorker(w)
    PROVE  /\ \/ Recorded' = Recorded
              \/ At(w, "finalize") /\ Recorded' = Recorded \cup {w} /\ Goto(w, "complete") /\ UNCHANGED rows
           /\ worker[w].pc \in {"complete", "publish", "notify", "recur"} =>
                /\ \E step \in {"publish", "notify", "recur", "done"} : Goto(w, step)
                /\ rows'[worker[w].id].status \in {rows[worker[w].id].status, "completed"}
                   \/ rows[worker[w].id].status = "absent"
<1>0. rows \in [Schedules -> Row] /\ Live(w) /\ worker[w].id \in Schedules
  BY WorkerTable DEF IInv, TypeOK, WorkerAgrees
<1>1. /\ removed' = removed
      /\ \/ files' = files
         \/ At(w, "finalize") /\ files' = files \cup {w} /\ Goto(w, "complete") /\ UNCHANGED rows
  BY DEF RunWorker, ClaimSchedule, PrepareRecording, SaveInfo, setScheduleRecordingID,
         DownloadTimefree, FinalizeAAC, CompleteSchedule, PublishInfo, notifyRecordingCompleted,
         createNextRecurringSchedule, QueueRetry, FailSchedule, FailInfo, notifyRecordingFailed
<1>2. ASSUME worker[w].pc \in {"complete", "publish", "notify", "recur"}
      PROVE  CompleteSchedule(w) \/ PublishInfo(w) \/ notifyRecordingCompleted(w) \/ createNextRecurringSchedule(w)
  BY <1>2 DEF RunWorker, ClaimSchedule, PrepareRecording, SaveInfo, setScheduleRecordingID,
         DownloadTimefree, FinalizeAAC, QueueRetry, FailSchedule, FailInfo, notifyRecordingFailed, At
<1>3. CompleteSchedule(w) \/ PublishInfo(w) \/ notifyRecordingCompleted(w) \/ createNextRecurringSchedule(w)
        => \E step \in {"publish", "notify", "recur", "done"} : Goto(w, step)
  BY DEF CompleteSchedule, PublishInfo, notifyRecordingCompleted, createNextRecurringSchedule
<1>4. CompleteSchedule(w) \/ PublishInfo(w) \/ notifyRecordingCompleted(w) \/ createNextRecurringSchedule(w)
        => \/ rows'[worker[w].id].status \in {rows[worker[w].id].status, "completed"}
           \/ rows[worker[w].id].status = "absent"
  BY <1>0 DEF CompleteSchedule, PublishInfo, notifyRecordingCompleted, createNextRecurringSchedule,
              updateScheduleStatus, Create, Row
<1> QED BY <1>1, <1>2, <1>3, <1>4 DEF Recorded

\* Every step keeps it, given the invariant of the goroutines.
LEMMA NextFInv ==
    ASSUME IInv, FInv, TypeOK', [Next]_vars
    PROVE  FInv'
<1>0. rows \in [Schedules -> Row] /\ Recorded \subseteq Workers
  BY DEF FInv, TypeOK, Recorded
<1>r. ASSUME UNCHANGED <<worker, batch, Recorded>>,
             \A t \in Schedules : rows[t].status \in Claimed => rows'[t].status \in Claimed
      PROVE  FInv'
  BY <1>0, <1>r DEF FInv, OneRecordingPerSchedule, FileAgrees, Live
<1>1. ASSUME NEW t \in Schedules, Store(t) \/ Cancel(t) \/ StartTimeArrives(t) \/ BackoffElapses(t)
      PROVE  FInv'
  <2>1. \A x \in Schedules : rows[x].status \in Claimed => rows'[x].status \in Claimed
    BY <1>1, UserTable DEF FInv, Claimed
  <2> QED BY <1>1, <1>r, <2>1, UserTable DEF FInv, Recorded
<1>2. CASE processRecordingSchedules
  <2>1. UNCHANGED <<worker, Recorded, rows>>
    BY <1>2 DEF processRecordingSchedules, Recorded
  <2>2. \A sc \in batch' : \E s \in Schedules : sc.id = s /\ rows[s].status = "pending"
    BY <1>2 DEF processRecordingSchedules, findPendingBefore
  <2>3. ASSUME NEW w \in Recorded PROVE FileAgrees(w)'
    BY <1>0, <2>1, <2>2 DEF FInv, FileAgrees, Live, Claimed
  <2> QED BY <2>1, <2>3 DEF FInv, OneRecordingPerSchedule
<1>3. CASE SpawnWorker
  <2> DEFINE n == NextWorker
  <2>1. n \in Workers /\ At(n, "idle")
    BY <1>3 DEF SpawnWorker, NextWorker
  <2>2. PICK sc \in batch :
          /\ batch' = batch \ {sc}
          /\ worker' = [worker EXCEPT ![n] = [pc |-> "claim", id |-> sc.id,
                                              retry_count |-> sc.retry_count]]
    BY <1>3 DEF SpawnWorker
  <2>3. /\ worker'[n].id = sc.id /\ \A v \in Workers \ {n} : worker'[v] = worker[v]
    BY <2>1, <2>2 DEF FInv, TypeOK
  <2>4. n \notin Recorded /\ UNCHANGED <<rows, Recorded>>
    BY <1>3, <2>1 DEF FInv, FileAgrees, At, SpawnWorker, Recorded
  <2>5. ASSUME NEW w \in Recorded PROVE FileAgrees(w)'
    <3>1. worker'[w] = worker[w] /\ sc.id # worker[w].id
      BY <1>0, <2>3, <2>4 DEF FInv, FileAgrees
    <3> QED BY <1>0, <2>2, <2>3, <2>4, <3>1 DEF FInv, FileAgrees, Live
  <2>6. OneRecordingPerSchedule'
    BY <1>0, <2>3, <2>4 DEF FInv, OneRecordingPerSchedule
  <2> QED BY <2>4, <2>5, <2>6 DEF FInv
<1>4. ASSUME NEW w \in Workers, RunWorker(w) PROVE FInv'
  <2>1. Live(w) /\ batch' = batch /\ worker[w].id \in Schedules
    BY <1>4, WorkerTable DEF FInv, IInv, WorkerAgrees
  <2>2. PICK step \in Step \ {"idle", "claim"} : Goto(w, step) /\ Way(w, step)
    BY <1>4, WorkerTable DEF FInv
  <2>3. /\ worker'[w].pc = step
        /\ \A v \in Workers : worker'[v].id = worker[v].id /\ (v # w => worker'[v] = worker[v])
    BY <2>2, WorkerMoves DEF FInv
  <2>4. \A v \in Workers : Live(v)' => Live(v)
    BY <2>1, <2>3 DEF Live
  <2>5. ASSUME NEW v \in Recorded, v # w PROVE FileAgrees(v)'
    <3>1. worker[v].id # worker[w].id
      BY <2>1, <2>5, <1>0 DEF FInv, FileAgrees
    <3>2. worker[v].id \in Schedules /\ rows[worker[v].id].status \in Claimed
      BY DEF FInv, FileAgrees
    <3>3. rows'[worker[v].id].status \in Claimed
      BY <2>2, <3>1, <3>2, OwnRowOnly DEF FInv, Claimed
    <3> QED BY <1>0, <2>1, <2>3, <2>4, <2>5, <3>3 DEF FInv, FileAgrees
  <2>6. CASE Recorded' = Recorded
    <3>1. ASSUME w \in Recorded PROVE FileAgrees(w)'
      <4>1. worker[w].pc \in {"complete", "publish", "notify", "recur"} /\ rows[worker[w].id].status \in Claimed
        BY <2>1, <3>1 DEF FInv, FileAgrees, Live
      <4>2. PICK to \in {"publish", "notify", "recur", "done"} : Goto(w, to)
        BY <1>4, <4>1, FileStep
      <4>3. worker'[w].pc = to
        BY <4>2, WorkerMoves DEF FInv
      <4>4. rows'[worker[w].id].status \in Claimed
        BY <1>4, <4>1, FileStep DEF Claimed
      <4> QED BY <2>1, <2>3, <2>4, <3>1, <4>3, <4>4 DEF FInv, FileAgrees
    <3>2. OneRecordingPerSchedule'
      BY <1>0, <2>3, <2>6 DEF FInv, OneRecordingPerSchedule
    <3> QED BY <2>5, <2>6, <3>1, <3>2 DEF FInv
  <2>7. CASE At(w, "finalize") /\ Recorded' = Recorded \cup {w} /\ Goto(w, "complete") /\ UNCHANGED rows
    <3>1. worker'[w].pc = "complete"
      BY <2>7, WorkerMoves DEF FInv
    <3>2. FileAgrees(w)'
      <4>1. rows[worker[w].id].status \in Claimed
        BY <2>1, <2>7 DEF IInv, WorkerAgrees, At
      <4>2. \A sc \in batch : sc.id # worker[w].id
        BY <2>1 DEF IInv, BatchAgrees
      <4>3. \A v \in Workers \ {w} : Live(v) => worker[v].id # worker[w].id
        BY <2>1 DEF IInv, OneWorkerPerSchedule
      <4> QED BY <2>1, <2>3, <2>4, <2>7, <3>1, <4>1, <4>2, <4>3 DEF FileAgrees
    <3>3. \A v \in Recorded \ {w} : worker[v].id # worker[w].id
      BY <1>0, <2>1 DEF FInv, FileAgrees
    <3>4. OneRecordingPerSchedule'
      BY <1>0, <2>3, <2>7, <3>3 DEF FInv, OneRecordingPerSchedule
    <3> QED BY <2>5, <2>7, <3>2, <3>4 DEF FInv
  <2> QED BY <1>4, <2>6, <2>7, FileStep
<1>5. CASE CrashRestart
  <2>1. \A w \in Workers : /\ ~Live(w)' /\ worker'[w].id = worker[w].id
                           /\ worker'[w].pc = IF Live(w) THEN "done" ELSE worker[w].pc
    BY <1>5 DEF CrashRestart, Live, FInv, TypeOK
  <2>2. UNCHANGED <<rows, Recorded>> /\ batch' = {}
    BY <1>5 DEF CrashRestart, Recorded
  <2>3. ASSUME NEW w \in Recorded PROVE FileAgrees(w)'
    BY <1>0, <2>1, <2>2 DEF FInv, FileAgrees
  <2>4. OneRecordingPerSchedule'
    BY <1>0, <2>1, <2>2 DEF FInv, OneRecordingPerSchedule
  <2> QED BY <2>2, <2>3, <2>4 DEF FInv
<1>6. CASE UNCHANGED vars
  BY <1>0, <1>6, <1>r DEF vars, Recorded
<1>7. ASSUME NEW w \in Touched, Touch(w) PROVE FInv'
  BY <1>0, <1>7, <1>r, TouchTable DEF FInv
<1> QED BY <1>1, <1>2, <1>3, <1>4, <1>5, <1>6, <1>7 DEF Next

\* A reservation is recorded at most once, across retries, cancellations, failures and
\* crashes, as long as claims are prompt.
THEOREM RecordedOnce ==
    ASSUME PromptClaims
    PROVE  Spec => []OneRecordingPerSchedule
<1>1. Init => IInv /\ FInv
  BY InitIInv, InitTypeOK DEF Init, FInv, OneRecordingPerSchedule, Recorded
<1>2. IInv /\ FInv /\ [Next]_vars => (IInv /\ FInv)'
  BY NextIInv, NextTypeOK, NextFInv DEF IInv
<1>3. FInv => OneRecordingPerSchedule
  BY DEF FInv
<1> QED BY <1>1, <1>2, <1>3, PTL DEF Spec

-----------------------------------------------------------------------------
(* MySQL, Redis and the disk agree *)

\* What a goroutine has done by the time it reaches each place of its program, if no error
\* of its was dropped.
Ready(w) ==
    Live(w) =>
        /\ w \notin dropped =>
             /\ worker[w].pc \in {"setid", "download", "finalize", "complete", "publish"} => redis[w] # "none"
             /\ worker[w].pc \in {"download", "finalize", "complete", "publish"} =>
                  rows[worker[w].id].recording_id = w
        /\ worker[w].pc \in {"complete", "publish", "notify", "recur"} => w \in Recorded
        /\ rows[worker[w].id].status = "completed" => worker[w].pc \in {"publish", "notify", "recur"}

\* The recording behind a completed row.
Backs(w, s) ==
    /\ worker[w].id = s
    /\ \/ w \in dropped
       \/ /\ rows[s].recording_id = w
          /\ redis[w] \in {"completed", "stopped", "gone"} \/ At(w, "publish")

Leads(s) == rows[s].status = "completed" => \E w \in Recorded : Backs(w, s)

\* What the table says of a finished recording.
Told(w) ==
    \/ w \in dropped \/ At(w, "complete")
    \/ rows[worker[w].id].status \in {"completed", "cancelled"}

PInv ==
    /\ \A w \in Workers : Ready(w)
    /\ \A s \in Schedules : Leads(s)
    /\ \A w \in Recorded : Told(w)

\* A goroutine touches no other goroutine's RecordingInfo, and of the other rows only
\* one it creates.
LEMMA OthersUntouched ==
    ASSUME TypeOK, NEW w \in Workers, RunWorker(w)
    PROVE  /\ Recorded \subseteq Recorded' /\ Recorded' \subseteq Recorded \cup {w}
           /\ dropped \subseteq dropped' /\ dropped' \subseteq dropped \cup {w}
           /\ \A v \in Workers \ {w} : redis'[v] = redis[v]
           /\ \A t \in Schedules \ {worker[w].id} :
                \/ rows'[t].recording_id = rows[t].recording_id /\ rows'[t].status = rows[t].status
                \/ rows'[t].status = "pending" /\ rows[t].status = "absent"
<1>0. rows \in [Schedules -> Row] /\ redis \in [Workers -> KeyStatus]
  BY DEF TypeOK
<1>1. \/ UNCHANGED <<redis, dropped>> \/ saveRecordingInfo(w)
      \/ \E st \in Status : updateRedisRecordingStatus(w, st)
      \/ UNCHANGED redis /\ \E ok \in Outcomes("db") : GoesOn(w, ok)
  BY DEF RunWorker, ClaimSchedule, PrepareRecording, SaveInfo, setScheduleRecordingID,
         DownloadTimefree, FinalizeAAC, CompleteSchedule, PublishInfo, notifyRecordingCompleted,
         createNextRecurringSchedule, QueueRetry, FailSchedule, FailInfo, notifyRecordingFailed, Status
<1>2. /\ \A v \in Workers \ {w} : redis'[v] = redis[v]
      /\ dropped \subseteq dropped' /\ dropped' \subseteq dropped \cup {w}
  BY <1>0, <1>1 DEF saveRecordingInfo, updateRedisRecordingStatus, GoesOn
<1>3. files \subseteq files' /\ files' \subseteq files \cup {w} /\ removed' = removed
  BY DEF RunWorker, ClaimSchedule, PrepareRecording, SaveInfo, setScheduleRecordingID,
         DownloadTimefree, FinalizeAAC, CompleteSchedule, PublishInfo, notifyRecordingCompleted,
         createNextRecurringSchedule, QueueRetry, FailSchedule, FailInfo, notifyRecordingFailed
<1>r. Recorded \subseteq Recorded' /\ Recorded' \subseteq Recorded \cup {w}
  BY <1>3 DEF Recorded
<1>4. CASE createNextRecurringSchedule(w)
  BY <1>0, <1>2, <1>r, <1>4 DEF createNextRecurringSchedule, Create, NoRow
<1>5. CASE ~createNextRecurringSchedule(w)
  <2>1. \/ UNCHANGED rows \/ (\E st \in Status : updateScheduleStatus(worker[w].id, st))
        \/ incrementScheduleRetryCount(worker[w].id)
        \/ rows' = [rows EXCEPT ![worker[w].id].recording_id = w]
    BY <1>5 DEF RunWorker, ClaimSchedule, PrepareRecording, SaveInfo, setScheduleRecordingID,
         DownloadTimefree, FinalizeAAC, CompleteSchedule, PublishInfo, notifyRecordingCompleted,
         QueueRetry, FailSchedule, FailInfo, notifyRecordingFailed, Status
  <2>2. \A t \in Schedules \ {worker[w].id} : rows'[t] = rows[t]
    BY <1>0, <2>1 DEF updateScheduleStatus, incrementScheduleRetryCount
  <2> QED BY <1>2, <1>r, <2>2
<1> QED BY <1>4, <1>5

\* The step of a goroutine keeps what it has done, and its row leads where it should.
LEMMA WorkerReady ==
    ASSUME IInv, FInv, PInv, NEW w \in Workers, RunWorker(w), NEW s \in Schedules, s = worker[w].id
    PROVE  Ready(w)' /\ Leads(s)' /\ (w \in Recorded' => Told(w)')
<1>1. /\ rows \in [Schedules -> Row] /\ redis \in [Workers -> KeyStatus] /\ TypeOK /\ Live(w)
      /\ Recorded \subseteq Workers /\ dropped \subseteq dropped'
      /\ Outcomes("db") \subseteq BOOLEAN /\ Outcomes("redis") \subseteq BOOLEAN
  BY WorkerTable, OthersUntouched DEF IInv, TypeOK, Outcomes, Recorded
<1>2. \A step \in Step : Goto(w, step) =>
        /\ worker'[w].pc = step
        /\ \A v \in Workers : worker'[v].id = worker[v].id /\ (v # w => worker'[v] = worker[v])
  BY <1>1, WorkerMoves
<1>3. /\ Ready(w) /\ Leads(s) /\ (w \in Recorded => Told(w))
      /\ rows[s].status \in Unclaimed \cup Claimed
  BY <1>1 DEF PInv, IInv, WorkerAgrees
<1>4. w \in Recorded => /\ worker[w].pc \in {"complete", "publish", "notify", "recur"}
                        /\ \A v \in Recorded : worker[v].id = s => v = w
  BY <1>1 DEF FInv, FileAgrees, Live, OneRecordingPerSchedule
<1>5. ASSUME NEW step \in Step, Goto(w, step), Leads(s)', w \in Recorded' => Told(w)',
             w \notin dropped' =>
               /\ step \in {"setid", "download", "finalize", "complete", "publish"} => redis'[w] # "none"
               /\ step \in {"download", "finalize", "complete", "publish"} => rows'[s].recording_id = w,
             step \in {"complete", "publish", "notify", "recur"} => w \in Recorded',
             rows'[s].status = "completed" => step \in {"publish", "notify", "recur", "done"}
      PROVE  Ready(w)' /\ Leads(s)' /\ (w \in Recorded' => Told(w)')
  BY <1>2, <1>5 DEF Ready, Live
<1>6. ASSUME rows'[s].status # "completed" PROVE Leads(s)'
  BY <1>6 DEF Leads
<1>7. worker[w].pc \notin {"publish", "notify", "recur"} => rows[s].status # "completed"
  BY <1>1, <1>3 DEF Ready
<1>8. redis[w] # "none" => \A st \in Status : updateRedisRecordingStatus(w, st) =>
        w \in dropped' \/ redis'[w] = st \/ redis'[w] = "gone"
  BY <1>1 DEF updateRedisRecordingStatus, GoesOn
<1>9. saveRecordingInfo(w) => w \in dropped' \/ redis'[w] = "recording"
  BY <1>1 DEF saveRecordingInfo, GoesOn
<1>u. ASSUME NEW st, updateScheduleStatus(s, st)
      PROVE  rows'[s].status = st /\ rows'[s].recording_id = rows[s].recording_id
  BY <1>1, <1>u DEF updateScheduleStatus, Row
<1>v. incrementScheduleRetryCount(s) =>
        rows'[s].status = "pending" /\ rows'[s].recording_id = rows[s].recording_id
  BY <1>1 DEF incrementScheduleRetryCount, Row
<1>a. CASE ClaimSchedule(w)
  <2>1. PICK step \in {"auth", "done"} : Goto(w, step)
    BY <1>a DEF ClaimSchedule
  <2>2. rows'[s].status # "completed" /\ Recorded' = Recorded /\ At(w, "claim")
    BY <1>1, <1>7, <1>a, <1>u DEF ClaimSchedule, Recorded, At
  <2> QED BY <1>4, <1>5, <1>6, <2>1, <2>2 DEF Step, At
<1>b. CASE PrepareRecording(w)
  <2>1. /\ UNCHANGED rows /\ (Goto(w, "save") \/ Goto(w, "retry")) /\ rows[s].status # "completed"
        /\ Recorded' = Recorded /\ At(w, "auth")
    BY <1>7, <1>b DEF PrepareRecording, At, Recorded
  <2> QED BY <1>4, <1>5, <1>6, <2>1 DEF Step, At
<1>c. CASE SaveInfo(w)
  <2>1. /\ UNCHANGED rows /\ Goto(w, "setid") /\ rows[s].status # "completed"
        /\ (w \in dropped' \/ redis'[w] = "recording")
        /\ Recorded' = Recorded /\ At(w, "save")
    BY <1>7, <1>9, <1>c DEF SaveInfo, At, Recorded
  <2> QED BY <1>4, <1>5, <1>6, <2>1 DEF Step, At
<1>d. CASE setScheduleRecordingID(w)
  <2>1. PICK ok \in BOOLEAN :
          /\ rows' = IF ok THEN [rows EXCEPT ![s].recording_id = w] ELSE rows
          /\ GoesOn(w, ok) /\ Goto(w, "download") /\ At(w, "setid")
          /\ redis' = redis /\ Recorded' = Recorded
    BY <1>1, <1>d DEF setScheduleRecordingID, Recorded
  <2>2. /\ rows'[s].status = rows[s].status /\ rows[s].status # "completed"
        /\ (w \in dropped' \/ rows'[s].recording_id = w)
    BY <1>1, <1>7, <2>1 DEF Row, GoesOn, At
  <2>3. w \in dropped \/ redis[w] # "none"
    BY <1>1, <1>3, <2>1 DEF Ready, At
  <2> QED BY <1>1, <1>4, <1>5, <1>6, <2>1, <2>2, <2>3 DEF Step, At
<1>e. CASE DownloadTimefree(w)
  <2>1. /\ UNCHANGED rows /\ rows[s].status # "completed" /\ Recorded' = Recorded /\ At(w, "download")
        /\ ((Goto(w, "finalize") /\ UNCHANGED redis) \/ Goto(w, "retry"))
        /\ w \in dropped \/ (rows[s].recording_id = w /\ redis[w] # "none")
    BY <1>1, <1>3, <1>7, <1>e DEF DownloadTimefree, At, Ready, Recorded
  <2> QED BY <1>1, <1>4, <1>5, <1>6, <2>1 DEF Step, At
<1>f. CASE FinalizeAAC(w)
  <2>1. /\ UNCHANGED rows /\ rows[s].status # "completed" /\ At(w, "finalize")
        /\ w \in dropped \/ (rows[s].recording_id = w /\ redis[w] # "none")
    BY <1>1, <1>3, <1>7, <1>f DEF FinalizeAAC, At, Ready
  <2>2. \/ w \in Recorded' /\ (w \in dropped' \/ redis'[w] # "none") /\ Goto(w, "complete")
        \/ Recorded' = Recorded /\ Goto(w, "retry")
    BY <1>1, <1>9, <1>f, <2>1 DEF FinalizeAAC, Recorded
  <2>3. CASE w \in Recorded' /\ (w \in dropped' \/ redis'[w] # "none") /\ Goto(w, "complete")
    <3>1. Told(w)'
      BY <1>2, <2>3 DEF Told, At, Step
    <3> QED BY <1>1, <1>5, <1>6, <2>1, <2>3, <3>1 DEF Step
  <2>4. CASE Recorded' = Recorded /\ Goto(w, "retry")
    BY <1>4, <1>5, <1>6, <2>1, <2>4 DEF Step, At
  <2> QED BY <2>2, <2>3, <2>4
<1>g. CASE CompleteSchedule(w)
  <2>1. PICK ok \in BOOLEAN :
          /\ IF ok THEN updateScheduleStatus(s, "completed") ELSE UNCHANGED rows
          /\ GoesOn(w, ok) /\ Goto(w, "publish") /\ At(w, "complete")
          /\ redis' = redis /\ Recorded' = Recorded
    BY <1>1, <1>g DEF CompleteSchedule, Recorded
  <2>2. w \in Recorded /\ (w \in dropped \/ (rows[s].recording_id = w /\ redis[w] # "none"))
    BY <1>1, <1>3, <2>1 DEF At, Ready
  <2>3. /\ rows'[s].recording_id = rows[s].recording_id
        /\ rows'[s].status = "completed" \/ (w \in dropped' /\ rows'[s].status # "completed")
    BY <1>7, <1>u, <2>1 DEF GoesOn, At
  <2>4. Leads(s)' /\ Told(w)'
    BY <1>1, <1>2, <2>1, <2>2, <2>3 DEF Leads, Backs, Told, At, Step
  <2> QED BY <1>1, <1>5, <2>1, <2>2, <2>3, <2>4 DEF Step
<1>h. CASE PublishInfo(w)
  <2>1. UNCHANGED rows /\ Goto(w, "notify") /\ Recorded' = Recorded /\ At(w, "publish")
    BY <1>h DEF PublishInfo, Recorded
  <2>2. /\ w \in Recorded /\ (w \in dropped \/ (rows[s].recording_id = w /\ redis[w] # "none"))
        /\ Told(w) /\ \A v \in Recorded : worker[v].id = s => v = w
    BY <1>1, <1>3, <1>4, <2>1 DEF At, Ready
  <2>3. w \in dropped' \/ (redis'[w] \in {"completed", "gone"} /\ rows[s].recording_id = w)
    BY <1>1, <1>8, <1>h, <2>2 DEF PublishInfo, Status
  <2>4. Leads(s)' /\ Told(w)'
    BY <1>1, <1>2, <2>1, <2>2, <2>3 DEF Leads, Backs, Told, At, Step
  <2> QED BY <1>5, <2>1, <2>2, <2>4 DEF Step
<1>i. CASE notifyRecordingCompleted(w) \/ createNextRecurringSchedule(w)
  <2>1. rows'[s] = rows[s] /\ UNCHANGED <<redis, dropped>> /\ Recorded' = Recorded
        /\ worker[w].pc \in {"notify", "recur"}
    <3>1. rows[s].status # "absent"
      BY <1>3 DEF Claimed, Unclaimed
    <3> QED BY <1>1, <1>i, <3>1
            DEF notifyRecordingCompleted, createNextRecurringSchedule, Create, At, Recorded
  <2>2. PICK step \in {"recur", "done"} : Goto(w, step)
    BY <1>i DEF notifyRecordingCompleted, createNextRecurringSchedule
  <2>3. w \in Recorded /\ Told(w)
    BY <1>1, <1>3, <2>1 DEF Ready
  <2>4. Leads(s)'
    BY <1>1, <1>2, <1>3, <2>1, <2>2 DEF Leads, Backs, At, Step
  <2>5. Told(w)'
    BY <1>1, <1>2, <2>1, <2>2, <2>3 DEF Told, At, Step
  <2> QED BY <1>5, <2>1, <2>2, <2>3, <2>4, <2>5 DEF Step
<1>j. CASE QueueRetry(w) \/ FailSchedule(w)
  <2>1. /\ worker[w].pc \in {"retry", "giveup"} /\ Recorded' = Recorded
        /\ rows'[s].status # "completed"
    BY <1>1, <1>7, <1>j, <1>u, <1>v DEF QueueRetry, FailSchedule, At, Recorded
  <2>2. PICK step \in {"done", "giveup", "notifyfail", "failinfo"} : Goto(w, step)
    BY <1>j DEF QueueRetry, FailSchedule
  <2> QED BY <1>4, <1>5, <1>6, <2>1, <2>2 DEF Step
<1>k. CASE FailInfo(w) \/ notifyRecordingFailed(w)
  <2>1. /\ UNCHANGED rows /\ rows[s].status # "completed" /\ Recorded' = Recorded
        /\ worker[w].pc \in {"failinfo", "notifyfail"}
    BY <1>7, <1>k DEF FailInfo, notifyRecordingFailed, At, Recorded
  <2>2. PICK step \in {"done", "notifyfail"} : Goto(w, step)
    BY <1>k DEF FailInfo, notifyRecordingFailed
  <2> QED BY <1>4, <1>5, <1>6, <2>1, <2>2 DEF Step
<1> QED BY <1>a, <1>b, <1>c, <1>d, <1>e, <1>f, <1>g, <1>h, <1>i, <1>j, <1>k DEF RunWorker

\* Every step of every kind keeps it.
LEMMA NextPInv ==
    ASSUME IInv, FInv, PInv, [Next]_vars
    PROVE  PInv'
<1>1. rows \in [Schedules -> Row] /\ redis \in [Workers -> KeyStatus] /\ Recorded \subseteq Workers /\ TypeOK
  BY DEF IInv, TypeOK, Recorded
<1>2. /\ \A w \in Workers : Live(w) => worker[w].id \in Schedules /\ rows[worker[w].id].status # "absent"
      /\ \A w \in Recorded : worker[w].id \in Schedules /\ rows[worker[w].id].status # "absent"
  BY <1>1 DEF IInv, FInv, WorkerAgrees, FileAgrees, Claimed, Unclaimed
<1>3. ASSUME NEW s \in Schedules, Store(s) \/ Cancel(s) \/ StartTimeArrives(s) \/ BackoffElapses(s)
      PROVE  PInv'
  <2>1. /\ UNCHANGED <<worker, redis, Recorded, dropped>>
        /\ \A t \in Schedules \ {s} : rows'[t] = rows[t]
    BY <1>1, <1>3, UserTable DEF Recorded
  <2>2. \/ rows[s].status = "absent" /\ rows'[s].status = "pending"
        \/ /\ rows'[s].recording_id = rows[s].recording_id
           /\ rows'[s].status \in {rows[s].status, "cancelled"}
    BY <1>1, <1>3 DEF Store, Schedule, Create, NoRow, Cancel, updateScheduleStatus,
                      StartTimeArrives, BackoffElapses, Row
  <2>3. ASSUME NEW w \in Workers PROVE Ready(w)'
    BY <1>2, <2>1, <2>2 DEF PInv, Ready, Live
  <2>4. ASSUME NEW t \in Schedules PROVE Leads(t)'
    BY <2>1, <2>2 DEF PInv, Leads, Backs, At
  <2>5. ASSUME NEW w \in Recorded PROVE Told(w)'
    BY <1>2, <2>1, <2>2 DEF PInv, Told, At
  <2> QED BY <2>1, <2>3, <2>4, <2>5 DEF PInv
<1>4. CASE processRecordingSchedules \/ UNCHANGED vars
  BY <1>4 DEF processRecordingSchedules, vars, PInv, Ready, Leads, Backs, Told, Live, At, Recorded
<1>5. CASE SpawnWorker
  <2>1. PICK n \in Workers : n = NextWorker /\ At(n, "idle")
    BY <1>5 DEF SpawnWorker, NextWorker
  <2>2. PICK sc \in batch :
          worker' = [worker EXCEPT ![n] = [pc |-> "claim", id |-> sc.id, retry_count |-> sc.retry_count]]
    BY <1>5, <2>1 DEF SpawnWorker
  <2>3. /\ worker'[n].pc = "claim" /\ worker'[n].id = sc.id
        /\ UNCHANGED <<rows, redis, Recorded, dropped>>
        /\ \A v \in Workers \ {n} : worker'[v] = worker[v]
    BY <1>1, <1>5, <2>2 DEF SpawnWorker, TypeOK, Recorded
  <2>4. rows[sc.id].status # "completed" /\ n \notin Recorded
    BY <2>1 DEF IInv, BatchAgrees, Unclaimed, FInv, FileAgrees, At
  <2>5. ASSUME NEW w \in Workers PROVE Ready(w)'
    BY <2>3, <2>4 DEF PInv, Ready, Live
  <2>6. ASSUME NEW s \in Schedules PROVE Leads(s)'
    BY <1>1, <2>3, <2>4 DEF PInv, Leads, Backs, At
  <2>7. ASSUME NEW w \in Recorded PROVE Told(w)'
    BY <1>1, <2>3, <2>4 DEF PInv, Told, At
  <2> QED BY <2>3, <2>5, <2>6, <2>7 DEF PInv
<1>6. ASSUME NEW w \in Workers, RunWorker(w) PROVE PInv'
  <2>1. PICK step \in Step \ {"idle", "claim"} : Goto(w, step)
    BY <1>1, <1>6, WorkerTable
  <2>2. \A v \in Workers : worker'[v].id = worker[v].id /\ (v # w => worker'[v] = worker[v])
    BY <1>1, <2>1, WorkerMoves
  <2>3. PICK s \in Schedules : s = worker[w].id /\ Live(w)
    BY <1>1, <1>2, <1>6, WorkerTable
  <2>4. Ready(w)' /\ Leads(s)' /\ (w \in Recorded' => Told(w)')
    BY <1>6, <2>3, WorkerReady
  <2>5. /\ Recorded \subseteq Recorded' /\ Recorded' \subseteq Recorded \cup {w}
        /\ dropped \subseteq dropped' /\ dropped' \subseteq dropped \cup {w}
        /\ \A v \in Workers \ {w} : redis'[v] = redis[v]
        /\ \A t \in Schedules \ {s} :
             \/ rows'[t].recording_id = rows[t].recording_id /\ rows'[t].status = rows[t].status
             \/ rows'[t].status = "pending" /\ rows[t].status = "absent"
    BY <1>1, <1>6, <2>3, OthersUntouched
  <2>6. ASSUME NEW v \in Workers, v # w PROVE Ready(v)'
    <3>1. Live(v) => worker[v].id \in Schedules \ {s} /\ rows[worker[v].id].status # "absent"
      BY <1>2, <2>3, <2>6 DEF IInv, OneWorkerPerSchedule
    <3> QED BY <2>2, <2>5, <2>6, <3>1 DEF PInv, Ready, Live
  <2>7. ASSUME NEW t \in Schedules, t # s PROVE Leads(t)'
    <3>1. SUFFICES ASSUME rows'[t].status = "completed" PROVE \E v \in Recorded' : Backs(v, t)'
      BY DEF Leads
    <3>2. rows[t].status = "completed" /\ rows'[t].recording_id = rows[t].recording_id
      BY <2>5, <2>7, <3>1
    <3>3. PICK v \in Recorded : Backs(v, t)
      BY <3>2 DEF PInv, Leads
    <3>4. v \in Workers \ {w}
      BY <1>1, <2>3, <2>7, <3>3 DEF Backs
    <3> QED BY <2>2, <2>5, <3>2, <3>3, <3>4 DEF Backs, At
  <2>8. ASSUME NEW v \in Recorded, v # w PROVE Told(v)'
    <3>1. worker[v].id \in Schedules \ {s} /\ v \in Workers \ {w}
      BY <1>1, <1>2, <2>3, <2>8 DEF FInv, FileAgrees
    <3> QED BY <1>2, <2>2, <2>5, <3>1 DEF PInv, Told, At
  <2>9. \A v \in Workers : Ready(v)'
    BY <2>4, <2>6
  <2>10. \A t \in Schedules : Leads(t)'
    BY <2>4, <2>7
  <2>11. \A v \in Recorded' : Told(v)'
    BY <2>4, <2>5, <2>8
  <2> QED BY <2>9, <2>10, <2>11 DEF PInv
<1>7. ASSUME NEW w \in Touched, Touch(w) PROVE PInv'
  BY <1>1, <1>7, TouchTable DEF PInv, Ready, Leads, Backs, Told, Live, At
<1>8. CASE CrashRestart
  <2>1. /\ \A w \in Workers : /\ ~Live(w)' /\ worker'[w].id = worker[w].id
                              /\ ~Live(w) => worker'[w] = worker[w]
                              /\ At(w, "complete") \/ At(w, "publish") => w \in dropped'
        /\ dropped \subseteq dropped' /\ UNCHANGED <<rows, redis, Recorded>>
    BY <1>1, <1>8 DEF CrashRestart, Live, At, TypeOK, Recorded
  <2>2. \A w \in Workers : Ready(w)'
    BY <2>1 DEF Ready
  <2>3. ASSUME NEW s \in Schedules PROVE Leads(s)'
    BY <1>1, <2>1 DEF PInv, Leads, Backs
  <2>4. ASSUME NEW w \in Recorded PROVE Told(w)'
    BY <1>1, <2>1 DEF PInv, Told
  <2> QED BY <2>1, <2>2, <2>3, <2>4 DEF PInv
<1> QED BY <1>3, <1>4, <1>5, <1>6, <1>7, <1>8 DEF Next

\* MySQL, Redis and the disk agree about every recording, with failing statements, crashes,
\* stops, deletions and expiry, as long as claims are prompt: only the attempt that dropped
\* an error, or died before it had published, may disagree.
THEOREM RowsMatchRecordings ==
    ASSUME PromptClaims
    PROVE  Spec => []RowMatchesRecording
<1>1. Init => IInv /\ FInv /\ PInv
  BY InitIInv, InitTypeOK
     DEF Init, FInv, OneRecordingPerSchedule, Recorded, PInv, Ready, Leads, Told, Live, NoRow
<1>2. IInv /\ FInv /\ PInv /\ [Next]_vars => (IInv /\ FInv /\ PInv)'
  BY NextIInv, NextTypeOK, NextFInv, NextPInv DEF IInv
<1>3. PInv => RowMatchesRecording
  BY DEF PInv, Leads, Backs, Told, RowMatchesRecording
<1> QED BY <1>1, <1>2, <1>3, PTL DEF Spec

=============================================================================
