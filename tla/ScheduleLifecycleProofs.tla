----------------------- MODULE ScheduleLifecycleProofs -----------------------
(***************************************************************************)
(* The scheduler with its goroutines, faults and crashes implements the    *)
(* life cycle of one reservation (ScheduleLifecycle), and gives a row up   *)
(* only after all its attempts, for every number of rows, goroutines,      *)
(* retries and crashes, as long as claims are prompt.                      *)
(***************************************************************************)
EXTENDS ScheduledRecordingProofs, FiniteSetTheorems

\* The place of a goroutine in its program, seen as the state of the attempt.
Phase(pc) == IF pc = "claim" THEN "chosen" ELSE IF pc \in Closing THEN "closing" ELSE "running"

Taken(s) == \E w \in Workers : Live(w) /\ worker[w].id = s
InBatch(s) == \E sc \in batch : sc.id = s

\* The state of an attempt is that of the one goroutine, or else the batch decides.
LEMMA AttemptFacts ==
    OneWorkerPerSchedule =>
        \A s \in Schedules :
            /\ \A w \in Workers : Live(w) /\ worker[w].id = s => AttemptOf(s) = Phase(worker[w].pc)
            /\ ~Taken(s) => AttemptOf(s) = IF InBatch(s) THEN "chosen" ELSE "none"
<1> SUFFICES ASSUME OneWorkerPerSchedule, NEW s \in Schedules
             PROVE  /\ \A w \in Workers : Live(w) /\ worker[w].id = s => AttemptOf(s) = Phase(worker[w].pc)
                    /\ ~Taken(s) => AttemptOf(s) = IF InBatch(s) THEN "chosen" ELSE "none"
  OBVIOUS
<1>1. ASSUME NEW w \in Workers, Live(w), worker[w].id = s PROVE AttemptOf(s) = Phase(worker[w].pc)
  <2>1. (CHOOSE v \in Workers : Live(v) /\ worker[v].id = s) = w
    BY <1>1 DEF OneWorkerPerSchedule
  <2>2. AttemptOf(s) = CASE At(w, "claim") -> "chosen"
                         [] worker[w].pc \in {"publish", "notify", "recur", "failinfo", "notifyfail"} -> "closing"
                         [] OTHER -> "running"
    BY <1>1, <2>1 DEF AttemptOf
  <2> QED BY <2>2 DEF At, Phase, Closing
<1>2. ASSUME ~Taken(s) PROVE AttemptOf(s) = IF InBatch(s) THEN "chosen" ELSE "none"
  BY <1>2 DEF AttemptOf, Taken, InBatch
<1> QED BY <1>1, <1>2

\* The same of the next state.
LEMMA AttemptFactsNext ==
    OneWorkerPerSchedule' =>
        \A s \in Schedules :
            /\ \A w \in Workers : Live(w)' /\ worker'[w].id = s => AttemptOf(s)' = Phase(worker'[w].pc)
            /\ ~Taken(s)' => AttemptOf(s)' = IF InBatch(s)' THEN "chosen" ELSE "none"
<1>1. (OneWorkerPerSchedule =>
        \A s \in Schedules :
            /\ \A w \in Workers : Live(w) /\ worker[w].id = s => AttemptOf(s) = Phase(worker[w].pc)
            /\ ~Taken(s) => AttemptOf(s) = IF InBatch(s) THEN "chosen" ELSE "none")'
  BY AttemptFacts, PTL
<1> QED BY <1>1 DEF Phase

\* An attempt whose goroutine and whose place in the batch stay is the same attempt.
LEMMA SameAttempt ==
    ASSUME OneWorkerPerSchedule, OneWorkerPerSchedule', NEW s \in Schedules,
           \A w \in Workers : Live(w)' /\ worker'[w].id = s => Live(w) /\ worker[w].id = s,
           \A w \in Workers : Live(w) /\ worker[w].id = s => worker'[w] = worker[w],
           InBatch(s)' <=> InBatch(s)
    PROVE  AttemptOf(s)' = AttemptOf(s)
<1>1. CASE Taken(s)
  <2>1. PICK w \in Workers : Live(w) /\ worker[w].id = s
    BY <1>1 DEF Taken
  <2>2. worker'[w] = worker[w] /\ Live(w)'
    BY <2>1 DEF Live
  <2> QED BY <2>1, <2>2, AttemptFacts, AttemptFactsNext
<1>2. CASE ~Taken(s)
  <2>1. ~Taken(s)'
    BY <1>2 DEF Taken
  <2> QED BY <1>2, <2>1, AttemptFacts, AttemptFactsNext
<1> QED BY <1>1, <1>2

-----------------------------------------------------------------------------
(* The invariant: that of the goroutines, and rows not yet created are empty *)

Empty == \A s \in Schedules : rows[s].status = "absent" => rows[s].retry_count = 0

LInv == IInv /\ Empty

\* It holds in every state, given prompt claims.
LEMMA LInvStep ==
    ASSUME PromptClaims, LInv, [Next]_vars
    PROVE  LInv'
<1>0. IInv' /\ rows \in [Schedules -> Row]
  BY NextIInv DEF LInv, IInv, TypeOK
<1>1. ASSUME NEW s \in Schedules, Store(s) \/ Cancel(s) \/ StartTimeArrives(s) \/ BackoffElapses(s)
      PROVE  Empty'
  BY <1>1, UserTable DEF LInv, IInv, Empty
<1>2. ASSUME processRecordingSchedules \/ SpawnWorker \/ CrashRestart \/ UNCHANGED vars
      PROVE  Empty'
  BY <1>2 DEF processRecordingSchedules, SpawnWorker, CrashRestart, vars, LInv, Empty
<1>3. ASSUME NEW w \in Workers, RunWorker(w) PROVE Empty'
  <2>1. worker[w].id \in Schedules /\ rows[worker[w].id].status # "absent"
    BY <1>3, WorkerTable DEF LInv, IInv, WorkerAgrees, Claimed, Unclaimed
  <2>2. PICK step \in Step \ {"idle", "claim"} : Way(w, step)
    BY <1>3, WorkerTable DEF LInv, IInv
  <2>3. CASE RowsKept \/ UNCHANGED rows
    BY <2>3 DEF LInv, Empty, RowsKept
  <2>4. CASE \E st \in Claimed : updateScheduleStatus(worker[w].id, st)
    BY <1>0, <2>1, <2>4 DEF LInv, Empty, updateScheduleStatus, Row, Claimed
  <2>5. CASE incrementScheduleRetryCount(worker[w].id)
    BY <1>0, <2>1, <2>5 DEF LInv, Empty, incrementScheduleRetryCount, Row
  <2>6. CASE \E n \in Schedules, d \in BOOLEAN : Create(n, TRUE, worker[w].id, d)
    BY <1>0, <2>6 DEF LInv, Empty, Create, NoRow
  <2> QED BY <2>2, <2>3, <2>4, <2>5, <2>6 DEF Way, Claimed
<1>4. ASSUME NEW w \in Touched, Touch(w) PROVE Empty'
  BY <1>4, TouchTable DEF LInv, IInv, Empty
<1> QED BY <1>0, <1>1, <1>2, <1>3, <1>4 DEF LInv, Next

-----------------------------------------------------------------------------
(* The steps *)

St == [s \in Schedules |-> rows[s].status]
Re == [s \in Schedules |-> rows[s].retry_count]
Att == [s \in Schedules |-> AttemptOf(s)]

\* A step of the life cycle, or none.
LifecycleStep == [Lifecycle!Next]_<<St, Re, Att>>

\* The user and the clock.
LEMMA UserRefines ==
    ASSUME LInv, LInv', NEW s \in Schedules,
           Store(s) \/ Cancel(s) \/ StartTimeArrives(s) \/ BackoffElapses(s)
    PROVE  LifecycleStep
<1>1. TypeOK /\ OneWorkerPerSchedule /\ OneWorkerPerSchedule'
  BY DEF LInv, IInv
<1>2. UNCHANGED <<batch, worker>> /\ \A t \in Schedules \ {s} : rows'[t] = rows[t]
  BY <1>1, UserTable
<1>3. Att' = Att
  <2>1. ASSUME NEW t \in Schedules PROVE AttemptOf(t)' = AttemptOf(t)
    BY <1>1, <1>2, SameAttempt DEF Live, InBatch
  <2> QED BY <2>1 DEF Att
<1>4. CASE rows[s].status = "absent" /\ rows'[s].status = "pending" /\ rows'[s].retry_count = 0
  <2>1. St' = [St EXCEPT ![s] = "pending"]
    BY <1>2, <1>4 DEF St
  <2>2. Re' = Re
    BY <1>2, <1>4 DEF Re, LInv, Empty
  <2>3. Lifecycle!Create(s)
    BY <1>3, <1>4, <2>1, <2>2 DEF Lifecycle!Create, St, Re, Att
  <2> QED BY <2>3 DEF LifecycleStep, Lifecycle!Next
<1>5. CASE rows[s].status # "absent" /\ rows'[s].status = "cancelled" /\ rows'[s].retry_count = rows[s].retry_count
  <2>1. St' = [St EXCEPT ![s] = "cancelled"]
    BY <1>2, <1>5 DEF St
  <2>2. Re' = Re
    BY <1>2, <1>5 DEF Re
  <2>3. Lifecycle!Cancel(s)
    BY <1>3, <1>5, <2>1, <2>2 DEF Lifecycle!Cancel, St, Re, Att
  <2> QED BY <2>3 DEF LifecycleStep, Lifecycle!Next
<1>6. CASE rows'[s].status = rows[s].status /\ rows'[s].retry_count = rows[s].retry_count
  <2>1. St' = St /\ Re' = Re
    BY <1>2, <1>6 DEF St, Re
  <2> QED BY <1>3, <2>1 DEF LifecycleStep
<1> QED BY <1>1, <1>4, <1>5, <1>6, UserTable

\* A tick takes up rows nobody works on.
LEMMA TickRefines ==
    ASSUME LInv, LInv', PromptClaims, processRecordingSchedules
    PROVE  LifecycleStep
<1>1. TypeOK /\ OneWorkerPerSchedule /\ OneWorkerPerSchedule'
  BY DEF LInv, IInv
<1>2. UNCHANGED <<worker, rows>> /\ batch = {}
  BY DEF processRecordingSchedules
<1> DEFINE chosen == findPendingBefore
<1>3. /\ \A s \in Schedules : InBatch(s)' <=> s \in chosen
      /\ chosen \subseteq Schedules /\ \A s \in chosen : rows[s].status = "pending"
  <2>1. chosen \subseteq Schedules /\ \A s \in chosen : rows[s].status = "pending"
    BY DEF findPendingBefore
  <2>2. batch' = {[id |-> s, retry_count |-> rows[s].retry_count] : s \in chosen}
    BY DEF processRecordingSchedules
  <2> HIDE DEF chosen
  <2>3. ASSUME NEW s \in Schedules PROVE InBatch(s)' <=> s \in chosen
    <3>1. ASSUME s \in chosen PROVE InBatch(s)'
      <4>1. [id |-> s, retry_count |-> rows[s].retry_count] \in batch'
        BY <2>2, <3>1
      <4> QED BY <4>1 DEF InBatch
    <3>2. ASSUME InBatch(s)' PROVE s \in chosen
      BY <2>2, <3>2 DEF InBatch
    <3> QED BY <3>1, <3>2
  <2> QED BY <2>1, <2>3
<1>4. \A s \in chosen : ~Taken(s)
  BY <1>3 DEF processRecordingSchedules, LInv, IInv, WorkerAgrees, Claimed, Taken
<1> HIDE DEF chosen
<1>5. ASSUME NEW s \in Schedules
      PROVE  AttemptOf(s)' = IF s \in chosen THEN "chosen" ELSE AttemptOf(s)
  <2>1. CASE s \in chosen
    <3>1. ~Taken(s)'
      BY <1>2, <1>4, <2>1 DEF Taken, Live
    <3> QED BY <1>1, <1>3, <2>1, <3>1, AttemptFactsNext
  <2>2. CASE s \notin chosen
    <3>1. InBatch(s)' <=> InBatch(s)
      BY <1>2, <1>3, <2>2 DEF InBatch
    <3> QED BY <1>1, <1>2, <2>2, <3>1, SameAttempt DEF Live
  <2> QED BY <2>1, <2>2
<1>6. \A s \in chosen : AttemptOf(s) = "none"
  BY <1>1, <1>2, <1>3, <1>4, AttemptFacts DEF InBatch
<1>7. chosen \in SUBSET {s \in Schedules : St[s] = "pending" /\ Att[s] = "none"}
  BY <1>3, <1>6 DEF St, Att
<1>8. Att' = [s \in Schedules |-> IF s \in chosen THEN "chosen" ELSE Att[s]]
  BY <1>5 DEF Att
<1>9. St' = St /\ Re' = Re
  BY <1>2 DEF St, Re
<1>10. Lifecycle!Choose
  BY <1>7, <1>8, <1>9 DEF Lifecycle!Choose, St, Re, Att
<1> QED BY <1>10 DEF LifecycleStep, Lifecycle!Next

\* A row handed to its goroutine is still chosen.
LEMMA SpawnRefines ==
    ASSUME LInv, LInv', SpawnWorker
    PROVE  LifecycleStep
<1>1. TypeOK /\ OneWorkerPerSchedule /\ OneWorkerPerSchedule'
  BY DEF LInv, IInv
<1>2. PICK n \in Workers : n = NextWorker /\ At(n, "idle") /\ UNCHANGED rows
  BY DEF SpawnWorker, NextWorker
<1>3. PICK sc \in batch :
        /\ batch' = batch \ {sc}
        /\ worker' = [worker EXCEPT ![n] = [pc |-> "claim", id |-> sc.id, retry_count |-> sc.retry_count]]
  BY <1>2 DEF SpawnWorker
<1>4. /\ worker'[n].id = sc.id /\ worker'[n].pc = "claim"
      /\ \A v \in Workers \ {n} : worker'[v] = worker[v]
  BY <1>1, <1>2, <1>3 DEF TypeOK
<1>5. ~Taken(sc.id) /\ sc.id \in Schedules
  BY DEF LInv, IInv, BatchAgrees, Taken, TypeOK, Snapshot
<1>6. ASSUME NEW s \in Schedules PROVE AttemptOf(s)' = AttemptOf(s)
  <2>1. CASE s = sc.id
    <3>1. AttemptOf(s) = "chosen"
      BY <1>1, <1>5, <2>1, AttemptFacts DEF InBatch
    <3>2. AttemptOf(s)' = Phase(worker'[n].pc)
      <4>1. Live(n)' /\ worker'[n].id = s
        BY <1>2, <1>4, <2>1 DEF Live
      <4> QED BY <1>1, <1>2, <4>1, AttemptFactsNext
    <3> QED BY <1>4, <3>1, <3>2 DEF Phase
  <2>2. CASE s # sc.id
    <3>1. InBatch(s)' <=> InBatch(s)
      BY <1>3, <2>2 DEF InBatch
    <3> QED BY <1>1, <1>2, <1>4, <2>2, <3>1, SameAttempt DEF Live, At
  <2> QED BY <2>1, <2>2
<1>7. Att' = Att /\ St' = St /\ Re' = Re
  BY <1>2, <1>6 DEF Att, St, Re
<1> QED BY <1>7 DEF LifecycleStep

\* After a crash nothing is attempted.
LEMMA CrashRefines ==
    ASSUME LInv, LInv', CrashRestart
    PROVE  LifecycleStep
<1>1. OneWorkerPerSchedule'
  BY DEF LInv, IInv
<1>2. \A s \in Schedules : ~Taken(s)' /\ ~InBatch(s)'
  BY DEF CrashRestart, Taken, InBatch, Live, LInv, IInv, TypeOK
<1>3. \A s \in Schedules : AttemptOf(s)' = "none"
  BY <1>1, <1>2, AttemptFactsNext
<1>4. Att' = [s \in Schedules |-> "none"] /\ St' = St /\ Re' = Re
  BY <1>3 DEF Att, St, Re, CrashRestart
<1>5. Lifecycle!Crash
  BY <1>4 DEF Lifecycle!Crash, St, Re, Att
<1> QED BY <1>5 DEF LifecycleStep, Lifecycle!Next

\* The attempt a goroutine makes moves as the goroutine does.
LEMMA WorkerAttempt ==
    ASSUME LInv, LInv', NEW w \in Workers, Live(w), NEW step \in Step \ {"idle"}, Goto(w, step), batch' = batch
    PROVE  /\ Att[worker[w].id] = Phase(worker[w].pc)
           /\ Att' = [Att EXCEPT ![worker[w].id] = IF step = "done" THEN "none" ELSE Phase(step)]
<1>0. PICK s \in Schedules : s = worker[w].id
  BY DEF LInv, IInv, WorkerAgrees
<1>1. TypeOK /\ OneWorkerPerSchedule /\ OneWorkerPerSchedule'
  BY DEF LInv, IInv
<1>2. /\ worker'[w].pc = step /\ worker'[w].id = s
      /\ \A v \in Workers \ {w} : worker'[v] = worker[v]
  BY <1>0, <1>1, WorkerMoves
<1>3. AttemptOf(s) = Phase(worker[w].pc)
  BY <1>0, <1>1, AttemptFacts
<1>4. \A v \in Workers \ {w} : Live(v) => worker[v].id # s
  BY <1>0, <1>1 DEF OneWorkerPerSchedule
<1>5. ~InBatch(s) /\ ~InBatch(s)'
  BY <1>0 DEF LInv, IInv, BatchAgrees, InBatch
<1>6. AttemptOf(s)' = IF step = "done" THEN "none" ELSE Phase(step)
  <2>1. CASE step = "done"
    <3>1. ~Taken(s)'
      BY <1>2, <1>4, <2>1 DEF Taken, Live
    <3> QED BY <1>1, <1>5, <2>1, <3>1, AttemptFactsNext
  <2>2. CASE step # "done"
    <3>1. Live(w)'
      BY <1>2, <2>2 DEF Live
    <3> QED BY <1>1, <1>2, <2>2, <3>1, AttemptFactsNext
  <2> QED BY <2>1, <2>2
<1>7. ASSUME NEW t \in Schedules, t # s PROVE AttemptOf(t)' = AttemptOf(t)
  <2>1. InBatch(t)' <=> InBatch(t)
    BY DEF InBatch
  <2> QED BY <1>0, <1>1, <1>2, <1>7, <2>1, SameAttempt DEF Live
<1> QED BY <1>0, <1>3, <1>6, <1>7 DEF Att

\* Every step of a goroutine is a step of its attempt.
LEMMA WorkerRefines ==
    ASSUME LInv, LInv', NEW w \in Workers, RunWorker(w)
    PROVE  LifecycleStep
<1>0. TypeOK /\ rows \in [Schedules -> Row]
  BY DEF LInv, IInv, TypeOK
<1>1. Live(w) /\ batch' = batch
  BY <1>0, WorkerTable
<1>2. PICK step \in Step \ {"idle", "claim"} : Goto(w, step) /\ Way(w, step)
  BY <1>0, WorkerTable
<1>3. PICK s \in Schedules : s = worker[w].id
  BY <1>1 DEF LInv, IInv, WorkerAgrees
<1>4. /\ Att[s] = Phase(worker[w].pc)
      /\ Att' = [Att EXCEPT ![s] = IF step = "done" THEN "none" ELSE Phase(step)]
  BY <1>1, <1>2, <1>3, WorkerAttempt
<1>5. /\ St \in [Schedules -> Status] /\ Re \in [Schedules -> Nat] /\ St[s] = rows[s].status
      /\ Re[s] = rows[s].retry_count /\ Att = [Att EXCEPT ![s] = Att[s]]
  BY <1>0 DEF St, Re, Att, Row
<1>6. /\ \A pc \in Running : Phase(pc) = "running" /\ pc # "done" /\ pc # "claim"
      /\ \A pc \in Closing : Phase(pc) = "closing" /\ pc # "done" /\ pc # "claim"
      /\ Phase("claim") = "chosen" /\ "auth" \in Running
      /\ {"complete", "retry", "giveup"} \subseteq Running /\ "recur" \in Closing
  BY DEF Phase, Running, Closing
<1>u. ASSUME NEW st, updateScheduleStatus(s, st) PROVE St' = [St EXCEPT ![s] = st] /\ Re' = Re
  BY <1>0, <1>u DEF updateScheduleStatus, St, Re, Row
<1>k. ASSUME RowsKept \/ UNCHANGED rows PROVE St' = St /\ Re' = Re
  BY <1>k DEF RowsKept, St, Re
<1>a. CASE At(w, "claim") /\ step = "auth" /\ updateScheduleStatus(worker[w].id, "recording")
  <2>1. Lifecycle!Claim(s)
    BY <1>3, <1>4, <1>6, <1>a, <1>u DEF Lifecycle!Claim, St, Re, Att, At
  <2> QED BY <2>1 DEF LifecycleStep, Lifecycle!Next
<1>b. CASE At(w, "claim") /\ step = "done" /\ UNCHANGED rows
  <2>1. Lifecycle!Leave(s)
    BY <1>4, <1>6, <1>b, <1>k DEF Lifecycle!Leave, St, Re, Att, At
  <2> QED BY <2>1 DEF LifecycleStep, Lifecycle!Next
<1>c. CASE worker[w].pc \in Running /\ step \in Running /\ RowsKept
  <2>1. Att' = Att
    BY <1>4, <1>5, <1>6, <1>c
  <2> QED BY <1>c, <1>k, <2>1 DEF LifecycleStep
<1>d. CASE /\ worker[w].pc \in {"complete", "retry", "giveup"} /\ step \in Closing
           /\ \/ UNCHANGED rows
              \/ \E st \in {"completed", "failed"} : updateScheduleStatus(worker[w].id, st)
  <2>1. PICK st \in {"completed", "failed", St[s]} : St' = [St EXCEPT ![s] = st] /\ Re' = Re
    <3>1. CASE UNCHANGED rows
      <4>1. St = [St EXCEPT ![s] = St[s]]
        BY <1>5
      <4> QED BY <1>k, <3>1, <4>1
    <3>2. CASE \E st \in {"completed", "failed"} : updateScheduleStatus(worker[w].id, st)
      BY <1>3, <1>u, <3>2
    <3> QED BY <1>d, <3>1, <3>2
  <2>2. Att[s] = "running" /\ Att' = [Att EXCEPT ![s] = "closing"]
    BY <1>4, <1>6, <1>d
  <2>3. Lifecycle!Close(s)
    BY <2>1, <2>2 DEF Lifecycle!Close, St, Re, Att
  <2> QED BY <2>3 DEF LifecycleStep, Lifecycle!Next
<1>e. CASE At(w, "retry") /\ step = "done" /\ RetriesLeft(w) /\ incrementScheduleRetryCount(worker[w].id)
  <2>1. St' = [St EXCEPT ![s] = "pending"] /\ Re' = [Re EXCEPT ![s] = @ + 1]
    BY <1>0, <1>3, <1>e DEF incrementScheduleRetryCount, St, Re, Row
  <2>2. Re[s] < MaxRetries
    BY <1>1, <1>3, <1>5, <1>e DEF RetriesLeft, LInv, IInv, WorkerAgrees
  <2>3. Att[s] = "running" /\ Att' = [Att EXCEPT ![s] = "none"]
    BY <1>4, <1>6, <1>e DEF At
  <2>4. Lifecycle!Requeue(s)
    BY <2>1, <2>2, <2>3 DEF Lifecycle!Requeue, St, Re, Att
  <2> QED BY <2>4 DEF LifecycleStep, Lifecycle!Next
<1>f. CASE worker[w].pc \in Closing /\ step \in Closing \cup {"done"} /\ UNCHANGED rows
  <2>1. CASE step = "done"
    <3>1. Lifecycle!Leave(s)
      BY <1>4, <1>6, <1>f, <1>k, <2>1 DEF Lifecycle!Leave, St, Re, Att
    <3> QED BY <3>1 DEF LifecycleStep, Lifecycle!Next
  <2>2. CASE step \in Closing
    <3>1. Att' = Att
      BY <1>4, <1>5, <1>6, <1>f, <2>2
    <3> QED BY <1>f, <1>k, <3>1 DEF LifecycleStep
  <2> QED BY <1>f, <2>1, <2>2
<1>g. CASE /\ At(w, "recur") /\ step = "done"
           /\ \E n \in Schedules, d \in BOOLEAN :
                 rows[n].status = "absent" /\ Create(n, TRUE, worker[w].id, d)
  <2>1. PICK n \in Schedules, d \in BOOLEAN : rows[n].status = "absent" /\ Create(n, TRUE, worker[w].id, d)
    BY <1>g
  <2>2. St' = [St EXCEPT ![n] = "pending"] /\ St[n] = "absent"
    BY <1>0, <2>1 DEF Create, NoRow, St
  <2>3. Re' = Re
    BY <1>0, <2>1 DEF Create, NoRow, Re, LInv, Empty
  <2>4. Att[s] = "closing" /\ Att' = [Att EXCEPT ![s] = "none"]
    BY <1>4, <1>6, <1>g DEF At
  <2>5. Lifecycle!LeaveWithNext(s, n)
    BY <2>2, <2>3, <2>4 DEF Lifecycle!LeaveWithNext, St, Re, Att
  <2> QED BY <2>5 DEF LifecycleStep, Lifecycle!Next
<1> QED BY <1>2, <1>a, <1>b, <1>c, <1>d, <1>e, <1>f, <1>g DEF Way

-----------------------------------------------------------------------------
\* As long as claims are prompt, everything the scheduler does to a reservation is a step
\* of its life cycle: one attempt at a time, at most MaxRetries requeues, and no write of
\* the status but those of the attempt in progress and of the cancelling user.
THEOREM LifecycleImplemented ==
    ASSUME PromptClaims
    PROVE  Spec => ImplementsLifecycle
<1>1. Init => LInv
  BY InitIInv DEF Init, LInv, Empty, NoRow
<1>2. LInv /\ [Next]_vars => LInv'
  BY LInvStep
<1>3. Init => Lifecycle!Init
  <2> SUFFICES ASSUME Init PROVE Lifecycle!Init
    OBVIOUS
  <2>1. \A s \in Schedules : ~Taken(s) /\ ~InBatch(s)
    BY DEF Init, Taken, InBatch, Live
  <2>2. OneWorkerPerSchedule
    BY InitIInv DEF IInv
  <2>3. \A s \in Schedules : AttemptOf(s) = "none"
    BY <2>1, <2>2, AttemptFacts
  <2> QED BY <2>3 DEF Init, NoRow, Lifecycle!Init
<1>4. LInv /\ LInv' /\ [Next]_vars => [Lifecycle!Next]_(Lifecycle!vars)
  <2> SUFFICES ASSUME LInv, LInv', [Next]_vars PROVE [Lifecycle!Next]_(Lifecycle!vars)
    OBVIOUS
  <2>1. LifecycleStep => [Lifecycle!Next]_(Lifecycle!vars)
    BY DEF LifecycleStep, Lifecycle!vars, St, Re, Att
  <2>2. ASSUME UNCHANGED <<rows, batch, worker>> PROVE UNCHANGED Lifecycle!vars
    <3>1. \A s \in Schedules : AttemptOf(s)' = AttemptOf(s)
      BY <2>2, SameAttempt DEF LInv, IInv, Live, InBatch
    <3> QED BY <2>2, <3>1 DEF Lifecycle!vars
  <2>3. CASE UNCHANGED vars
    BY <2>2, <2>3 DEF vars
  <2>4. ASSUME NEW w \in Touched, Touch(w) PROVE UNCHANGED Lifecycle!vars
    BY <2>2, <2>4, TouchTable DEF LInv, IInv
  <2> QED BY <2>1, <2>3, <2>4, UserRefines, TickRefines, SpawnRefines, CrashRefines, WorkerRefines DEF Next
<1> QED BY <1>1, <1>2, <1>3, <1>4, PTL DEF Spec, ImplementsLifecycle, Lifecycle!Spec

-----------------------------------------------------------------------------
(* Giving up *)

\* Every retry a row has used, and the attempt in progress or the one that failed, is a
\* goroutine of its own.
Attempts(s) == {w \in Workers : worker[w].id = s}

AttemptsCounted(s) ==
    /\ rows[s].retry_count + (IF Taken(s) \/ rows[s].status = "failed" THEN 1 ELSE 0)
         <= Cardinality(Attempts(s))
    /\ rows[s].status = "failed" => rows[s].retry_count = MaxRetries

EInv ==
    /\ \A s \in Schedules : AttemptsCounted(s)
    /\ \A w \in Workers : ~At(w, "giveup") /\ (At(w, "idle") => worker[w].id = None)

\* Unless MySQL fails, a goroutine marks its row failed only when the limit is reached.
LEMMA GivingUp ==
    ASSUME TypeOK, "db" \notin Faults, NEW w \in Workers, ~At(w, "giveup"), RunWorker(w),
           worker[w].id \in Schedules
    PROVE  /\ ~Goto(w, "giveup")
           /\ rows'[worker[w].id].status = "failed" =>
                rows[worker[w].id].status = "failed" \/ ~RetriesLeft(w)
<1>0. rows \in [Schedules -> Row] /\ Outcomes("db") = {TRUE}
  BY DEF TypeOK, Outcomes
<1>1. ~QueueRetry(w) => ~Goto(w, "giveup")
  <2>1. \A a, b : Goto(w, a) /\ Goto(w, b) => a = b
    BY DEF Goto, TypeOK
  <2>2. ~QueueRetry(w) => \E step \in Step \ {"giveup"} : Goto(w, step)
    BY DEF RunWorker, ClaimSchedule, PrepareRecording, SaveInfo, setScheduleRecordingID,
         DownloadTimefree, FinalizeAAC, CompleteSchedule, PublishInfo, notifyRecordingCompleted,
         createNextRecurringSchedule, FailSchedule, FailInfo, notifyRecordingFailed, Step
  <2> QED BY <2>1, <2>2
<1>2. QueueRetry(w) => incrementScheduleRetryCount(worker[w].id) /\ Goto(w, "done")
  BY <1>0 DEF QueueRetry
<1>3. Goto(w, "done") => ~Goto(w, "giveup")
  BY DEF Goto, TypeOK
<1>4. ASSUME rows'[worker[w].id].status = "failed", rows[worker[w].id].status # "failed"
      PROVE  ~RetriesLeft(w)
  <2>1. ~UNCHANGED rows
    BY <1>4
  <2>2. ~QueueRetry(w)
    BY <1>0, <1>2, <1>4 DEF incrementScheduleRetryCount, Row
  <2>3. ~(ClaimSchedule(w) \/ CompleteSchedule(w) \/ setScheduleRecordingID(w))
    BY <1>0, <1>4 DEF ClaimSchedule, CompleteSchedule, setScheduleRecordingID, updateScheduleStatus, Row
  <2>4. ~createNextRecurringSchedule(w)
    BY <1>0, <1>4 DEF createNextRecurringSchedule, Create, NoRow
  <2>5. FailSchedule(w)
    BY <2>1, <2>2, <2>3, <2>4 DEF RunWorker, PrepareRecording, SaveInfo, DownloadTimefree, FinalizeAAC,
         PublishInfo, notifyRecordingCompleted, FailInfo, notifyRecordingFailed
  <2> QED BY <2>5 DEF FailSchedule
<1> QED BY <1>1, <1>2, <1>3, <1>4

\* A step that leaves the goroutines' rows to themselves keeps the count.
LEMMA CountKept ==
    ASSUME NEW s \in Schedules, AttemptsCounted(s), Attempts(s)' = Attempts(s), Taken(s)' => Taken(s),
           rows'[s].retry_count = rows[s].retry_count,
           rows'[s].status = "failed" => rows[s].status = "failed",
           rows[s].retry_count \in Nat, Cardinality(Attempts(s)) \in Nat
    PROVE  AttemptsCounted(s)'
BY DEF AttemptsCounted

\* Every step keeps the count.
LEMMA EInvStep ==
    ASSUME PromptClaims, "db" \notin Faults, IsFiniteSet(Workers), LInv, EInv, [Next]_vars
    PROVE  EInv'
<1>0. /\ TypeOK /\ rows \in [Schedules -> Row] /\ (\A s \in Schedules : rows[s].retry_count \in Nat)
      /\ \A s \in Schedules : IsFiniteSet(Attempts(s)) /\ Cardinality(Attempts(s)) \in Nat
  <2>1. \A s \in Schedules : IsFiniteSet(Attempts(s))
    BY FS_Subset DEF Attempts
  <2> QED BY <2>1, FS_CardinalityType DEF LInv, IInv, TypeOK, Row
<1>1. ASSUME NEW s \in Schedules, Store(s) \/ Cancel(s) \/ StartTimeArrives(s) \/ BackoffElapses(s)
      PROVE  EInv'
  <2>1. UNCHANGED worker /\ \A t \in Schedules \ {s} : rows'[t] = rows[t]
    BY <1>0, <1>1, UserTable
  <2>2. \A t \in Schedules : Attempts(t)' = Attempts(t) /\ (Taken(t)' <=> Taken(t))
    BY <2>1 DEF Attempts, Taken, Live
  <2>3. ASSUME NEW t \in Schedules PROVE AttemptsCounted(t)'
    <3>1. CASE t # s
      BY <1>0, <2>1, <2>2, <3>1, CountKept DEF EInv
    <3>2. CASE t = s /\ rows[s].status = "absent" /\ rows'[s].status = "pending" /\ rows'[s].retry_count = 0
      <4>1. ~Taken(s)
        BY <3>2 DEF LInv, IInv, WorkerAgrees, Claimed, Unclaimed, Taken
      <4> QED BY <1>0, <2>2, <3>2, <4>1 DEF AttemptsCounted
    <3>3. CASE t = s /\ rows'[s].retry_count = rows[s].retry_count /\ rows'[s].status \in {rows[s].status, "cancelled"}
      BY <1>0, <2>2, <3>3, CountKept DEF EInv
    <3> QED BY <1>0, <1>1, <3>1, <3>2, <3>3, UserTable
  <2> QED BY <2>1, <2>3 DEF EInv, At
<1>2. ASSUME processRecordingSchedules \/ UNCHANGED vars \/ \E w \in Touched : Touch(w)
      PROVE  EInv'
  <2>1. UNCHANGED <<worker, rows>>
    BY <1>0, <1>2, TouchTable DEF processRecordingSchedules, vars
  <2>2. \A t \in Schedules : Attempts(t)' = Attempts(t) /\ (Taken(t)' <=> Taken(t))
    BY <2>1 DEF Attempts, Taken, Live
  <2>3. \A t \in Schedules : AttemptsCounted(t)'
    BY <1>0, <2>1, <2>2, CountKept DEF EInv
  <2> QED BY <2>1, <2>3 DEF EInv, At
<1>3. CASE SpawnWorker
  <2>1. PICK n \in Workers : n = NextWorker /\ At(n, "idle")
    BY <1>3 DEF SpawnWorker, NextWorker
  <2>2. PICK sc \in batch :
          worker' = [worker EXCEPT ![n] = [pc |-> "claim", id |-> sc.id, retry_count |-> sc.retry_count]]
    BY <1>3, <2>1 DEF SpawnWorker
  <2>3. /\ worker'[n].id = sc.id /\ worker'[n].pc = "claim" /\ UNCHANGED rows
        /\ \A v \in Workers \ {n} : worker'[v] = worker[v]
    BY <1>0, <1>3, <2>1, <2>2 DEF TypeOK, SpawnWorker
  <2>4. /\ ~Taken(sc.id) /\ sc.id \in Schedules /\ rows[sc.id].status # "failed"
        /\ \A t \in Schedules : worker[n].id # t
    BY <2>1, ConstantsAssumption DEF LInv, IInv, BatchAgrees, Unclaimed, Taken, TypeOK, Snapshot, EInv
  <2>5. ASSUME NEW t \in Schedules PROVE AttemptsCounted(t)'
    <3>1. CASE t = sc.id
      <4>1. Attempts(t)' = Attempts(t) \cup {n} /\ n \notin Attempts(t)
        BY <2>3, <2>4, <3>1 DEF Attempts
      <4>2. Cardinality(Attempts(t)') = Cardinality(Attempts(t)) + 1
        BY <1>0, <4>1, FS_AddElement
      <4> QED BY <1>0, <2>3, <2>4, <3>1, <4>2 DEF EInv, AttemptsCounted
    <3>2. CASE t # sc.id
      <4>1. Attempts(t)' = Attempts(t) /\ (Taken(t)' => Taken(t))
        BY <2>3, <2>4, <3>2 DEF Attempts, Taken, Live
      <4> QED BY <1>0, <2>3, <4>1, CountKept DEF EInv
    <3> QED BY <3>1, <3>2
  <2> QED BY <2>3, <2>5 DEF EInv, At
<1>4. ASSUME NEW w \in Workers, RunWorker(w) PROVE EInv'
  <2>0. PICK s \in Schedules : s = worker[w].id
    BY <1>0, <1>4, WorkerTable DEF LInv, IInv, WorkerAgrees
  <2>1. Live(w) /\ ~At(w, "giveup") /\ Taken(s)
    BY <1>0, <1>4, <2>0, WorkerTable DEF EInv, Taken
  <2>2. PICK step \in Step \ {"idle", "claim"} : Goto(w, step) /\ Way(w, step)
    BY <1>0, <1>4, WorkerTable
  <2>3. /\ worker'[w].pc = step
        /\ \A v \in Workers : worker'[v].id = worker[v].id /\ (v # w => worker'[v] = worker[v])
    BY <1>0, <2>2, WorkerMoves
  <2>4. \A t \in Schedules : Attempts(t)' = Attempts(t) /\ (Taken(t)' => Taken(t))
    BY <2>1, <2>3 DEF Attempts, Taken, Live
  <2>5. ASSUME NEW t \in Schedules, t # s PROVE AttemptsCounted(t)'
    <3>1. CASE rows'[t].status = rows[t].status /\ rows'[t].retry_count = rows[t].retry_count
      BY <1>0, <2>4, <3>1, CountKept DEF EInv
    <3>2. CASE rows'[t].status = "pending" /\ rows'[t].retry_count = 0 /\ rows[t].status = "absent"
      <4>1. ~Taken(t)
        BY <3>2 DEF LInv, IInv, WorkerAgrees, Claimed, Unclaimed, Taken
      <4> QED BY <1>0, <2>4, <3>2, <4>1 DEF AttemptsCounted
    <3> QED BY <1>0, <2>0, <2>2, <2>5, <3>1, <3>2
            DEF Way, RowsKept, updateScheduleStatus, incrementScheduleRetryCount, Create, NoRow
  <2>6. AttemptsCounted(s)'
    <3>1. rows[s].retry_count + 1 <= Cardinality(Attempts(s))
      BY <2>1 DEF EInv, AttemptsCounted
    <3>2. CASE step = "done" /\ incrementScheduleRetryCount(s)
      <4>1. ~Taken(s)'
        BY <2>0, <2>1, <2>3, <3>2 DEF Taken, Live, LInv, IInv, OneWorkerPerSchedule
      <4>2. rows'[s].retry_count = rows[s].retry_count + 1 /\ rows'[s].status = "pending"
        BY <1>0, <3>2 DEF incrementScheduleRetryCount, Row
      <4> QED BY <1>0, <2>4, <3>1, <4>1, <4>2 DEF AttemptsCounted
    <3>3. CASE ~(step = "done" /\ incrementScheduleRetryCount(s))
      <4>1. rows'[s].retry_count = rows[s].retry_count
        <5>1. rows[s].status # "absent"
          BY <2>0, <2>1 DEF LInv, IInv, WorkerAgrees, Claimed, Unclaimed
        <5> QED BY <1>0, <2>0, <2>2, <3>3, <5>1 DEF Way, RowsKept, updateScheduleStatus, Create, Row
      <4>2. rows'[s].status = "failed" => rows[s].retry_count = MaxRetries
        <5>1. rows[s].status = "failed" => rows[s].retry_count = MaxRetries
          BY DEF EInv, AttemptsCounted
        <5>2. ~RetriesLeft(w) => rows[s].retry_count = MaxRetries
          BY <1>0, <2>0, <2>1, ConstantsAssumption DEF RetriesLeft, LInv, IInv, WorkerAgrees, RetriesBounded
        <5> QED BY <1>0, <1>4, <2>0, <2>1, <5>1, <5>2, GivingUp
      <4> QED BY <1>0, <2>4, <3>1, <4>1, <4>2 DEF AttemptsCounted
    <3> QED BY <3>2, <3>3
  <2>7. step # "giveup"
    BY <1>0, <1>4, <2>0, <2>1, <2>2, GivingUp
  <2> QED BY <2>3, <2>5, <2>6, <2>7 DEF EInv, At
<1>5. CASE CrashRestart
  <2>1. UNCHANGED rows /\ \A w \in Workers : /\ ~Live(w)' /\ worker'[w].id = worker[w].id
                                            /\ worker'[w].pc = IF Live(w) THEN "done" ELSE worker[w].pc
    BY <1>0, <1>5 DEF CrashRestart, Live, TypeOK
  <2>2. \A t \in Schedules : Attempts(t)' = Attempts(t) /\ ~Taken(t)'
    BY <2>1 DEF Attempts, Taken
  <2>3. \A t \in Schedules : AttemptsCounted(t)'
    BY <1>0, <2>1, <2>2, CountKept DEF EInv
  <2> QED BY <2>1, <2>3 DEF EInv, At
<1> QED BY <1>1, <1>2, <1>3, <1>4, <1>5 DEF Next

\* Unless MySQL fails, a reservation is given up only after all its attempts: MaxRetries
\* retries and the first one, each by a goroutine of its own.
THEOREM GivenUpOnlyWhenExhausted ==
    ASSUME PromptClaims, IsFiniteSet(Workers)
    PROVE  Spec => []FailedMeansExhausted
<1>1. CASE "db" \in Faults
  <2>1. FailedMeansExhausted
    BY <1>1 DEF FailedMeansExhausted
  <2> QED BY <2>1, PTL
<1>2. CASE "db" \notin Faults
  <2>1. Init => LInv /\ EInv
    <3> SUFFICES ASSUME Init PROVE LInv /\ EInv
      OBVIOUS
    <3>1. LInv
      BY InitIInv DEF Init, LInv, Empty, NoRow
    <3>2. \A s \in Schedules : Attempts(s) = {} /\ ~Taken(s)
      BY ConstantsAssumption DEF Init, Attempts, Taken, Live
    <3>3. \A s \in Schedules : AttemptsCounted(s)
      <4>1. \A s \in Schedules : rows[s].status = "absent" /\ rows[s].retry_count = 0
        BY DEF Init, NoRow
      <4>2. Cardinality({}) = 0
        BY FS_EmptySet
      <4> QED BY <3>2, <4>1, <4>2 DEF AttemptsCounted
    <3> QED BY <3>1, <3>3 DEF Init, EInv, At
  <2>2. LInv /\ EInv /\ [Next]_vars => (LInv /\ EInv)'
    BY <1>2, LInvStep, EInvStep
  <2>3. LInv /\ EInv => FailedMeansExhausted
    <3> SUFFICES ASSUME LInv, EInv, NEW s \in Schedules, rows[s].status = "failed"
                 PROVE  rows[s].retry_count = MaxRetries /\ Cardinality(Attempts(s)) > MaxRetries
      BY DEF FailedMeansExhausted, Attempts
    <3>1. Cardinality(Attempts(s)) \in Nat
      BY FS_Subset, FS_CardinalityType DEF Attempts
    <3> QED BY <3>1, ConstantsAssumption DEF EInv, AttemptsCounted
  <2> QED BY <2>1, <2>2, <2>3, PTL DEF Spec
<1> QED BY <1>1, <1>2

=============================================================================
