-------------------------- MODULE ScheduleLifecycle --------------------------
(***************************************************************************)
(* What a reservation is promised, one row at a time: it is attempted by   *)
(* one recorder at a time, an attempt either ends it or puts it back with  *)
(* one retry used, there are at most MaxRetries of those, and nobody but   *)
(* the attempt in progress and the cancelling user writes its status.      *)
(*                                                                         *)
(* A row the attempt has not yet claimed may be cancelled and the claim    *)
(* overwrites it: that is what the code does.                              *)
(***************************************************************************)
EXTENDS Naturals

CONSTANTS Schedules, MaxRetries

VARIABLES
    status,     \* the status column
    retries,    \* retry_count
    attempt     \* "chosen" by a tick, "running", "closing" once the outcome was written

vars == <<status, retries, attempt>>

Init ==
    /\ status = [s \in Schedules |-> "absent"]
    /\ retries = [s \in Schedules |-> 0]
    /\ attempt = [s \in Schedules |-> "none"]

Create(s) ==
    /\ status[s] = "absent"
    /\ status' = [status EXCEPT ![s] = "pending"]
    /\ UNCHANGED <<retries, attempt>>

Cancel(s) ==
    /\ status[s] # "absent"
    /\ status' = [status EXCEPT ![s] = "cancelled"]
    /\ UNCHANGED <<retries, attempt>>

\* A tick takes up waiting rows, none of which is being attempted.
Choose ==
    /\ \E chosen \in SUBSET {s \in Schedules : status[s] = "pending" /\ attempt[s] = "none"} :
        attempt' = [s \in Schedules |-> IF s \in chosen THEN "chosen" ELSE attempt[s]]
    /\ UNCHANGED <<status, retries>>

Claim(s) ==
    /\ attempt[s] = "chosen"
    /\ attempt' = [attempt EXCEPT ![s] = "running"]
    /\ status' = [status EXCEPT ![s] = "recording"]
    /\ UNCHANGED retries

\* The claim fails, or the attempt ends after its outcome was written.
Leave(s) ==
    /\ attempt[s] \in {"chosen", "closing"}
    /\ attempt' = [attempt EXCEPT ![s] = "none"]
    /\ UNCHANGED <<status, retries>>

Requeue(s) ==
    /\ attempt[s] = "running" /\ retries[s] < MaxRetries
    /\ attempt' = [attempt EXCEPT ![s] = "none"]
    /\ status' = [status EXCEPT ![s] = "pending"]
    /\ retries' = [retries EXCEPT ![s] = @ + 1]

\* The outcome is written, or lost.
Close(s) ==
    /\ attempt[s] = "running"
    /\ attempt' = [attempt EXCEPT ![s] = "closing"]
    /\ \E outcome \in {"completed", "failed", status[s]} :
        status' = [status EXCEPT ![s] = outcome]
    /\ UNCHANGED retries

\* A recurring reservation ends by creating the row of its next week.
LeaveWithNext(s, next) ==
    /\ attempt[s] = "closing" /\ status[next] = "absent"
    /\ attempt' = [attempt EXCEPT ![s] = "none"]
    /\ status' = [status EXCEPT ![next] = "pending"]
    /\ UNCHANGED retries

Crash ==
    /\ attempt' = [s \in Schedules |-> "none"]
    /\ UNCHANGED <<status, retries>>

Next ==
    \/ \E s \in Schedules :
        \/ Create(s) \/ Cancel(s) \/ Claim(s) \/ Leave(s) \/ Requeue(s) \/ Close(s)
        \/ \E next \in Schedules : LeaveWithNext(s, next)
    \/ Choose
    \/ Crash

Spec == Init /\ [][Next]_vars

=============================================================================
