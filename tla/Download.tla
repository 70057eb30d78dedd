------------------------------ MODULE Download ------------------------------
(***************************************************************************)
(* What the recorders assume of DownloadTimefree (ScheduledRecording,      *)
(* RecordingStorage): nothing, then a partial file, then the whole         *)
(* programme and only then success; an error at any time, with whatever is *)
(* on disk by then.                                                        *)
(***************************************************************************)

VARIABLES
    result,    \* "running", or what the caller got: "ok" or "error"
    output     \* the file at outputPath: "none", "partial" or "whole"

Init == result = "running" /\ output = "none"

Create ==
    /\ result = "running" /\ output = "none"
    /\ output' = "partial"
    /\ UNCHANGED result

Join ==
    /\ result = "running" /\ output = "partial"
    /\ output' = "whole"
    /\ UNCHANGED result

Succeed ==
    /\ result = "running" /\ output = "whole"
    /\ result' = "ok"
    /\ UNCHANGED output

Fail ==
    /\ result = "running"
    /\ result' = "error"
    /\ UNCHANGED output

Next == Create \/ Join \/ Succeed \/ Fail

Spec == Init /\ [][Next]_<<result, output>>

=============================================================================
