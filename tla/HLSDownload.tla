---------------------------- MODULE HLSDownload ----------------------------
(***************************************************************************)
(* One call of DownloadTimefree (pkg/radiko/hls.go): the playlists of the  *)
(* programme are read one after the other in chunks of 300 seconds, their  *)
(* segments are fetched by one goroutine each, at most MaxParallel at a    *)
(* time and with retries, then joined into the output file.                *)
(*                                                                         *)
(* Time is counted in units; a chunk, a day and a segment have constant    *)
(* lengths.  Segment k holds the audio of SegmentLength units from         *)
(* k * SegmentLength on, so the borders of the chunks cut through segments *)
(* and such a segment is listed twice.  Radiko is outside the program.     *)
(***************************************************************************)
EXTENDS Integers, FiniteSets, Sequences, SequencesExt

CONSTANTS
    Timestamps,       \* what callers pass as startTime and endTime: <<day, unit>>,
                      \* the unit past the end of the day for a late night programme
    DayLength,
    ChunkLength,      \* chunkSeconds
    SegmentLength,
    MaxDepth,         \* of nested playlists
    MaxParallel,      \* RECORDING_MAX_PARALLEL
    MaxAttempts,      \* segmentRetryAttempts
    Faults            \* "playlist", "temporary", "permanent", "cancel", "disk", "empty"

ASSUME ConstantsAssumption ==
    /\ Timestamps \subseteq Nat \X Nat
    /\ {DayLength, ChunkLength, SegmentLength, MaxParallel, MaxAttempts} \subseteq Nat \ {0}
    /\ MaxDepth \in Nat
    /\ Faults \subseteq {"playlist", "temporary", "permanent", "cancel", "disk", "empty"}

VARIABLES
    start, end,     \* of the programme, as given
    pc,             \* where the calling goroutine stands
    chunks,         \* the seek times whose playlists are still to be read
    walk,           \* the playlist being read: what it holds, what its parents list after it
    segmentURLs,    \* in the order found
    fetch,          \* the goroutines of the segments
    permits,        \* the semaphore
    err,            \* the first error of the group; it cancels gctx
    cancelled,      \* ctx, the caller's context
    file            \* the segments written; <<-1>> as long as there is no file

vars == <<start, end, pc, chunks, walk, segmentURLs, fetch, permits, err, cancelled, file>>

input == <<start, end>>
listing == <<chunks, walk, segmentURLs>>
group == <<fetch, permits, err>>

NoFile == <<-1>>

\* The hours past midnight belong to the next day.
normalizeRadikoTimestamp(t) == <<t[1] + t[2] \div DayLength, t[2] % DayLength>>

Instant(t) == DayLength * normalizeRadikoTimestamp(t)[1] + normalizeRadikoTimestamp(t)[2]

\* The segments that hold audio of the programme between two times, in order: what Radiko
\* lists for a seek time and a length.
SegmentsOf(from, to) ==
    LET first == from \div SegmentLength
        last == (to - 1) \div SegmentLength
    IN  [i \in 1..(last - first + 1) |-> first + i - 1]

Listed(seek) ==
    SegmentsOf(seek, IF seek + ChunkLength < Instant(end) THEN seek + ChunkLength ELSE Instant(end))

NoWalk == [depth |-> 0, found |-> <<>>, here |-> <<>>, after |-> <<>>]
NoFetch == [pc |-> "waiting", attempt |-> 0, data |-> "none"]

Steps == {"build", "playlists", "segments", "create", "write", "verify", "ok", "error"}
Segment == 0..Instant(end)
Errors == {"none", "temporary", "permanent", "cancelled"}

TypeOK ==
    /\ {start, end} \subseteq Timestamps
    /\ pc \in Steps
    /\ chunks \in Seq(Nat)
    /\ walk \in [depth : 0..(MaxDepth + 1), found : Seq(Segment), here : Seq(Segment), after : Seq(Segment)]
    /\ segmentURLs \in Seq(Segment)
    /\ fetch \in [DOMAIN fetch -> [pc : {"waiting", "fetching", "backoff", "done"},
                                   attempt : 0..MaxAttempts, data : {"none", "audio", "empty"}]]
    /\ permits \in 0..MaxParallel
    /\ err \in Errors
    /\ cancelled \in BOOLEAN
    /\ file = NoFile \/ file \in Seq(Segment)

Init ==
    /\ start \in Timestamps /\ end \in Timestamps
    /\ pc = "build"
    /\ chunks = <<>> /\ walk = NoWalk /\ segmentURLs = <<>>
    /\ fetch = <<>> /\ permits = MaxParallel /\ err = "none"
    /\ cancelled = FALSE
    /\ file = NoFile

-----------------------------------------------------------------------------
(* Playlists *)

Fails(kind) == kind \in Faults

ReturnError ==
    /\ pc' = "error"
    /\ UNCHANGED <<chunks, walk, segmentURLs>>

\* Mutant: the last, shorter chunk is left out.
SeeksWholeChunks ==
    LET from == Instant(start)
        n == (Instant(end) - from) \div ChunkLength
    IN  [i \in 1..(IF n = 0 THEN 1 ELSE n) |-> from + (i - 1) * ChunkLength]

\* for seek := start; seek.Before(end); seek = seek.Add(chunkSeconds)
Seeks ==
    LET from == Instant(start)
        n == (Instant(end) - from + ChunkLength - 1) \div ChunkLength
    IN  [i \in 1..n |-> from + (i - 1) * ChunkLength]

\* The stream info is fetched for the address of the playlists.
buildTimefreePlaylistURLs ==
    /\ pc = "build"
    /\ \/ /\ Instant(end) > Instant(start)
          /\ chunks' = Seeks
          /\ walk' = [NoWalk EXCEPT !.here = Listed(Head(Seeks))]
          /\ pc' = "playlists"
          /\ UNCHANGED segmentURLs
       \/ /\ Instant(end) <= Instant(start) \/ Fails("playlist") \/ cancelled
          /\ ReturnError
    /\ UNCHANGED <<input, group, cancelled, file>>

\* Each address once, in the order of its first appearance.
Merged(found) ==
    LET merged[n \in 0..Len(found)] ==
            IF n = 0 THEN segmentURLs
            ELSE IF Contains(merged[n - 1], found[n]) THEN merged[n - 1]
            ELSE Append(merged[n - 1], found[n])
    IN  merged[Len(found)]

\* A playlist that lists another one in its middle: the lines before it are kept, the nested
\* one is read, then the lines after it.
fetchNestedPlaylist ==
    /\ pc = "playlists"
    /\ walk.depth <= MaxDepth
    /\ \E i, j \in 0..Len(walk.here) :
        /\ i <= j
        /\ walk' = [depth |-> walk.depth + 1,
                    found |-> walk.found \o SubSeq(walk.here, 1, i),
                    here |-> SubSeq(walk.here, i + 1, j),
                    after |-> SubSeq(walk.here, j + 1, Len(walk.here)) \o walk.after]
    /\ UNCHANGED <<input, pc, chunks, segmentURLs, group, cancelled, file>>

\* A playlist of segments: with it the chunk is read, and the next one begins.
fetchSegmentURLs ==
    /\ pc = "playlists"
    /\ walk.depth <= MaxDepth
    /\ segmentURLs' = Merged(walk.found \o walk.here \o walk.after)
    /\ chunks' = Tail(chunks)
    /\ \/ /\ chunks' # <<>>
          /\ walk' = [NoWalk EXCEPT !.here = Listed(Head(chunks'))]
          /\ UNCHANGED <<pc, fetch>>
       \/ /\ chunks' = <<>> /\ segmentURLs' # <<>>
          /\ walk' = NoWalk
          /\ pc' = "segments"
          /\ fetch' = [i \in DOMAIN segmentURLs' |-> NoFetch]
    /\ UNCHANGED <<input, permits, err, cancelled, file>>

\* Nested too deep, the answer is an error, or no playlist listed a segment.
FailPlaylist ==
    /\ pc = "playlists"
    /\ walk.depth > MaxDepth \/ Fails("playlist") \/ cancelled
    /\ ReturnError
    /\ UNCHANGED <<input, group, cancelled, file>>

-----------------------------------------------------------------------------
(* The goroutines of the segments *)

gctxDone == cancelled \/ err # "none"

\* Only the first error of the group is kept.
End(i, e, data) ==
    /\ fetch' = [fetch EXCEPT ![i].pc = "done", ![i].data = data]
    /\ err' = IF err = "none" THEN e ELSE err

Acquire(i) ==
    /\ fetch[i].pc = "waiting" /\ permits > 0
    /\ fetch' = [fetch EXCEPT ![i].pc = "fetching", ![i].attempt = 1]
    /\ permits' = permits - 1
    /\ UNCHANGED <<input, pc, listing, err, cancelled, file>>

AcquireCancelled(i) ==
    /\ fetch[i].pc = "waiting" /\ gctxDone
    /\ End(i, "cancelled", "none")
    /\ UNCHANGED <<input, pc, listing, permits, cancelled, file>>

\* The deferred Release comes with every end of the fetch.
EndAndRelease(i, e, data) == End(i, e, data) /\ permits' = permits + 1

\* Mutant: the permit is given back on the way of an error only.
FetchKeepsPermit(i) ==
    /\ fetch[i].pc = "fetching"
    /\ End(i, "none", "audio")
    /\ UNCHANGED <<input, pc, listing, permits, cancelled, file>>

\* Status 200; whether the body holds anything is not looked at here.
FetchSucceeds(i) ==
    /\ fetch[i].pc = "fetching"
    /\ \E data \in {"audio"} \cup (IF Fails("empty") THEN {"empty"} ELSE {}) :
        EndAndRelease(i, "none", data)
    /\ UNCHANGED <<input, pc, listing, cancelled, file>>

\* 408, 429, 5xx or a network error: retried after a delay, MaxAttempts in all.
FetchFailsTemporarily(i) ==
    /\ fetch[i].pc = "fetching" /\ Fails("temporary")
    /\ \/ /\ fetch[i].attempt < MaxAttempts
          /\ fetch' = [fetch EXCEPT ![i].pc = "backoff"]
          /\ UNCHANGED <<permits, err>>
       \/ /\ fetch[i].attempt = MaxAttempts
          /\ EndAndRelease(i, "temporary", "none")
    /\ UNCHANGED <<input, pc, listing, cancelled, file>>

\* Another status, or a body that breaks off: not retried.
FetchFailsForGood(i) ==
    /\ fetch[i].pc = "fetching" /\ Fails("permanent")
    /\ EndAndRelease(i, "permanent", "none")
    /\ UNCHANGED <<input, pc, listing, cancelled, file>>

\* A request or a delay under a context that is done.
FetchCancelled(i) ==
    /\ fetch[i].pc \in {"fetching", "backoff"} /\ gctxDone
    /\ EndAndRelease(i, "cancelled", "none")
    /\ UNCHANGED <<input, pc, listing, cancelled, file>>

\* The timer may win against a context that is done.
RetryFetch(i) ==
    /\ fetch[i].pc = "backoff"
    /\ fetch' = [fetch EXCEPT ![i].pc = "fetching", ![i].attempt = @ + 1]
    /\ UNCHANGED <<input, pc, listing, permits, err, cancelled, file>>

RunFetch(i) ==
    \/ Acquire(i)
    \/ AcquireCancelled(i)
    \/ FetchSucceeds(i)
    \/ FetchFailsTemporarily(i)
    \/ FetchFailsForGood(i)
    \/ FetchCancelled(i)
    \/ RetryFetch(i)

-----------------------------------------------------------------------------
(* The end of the call *)

\* Mutants: a permit given back once more; the first error ends the wait.
WaitReleasing ==
    /\ pc = "segments"
    /\ \A i \in DOMAIN fetch : fetch[i].pc = "done"
    /\ pc' = IF err = "none" THEN "create" ELSE "error"
    /\ permits' = permits + 1
    /\ UNCHANGED <<input, listing, fetch, err, cancelled, file>>

WaitFirstError ==
    /\ pc = "segments"
    /\ err # "none" \/ \A i \in DOMAIN fetch : fetch[i].pc = "done"
    /\ pc' = IF err = "none" THEN "create" ELSE "error"
    /\ UNCHANGED <<input, listing, group, cancelled, file>>

\* g.Wait returns when every goroutine has ended.
WaitSegments ==
    /\ pc = "segments"
    /\ \A i \in DOMAIN fetch : fetch[i].pc = "done"
    /\ pc' = IF err = "none" THEN "create" ELSE "error"
    /\ UNCHANGED <<input, listing, group, cancelled, file>>

\* Mutant: a file that cannot be finished is taken as it is.
FailFileUnnoticed ==
    /\ pc \in {"create", "write", "verify"} /\ Fails("disk")
    /\ pc' = "verify"
    /\ UNCHANGED <<input, listing, group, cancelled, file>>

\* os.Create, Write, Close and Stat may fail; the file then stays as it is.
FailFile ==
    /\ pc \in {"create", "write", "verify"} /\ Fails("disk")
    /\ pc' = "error"
    /\ UNCHANGED <<input, listing, group, cancelled, file>>

CreateFile ==
    /\ pc = "create"
    /\ file' = <<>>
    /\ pc' = "write"
    /\ UNCHANGED <<input, listing, group, cancelled>>

WriteSegment ==
    /\ pc = "write"
    /\ file' = Append(file, segmentURLs[Len(file) + 1])
    /\ pc' = IF Len(file') = Len(segmentURLs) THEN "verify" ELSE "write"
    /\ UNCHANGED <<input, listing, group, cancelled>>

\* Every segment was fetched, and the file is not empty.
verifyDownloadedFile ==
    /\ pc = "verify"
    /\ pc' = IF \E i \in DOMAIN fetch : fetch[i].data = "audio" THEN "ok" ELSE "error"
    /\ UNCHANGED <<input, listing, group, cancelled, file>>

\* The process is shutting down; the context the scheduler passes on is done.
CancelContext ==
    /\ Fails("cancel") /\ ~cancelled
    /\ pc \notin {"ok", "error"}
    /\ cancelled' = TRUE
    /\ UNCHANGED <<input, pc, listing, group, file>>

RunCall ==
    \/ buildTimefreePlaylistURLs
    \/ fetchNestedPlaylist
    \/ fetchSegmentURLs
    \/ FailPlaylist
    \/ WaitSegments
    \/ CreateFile
    \/ WriteSegment
    \/ verifyDownloadedFile
    \/ FailFile

Next ==
    \/ RunCall
    \/ \E i \in DOMAIN fetch : RunFetch(i)
    \/ CancelContext

Spec == Init /\ [][Next]_vars

\* Goroutines run, requests and delays end.  Playlists may be nested at will: MaxDepth ends that.
Fairness ==
    /\ WF_vars(RunCall)
    /\ WF_vars(\E i \in DOMAIN fetch : RunFetch(i))

FairSpec == Spec /\ Fairness

-----------------------------------------------------------------------------
(* Properties *)

Returned == pc \in {"ok", "error"}

\* Once the segments are waited for, no goroutine is left that could send a request or
\* write a result, and none kept its permit.
NothingLeftRunning ==
    pc \notin {"build", "playlists", "segments"} =>
        permits = MaxParallel /\ \A i \in DOMAIN fetch : fetch[i].pc = "done"

\* Every call returns: no goroutine waits for a permit that does not come, and no chain of
\* playlists or retries goes on for ever.
DownloadEnds == <>Returned

Abstract == INSTANCE Download WITH
                result <- IF Returned THEN pc ELSE "running",
                output <- IF file = NoFile THEN "none"
                          ELSE IF file = SegmentsOf(Instant(start), Instant(end)) THEN "whole"
                          ELSE "partial"

\* The download keeps what the recorders assume of it.
ImplementsDownload == Abstract!Spec

=============================================================================
