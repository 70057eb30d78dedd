# Verification of radio_review_go

TLA+ specifications, TLC runs and TLAPS proofs for this repository: a web
application that lists, reviews and records programmes of Radiko. One process
serves HTTP (`cmd/server/main.go`), runs the background jobs
(`internal/job/scheduler.go`) and records; MySQL and Redis hold what survives it,
the storage directory holds the audio. In each browser a service worker
(`web/static/sw.js`) stands between the pages and the server, keeps copies of
pages and recordings, and shows the messages the server pushes.

`PROJECT.json` lists, for every definition, the lines it models; the modules are
the specification, this file explains them.

## 1. Inventory

Every row of the tables is an entry of `components` in `PROJECT.json`.

| component | state it keeps | operations | what makes it correct |
|---|---|---|---|
| scheduled recordings (`job/scheduler.go`, `service/schedule.go`) | `recording_schedules` rows; one goroutine per attempt | reserve, cancel, minute tick, attempt, retry with backoff, next week's row | one attempt at a time; bounded retries; "completed" means there is audio; every reservation ends and its user hears of it once |
| time-free recordings (`handler/recording.go`, `recordingfile`, `recordingmeta`) | `recording_<id>` in Redis with a TTL, temporary, tagging and final files | start, goroutine, stop, delete, list, download, stream, feed | "completed" leads to a whole file; a stop or a deletion is not undone; nothing is left over |
| HLS downloader (`pkg/radiko/hls.go`) | a slice of results, a semaphore, an error group | list playlists in chunks, fetch segments in parallel with retries, join, verify | all segments in order or an error; never more requests than allowed; it ends |
| retention and sweepers (`job/scheduler.go`) | none of its own | delete by age in MySQL's days and by file age | a file in use is never removed; every file is removed in the end |
| recording notifications (`service/notification.go`) | `notifications` rows | create, list, mark one or all read | one notice per outcome |
| Web Push (`service/push.go`, push handlers of `sw.js`) | `push_subscriptions` rows; what the browser shows | subscribe, unsubscribe, send, drop dead endpoints, show, click | a live endpoint is never dropped; one device's failure does not cost another its message |
| service worker (`web/static/sw.js`) | a page cache and a recording cache per version of the script | install, activate, fetch, save a recording, serve byte ranges, clear | the offline page is there; what was reported as saved plays; old caches go; every save is answered |
| favourite notices (`job/scheduler.go:834`) | none of its own | five-minute window over favourites | each start is announced, and once |
| programme table (`job/scheduler.go:414`, `:501`) | `radio_programs` rows | daily upsert and deduplication | a programme keeps its row |
| Radiko authentication (`pkg/radiko/client.go`) | a token in Redis, 55 minutes | two-step exchange, cache | a token handed out was accepted by Radiko |
| posts and tags (`service/post.go`) | `posts`, `tags`, `post_tags` | create, update, delete, list | the tags of a post are what its last edit said |
| likes and comments (`service/post_interaction.go`) | rows and a counter beside them | like, unlike, comment, delete | the counter equals the rows |
| favourites (`service/favorite.go`) | `favorite_programs` | add, remove, record all | no duplicates |
| password reset (`service/password_reset.go`) | token rows with expiry | request, reset | a token works once, and only the newest |
| schema migration (`internal/migration`) | `schema_migrations`, the schema itself | baseline, skip, apply | each migration is applied once, whatever crashed |
| rate limiting (`middleware/rate_limit.go`) | a window per address under a mutex | allow | never more than the limit per window |
| caches of guide, search, recommendation | Redis keys with a TTL | fill, serve, clear | what is served is not older than the TTL |
| sessions and CSRF, start and shutdown, batch, metrics, mail, pages | see the notes in `PROJECT.json` | | |

### How they interact

* The HTTP handlers and the scheduler share MySQL and Redis and nothing in
  memory, except the rate limiter's map. Each statement or command is atomic by
  itself; hardly any two of them are in one transaction (posts with tags are).
* The scheduler reads due rows, copies each into a goroutine and goes on. The
  goroutine claims its row with an `UPDATE` by id that tests no status, so
  user, ticker and goroutines meet only in the `status` column.
* Recordings of both kinds call the HLS downloader, then `FinalizeAAC`, and write
  `RecordingInfo` back from a copy they loaded earlier. The player, the feed, the
  bulk recording and the sweepers read that key.
* Completion writes MySQL, Redis and a notification in three separate steps; the
  notification's goroutine then sends to each subscription of the user by way of
  the push service, which may refuse, delay or drop the message.
* Pages and worker exchange messages (`CACHE_RECORDING` and its two answers,
  `CLEAR_CACHE`). Two versions of the worker overlap while one takes over from
  the other, and both see all caches.

### What is hard here

Interleavings of goroutines with requests of the user between any two commands;
errors that are logged and dropped, so that a later step runs all the same;
copies of a row or key written back after it changed; a crash between two stores
that no job repairs; retries and timers; TTLs that run out under a running job; a
worker that the browser stops between two promises, or replaces while it saves;
times compared as strings over midnight.
`PROJECT.json`, `hazards`, lists them at their lines with the properties that
watch them.

## 2. Modules

| module | models | checked by |
|---|---|---|
| `ScheduleLifecycle` | what one reservation promises (abstract) | refined by `ScheduledRecording` |
| `ScheduledRecording` | scheduler, goroutines, MySQL row, Redis status, notification | `sched_*` |
| `ScheduledRecordingProofs` | theorems about it | tlapm |
| `ScheduleLifecycleProofs` | the refinement of `ScheduleLifecycle`, and giving up | tlapm |
| `RecordingStorage` | Redis key, files, goroutines of both kinds, Stop, Delete, TTL | `storage_*` |
| `RecordingStorageProofs` | theorems about it | tlapm |
| `Download` | what a download promises (abstract) | refined by `HLSDownload` |
| `HLSDownload` | playlists, parallel segments, retries, joining | `hls_download` |
| `HLSDownloadProofs` | theorems about it, the refinement of `Download` among them | tlapm |
| `Reviews` | posts, tags, likes, comments, counters, the programme table and its jobs | `reviews*` |
| `ReviewsProofs` | theorems about it | tlapm |
| `ServiceWorker` | `sw.js` but for push: versions, caches, requests, offline saves, ranges | `sw` |
| `ServiceWorkerProofs` | theorems about it | tlapm |
| `WebPush` | the notification's row, subscriptions, the sender, the push service, the push handlers of `sw.js` | `web_push` |
| `WebPushProofs` | theorems about it | tlapm |
| `FavoriteNotices` | favourites and the job that announces their broadcasts | `favorite_notices` |
| `FavoriteNoticesProofs` | theorems about it | tlapm |
| `MC*` | values for TLC | |

### ScheduledRecording

State: `rows` is the table (`status`, `retry_count`, `recurring`, `parent`,
`recording_id`); `due` and `waiting` stand for the two comparisons with the clock
in `FindPendingBefore` (start time reached; `next_retry_at` not reached), which the
actions `StartTimeArrives` and `BackoffElapses` flip. `batch` holds the rows the tick
selected and has not handed out. `worker[w]` is a goroutine: its place in
`startScheduledRecording` and its *copy* of the row (id and `retry_count`). `redis[w]`
is the status in its `RecordingInfo`, `files` the workers whose audio is in place,
`removed` those whose audio was there and is not any more,
`notified[w]` the notification it inserted. `dropped` is history: the workers that went on after an error
the code logs or ignores, or died before they had published. A worker runs once and its name is
the `recording_id`.

Actions: one per statement. `ClaimSchedule` is the `UPDATE ... 'recording'` at line
556 and overwrites whatever is there, a cancellation too. `PrepareRecording`,
`SaveInfo`, `setScheduleRecordingID`, `DownloadTimefree`, `FinalizeAAC`,
`CompleteSchedule`, `PublishInfo`, `notifyRecordingCompleted`,
`createNextRecurringSchedule` follow the function down; `QueueRetry`, `FailSchedule`,
`FailInfo`, `notifyRecordingFailed` are `handleScheduledRecordingFailure`. `CrashRestart`
kills the goroutines and leaves the tables. An error of a kind in `Faults` may hit
any step of that kind and goes where the code sends it (mostly: nowhere).

A scheduled recording belongs to a user who may stop or delete it, its key lives for a day, and the
sweepers take old files: `StopRecording`, `KeyGoes` and `FileGoes` (together `Touch`) do to key and
file what these handlers and jobs may do, at any time from the moment the key was saved and in any order.
`KeyGoes` and `FileGoes` are apart because each of their callers has two steps of which either may
fail. How a request holds a copy between its steps is in `RecordingStorage`.

`ScheduleLifecycle` sees only the row's status, the retry count and whether an attempt
exists, and says: attempts do not overlap, a status changes only by the attempt or
by Cancel, and the counter moves by one, up to the limit. `ImplementsLifecycle`
is the refinement mapping; the attempt is computed from `batch` and `worker`.

### RecordingStorage

State: `info` is the key (status and `FilePath`), `disk` the directory (a file is
absent, partial or whole), `task` the goroutines with their path, target and the
`RecordingInfo` they hold, `request` the Stop and Delete requests between their load
and their write. Two variables are history: `erased` says whose key a Delete has removed, `stuck` which
file's `os.Remove` has failed. A path is a
stem (the programme, or the short id that makes it unique) and a kind (`m4a`,
`temp`, `tagging`, `aac` with a number); a name is never spelled out.

Goroutines started by a user (`StartTimefree`) and by the scheduler differ after the
download: the first looks whether it was stopped, converts and stores its copy; the
second converts, may save a new `FilePath`, and updates the status by GET and SET.
Both are in `RunTask`. The conversion is three file operations, each a step with failures of its own:
`RemuxAAC` (ffmpeg writes the tagged file), `ReplaceFinal` (the rename), `RemoveTemp` (the
input goes, or after a failure the tagged file). Every `os.Remove`, also that of `UnlinkFile` at the end of a
deletion, is `RemoveFile`: it may fail, nobody looks at the error, and the goroutine or
request goes on as if the file were gone. Two goroutines that share a path share the temporary
file, and joining may then leave a partial file (`Shared`). `Expire` is the TTL.

### HLSDownload

State: `chunks` (the seek positions of the 300-second playlists still to be asked
for), `walk` (the playlist being read, with the nesting depth), `segmentURLs`,
`fetch[i]` (one goroutine per segment: its place and attempts), `permits` (the
semaphore), `err` (the first error of the group) and the output `file`. A time is an
integer; a chunk, a day and a segment have constant lengths, so that chunk borders
cut through segments and the end may be written as an hour past midnight. Radiko
is external: it answers a playlist with the segments that overlap what was asked, directly
or through nested playlists cut anywhere, and answers a segment with data, an empty body,
a temporary or a permanent error. A segment is its number, so that what is listed and merged are
intervals of numbers; `Merged` is a recursive function, the loop with its map of addresses seen.

`Download` is what the two recording modules assume of it: nothing, a partial file,
then a whole file or an error. `ImplementsDownload` discharges that assumption.

### Reviews

State: the tables `posts` (with the tags of each), `likes`, `comments`, `programs`, and
`request`, the handlers under way with the statement each is about to send and what it holds
(a snapshot's tags, a programme row). Creating and editing are transactions. InnoDB's
snapshot is taken by the first read, and the row lock of the first write makes the rest one
step, so each is two actions: `CreateReview` and `createPostInTx`, `Update` and `updatePostInTx`.
Likes and comments have one action per statement: the row, then the counter. `Fail` is an error or
the three-second limit of a handler, `CrashRestart` all of them at once. The two jobs of
05:00 run at any time; one row of the upsert is one action. A counter that drifts is
recorded in `drifted` with the step that made it drift; `lastEdit` and `mixed` are
history too.

### ServiceWorker

A *build* is a version of `sw.js` with its own `CACHE_VERSION`, hence its own two cache
names. State: `deployed` is the build the server hands out, `state[b]` the life of the worker
of build `b`, `opened` and `todo` what its install and activate handlers hold between two
promises, `caches` the keys under each name; `fetch`, `save`, `clear` are requests,
`CACHE_RECORDING` and `CLEAR_CACHE` messages under way. `asked` are the pages' disabled save
buttons. The rest is history for the properties.

A handler runs up to its next `await` in one step and each call of the cache storage is one
step. A deleted cache lives on, invisibly, for whoever opened it before: its handle becomes
`None`, and what is put there is lost (`RecordingPut`). `NetworkAnswers` replies and leaves
the copy to `KeepCopy`, which nobody waits for. `AddAll` may fail, and the build is
installed all the same (the `catch` in line 26 swallows the failure). `Activate` is the browser's:
`skipWaiting` was called, so the new build takes over when the old one owes no promise; the old
one's saves are over by then, copies being kept are dropped. `Stop` is the browser ending a worker
between any two steps. Lines 210-246, the push handlers, are in `WebPush`.

A range is a pair of byte positions, either of which may be absent. `RangeReply` is the
worker's arithmetic, `ServeContent` what Go's `http.ServeContent` answers to the same header.

### WebPush

State: `device` (an endpoint is unused, alive or gone, as the push service sees it),
`subscriptions` and `rows` (the two tables), `sender` (the goroutine of a recording that ended:
the endpoints it read and has not tried, and the one it is about to remove), `pushes` (messages at
the push service) and `shown` (on the screen). `FindByUser` takes the snapshot; `Accepted` or
`Refused` is the answer of one endpoint; `RemoveDead` is the DELETE after a 404 or 410, which
may be long after the answer; `TimedOut` is the deadline of ten seconds, shared by all
endpoints. The push service is external: it delivers once or lets the message expire.

### FavoriteNotices

`clock` counts minutes since a midnight; `served` is the last tick, `job` what the tick selected
and has not looked at. The start of a programme is a `label` that may exceed `DayLength`, because the
programme table writes one o'clock at night as `25:00` (`internal/handler/broadcast_test.go:364`,
`internal/service/radiko_test.go:37`), and `Starting` compares it with the two ends of the window as
the code compares `HHmm` strings. `Add` is the test for an existing favourite, `Create` the
INSERT with the unique key, which NULL weekdays evade. A statement of the job may fail
(`MayFail`); `skipped` records what that may have cost. `Restart` starts the ticker anew.

## 3. Runs

| run | instance | question |
|---|---|---|
| `sched_safety` | 1 reservation, 4 goroutines, 2 retries, a crash, MySQL, Redis and media faults, every recording touched | overlap, limits, agreement of row, key and file, cancellation, refinement |
| `sched_live` | 2 reservations, 4 goroutines, 1 retry, media faults, nothing touched, fairness | every reservation ends, is reported and continues weekly |
| `sched_cancel` | 1 reservation, no faults | violated: a cancellation is final |
| `storage_safety` | a user's and a scheduled recording, 2 requests, Redis and media faults, a crash, TTL | completed means playable; stops, deletions, what stays on disk |
| `storage_live` | the same without ffmpeg, 1 request, fairness | recordings leave "recording" |
| `storage_own_path` | two recordings of one programme | violated: a duplicate gets a path of its own |
| `hls_download` | up to 4 segments in 3 chunks, 2 permits, 3 attempts, nesting 2, every fault, fairness | all in order or an error, nothing left running, end, refinement |
| `reviews` | 2 requests, 2 users, a post, a comment, 2 tags with limit 1, 2 stations, failures | counters, tags, programmes, authors |
| `reviews_likes` | the same without failures | violated: the counter is the number of likes |
| `sw` | 2 builds, a page and the offline page, a recording, 1 request, 1 save, 1 stop or clear, 3 bytes, fairness | offline page, saved recordings, old caches, ranges, answers to saves, takeover |
| `web_push` | a user, 2 browsers, 2 notifications, 1 sender, a crash, fairness | only dead endpoints are dropped; every device is tried |
| `favorite_notices` | a day of 10 minutes, ticks every 3, starts at 3, 6, 8 and 12, 2 rows, 2 requests, 14 minutes, a failing tick, a restart | what is announced, what never, what twice |

Bounds, and why they are enough. The safety properties of scheduled recordings each speak of
one reservation, and reservations share nothing but the ticker and the ids of rows: so
`sched_safety` gives its faults, crash and touches to one, with the goroutines for a first attempt, two retries
and a superfluous one, and `sched_live` has two that run side by side, with goroutines for every attempt of
both, and the row of next week. Two retries have both sides of the limit and one between (the theorems cover every
limit, and any number of rows). One crash separates every pair of steps. A user's and a scheduled recording are the two
kinds of goroutine, and two requests give every pair of Stop and Delete on the same
recording. Four segments and two permits make goroutines wait while two are in
flight, and put segments on chunk borders. In `reviews` all counters and tags belong to one post and
are disturbed by two requests at a time at most (a third only repeats what one of them does);
`MaxLikes` and `MaxRows` stop the like counter, which drifts without end, and the ids of
the programme table. Symmetry is used in safety runs only; in those of scheduled recordings not at all, since
the next goroutine is chosen by `CHOOSE`.

In `sw` two builds are the old and the new one; a third would meet its predecessor in the same
states. One trouble is a `Stop` or a `CLEAR_CACHE` at every point of every
handler, with a request and a save under way beside it (the theorems cover any number). With three bytes and positions 0 to 4
a range begins or ends before, on and past the last byte. In `web_push` the second browser is
the one that must not suffer from the first one's refusal, and the second notification lets a sender
meet subscriptions an earlier one removed. In `favorite_notices` the starts are the end of
one window and beginning of the next (3, 6), one whose window wraps at midnight (8) and one
after midnight (12); 14 minutes let each be broadcast, and let the early one be so on the
next day.

Deadlock is checked in `sw` and `web_push`, whose systems never end. In the other
configurations it is off: each of those systems may run out of bounded ids or time, or simply
be finished; that nothing is stuck is what the liveness properties say.

### Violated on purpose

* `sched_cancel`: `Cancel` writes "cancelled" at any time, and the goroutine's own
  `UPDATE`s by id alone overwrite it; a reservation cancelled between the tick's SELECT
  and the claim is recorded. `CancelSticks` says what holds: a cancelled row nobody
  works on stays cancelled.
* `storage_own_path`: `NewPath` looks for a finished `.m4a` only. Two recordings of one
  programme, the first not yet finished, share temporary and final path.
* `reviews_likes`: `Unlike` lowers `likes_count` whether or not there was a like.

Seen on the way and not run: `GetProgramRating` counts with a filter `program_id` that
`buildPostFilterQuery` does not know, so its `count` is that of all posts.

### Exceptions the properties name

A property holds in every state it does not except, so each exception below is a behaviour of the
code that nothing here calls correct. Where it is the very case of a hazard, the hazard's note in
`PROJECT.json` says so and what is left covered.

`OneWorkerPerSchedule` and all that follows from it presuppose `PromptClaims` (section 4), the absence
of the race it is about: the ticker reads a row again before its goroutine has claimed it.

`RowMatchesRecording` is asked with every fault, a crash, and key and file touched at any time. It excepts two
things. A completed recording may have been stopped, deleted, expired or swept: then its key says so or
is gone, and its file may be. And the errors of `SaveInfo`, `setScheduleRecordingID`, `CompleteSchedule`,
`PublishInfo` and of the resaved path are dropped by the code, and a crash between file and key leaves a
recording that no row or key calls complete; this excuses the one attempt it happened to, for good, as nothing repairs it.
`OutcomeIsReported` is asked without such errors or crashes: a notification that was lost is not made up for.

`os.Remove` may fail in `FinalizeAAC` and in `DeleteRecording`, and its error is ignored: the
recording is "completed" with its download still there, the request answers "deleted" with the audio
still there. `NoTempLeft` and `DeleteLeavesNoFile` except a file whose own removal failed and no other.
The audio of a deleted recording has no key then, so the sweep of orphan files takes it after 25 hours; temporary
and tagging files it takes by the same rule.

A Stop or a Delete that arrives after the goroutine has looked is overwritten by it
(`StopSticks` ends at that look; `DeleteLeavesNoFile` begins when the goroutine has ended). A
Redis error or a crash may leave a key on "recording" until it expires (so `RecordingEnds`
is asked where neither happens). Without ffmpeg the scheduler saves a new `FilePath`, and a Stop that
read the old one puts it back (`CompletedIsServed`). Recordings of one programme are
excluded by `Alone`, being the subject of `storage_own_path`. A counter may drift for the four
causes `CountersTrue` names, the unlike without a like and the two deletions of one comment among them; two edits of
one post that overlap leave the tags of both (`TagsAreTheLastEdit` resumes with the next edit that is alone).

The cache of recordings carries the version of the script in its name, so an upgrade deletes what
the page had called saved (`web/templates/recording/history.html:276`); `PromisesKept` therefore
ends a promise with the next build, and with `CLEAR_CACHE`, and a save that overlaps a
clearing may report success with nothing kept. `OfflinePageShown` excludes a failed precaching and
a page cache deleted by `CLEAR_CACHE` or by an older build that activated late. The worker
answers 416 to a last byte beyond the end, where the server cuts back, and takes `bytes=-n`
for the first n+1 bytes, where the server sends the last n (`RangeLikeServer` leaves both out).
`NewBuildTakesOver` presupposes that the old worker is idle again and again.

An endpoint that the push service has once called gone (404, 410) stays gone, which is what the sender's DELETE takes for
granted; `OnlyDeadEndpointsDropped` therefore says that no other refusal costs a subscription, not that a
subscription cannot come back. An endpoint that hangs uses up the ten seconds of all, and those after it
count as missed (`EveryDeviceIsTried`).

A programme labelled 24:00 or later is never announced; nor is, reliably, one that starts in
the last five minutes before midnight, where the window ends at a smaller string than it begins.
The job looks at neither weekday nor date, so a favourite is announced every day. The first tick
comes five minutes after the start of the process, and a failed statement is not made up
for (`StartsAnnounced`). A start in the minute of a tick is announced by two ticks, and two requests without a
weekday may add a favourite twice (`AnnouncedOnce`).

### Details abstracted

On a duplicate `Reviews.Upsert` rewrites nothing that is modelled: the cast is part of the key, the rest
is text. The second look-up of `UpsertTx`, for when MySQL names no id
(`internal/repository/radio_program.go:266-276`), gives the row of that key or fails the transaction, as any
statement may. `ServiceWorker.Install` does not tell apart an installation that `caches.open` refused, which leaves
no cache and is tried again at the next load, from one not begun. In `FavoriteNotices` a programme
keeps its label: the job that rewrites the starts runs at five, between two broadcasting days.

## 4. Fairness

Safety runs assume none. `FairSpec` adds weak fairness for each goroutine, for the loop that
hands out rows, for the ticker and for the clock: the Go scheduler runs every runnable
goroutine, `cron` ticks, and time passes. That each remote call ends is owed by the
environment: the HTTP clients set no timeout. In `ServiceWorker` the browser runs the
handlers it started (weak fairness), pages register the script at every load (weak fairness of
`Install`), and a waiting build is tried whenever its predecessor falls idle, which may be
for moments only (strong fairness of `Activate`); `KeepCopy`, `Stop` and the pages' messages have none. In
`WebPush` the sender runs on, each request being bounded by the ten seconds, and the push service
delivers a message or drops it when its TTL is over. `FavoriteNotices` has safety only: its
ticks are tied to the clock by the guard of `Minute`. No fairness is assumed for users, for
errors, or for the TTL. `PromptClaims` says that a goroutine executes its first UPDATE
within the minute until the next tick; nothing in the code enforces it, and
`OneWorkerPerSchedule` depends on it.

## 5. Proofs

Every invariant and every action property of the passing runs is a theorem, and so are
both refinements; each holds for every value of the constants that satisfies the module's
assumption, which TLC evaluates in each run. A theorem is proved from an inductive invariant, one step
of the proof per action and below it one per conjunct that the action disturbs.

| module | theorem | property | beyond the module's assumption |
|---|---|---|---|
| `ScheduledRecordingProofs` | `TypeCorrect` | `TypeOK` | |
| | `NeverRecordedTwiceAtOnce` | `OneWorkerPerSchedule` | `PromptClaims` |
| | `RetryLimitHolds` | `RetriesBounded` | `PromptClaims` |
| | `CancellationSticks` | `CancelSticks` | |
| | `RecordedOnce` | `OneRecordingPerSchedule` | `PromptClaims` |
| | `RowsMatchRecordings` | `RowMatchesRecording` | `PromptClaims` |
| `ScheduleLifecycleProofs` | `LifecycleImplemented` | `ImplementsLifecycle` | `PromptClaims` |
| | `GivenUpOnlyWhenExhausted` | `FailedMeansExhausted` | `PromptClaims`, finitely many goroutines |
| `RecordingStorageProofs` | `StorageTypeCorrect` | `TypeOK` | |
| | `CompletedServed` | `CompletedIsServed` | |
| | `NoTemporaryFiles` | `NoTempLeft` | |
| | `DeletionComplete` | `DeleteLeavesNoFile` | |
| | `StopHolds` | `StopSticks` | |
| `HLSDownloadProofs` | `DownloadTypeCorrect` | `TypeOK` | |
| | `AllFetchesEnded` | `NothingLeftRunning` | |
| | `DownloadImplemented` | `ImplementsDownload` | |
| `ReviewsProofs` | `ReviewsTypeCorrect` | `TypeOK` | |
| | `OnlyAuthors` | `OnlyAuthorsChange` | |
| | `TagsAreLastEdit` | `TagsAreTheLastEdit` | |
| | `ProgrammesStay` | `ProgrammeOfPost` | |
| | `CountersHold` | `CountersTrue` | |
| `ServiceWorkerProofs` | `ServiceWorkerTypeCorrect` | `TypeOK` | |
| | `NoOldCaches` | `OldCachesGone` | |
| | `SavedRecordingsPlay` | `PromisesKept` | |
| | `OfflinePageIsThere` | `OfflinePageShown` | |
| | `RangesAreServed` | `RangeLikeServer` | |
| `WebPushProofs` | `WebPushTypeCorrect` | `TypeOK` | |
| | `OnlyDeadAreDropped` | `OnlyDeadEndpointsDropped` | |
| `FavoriteNoticesProofs` | `NoticesTypeCorrect` | `TypeOK` | |
| | `NoSecondNotice` | `AnnouncedOnce` | |
| | `BroadcastAnnounced` | `StartsAnnounced` | |

`PromptClaims` is the only hypothesis about the environment (section 4). Without it a row can
be handed out twice, and whatever presupposes one goroutine per row falls with it;
`CancelSticks` does not. The goroutines of `GivenUpOnlyWhenExhausted` are counted, hence
finite: `Workers` is the bound on the attempts, one goroutine each. The exceptions a property
names (section 3) are part of what is proved; so `CompletedServed`, `NoTemporaryFiles` and
`DeletionComplete` speak of recordings that do not share their programme.

### Scheduled recordings

`OneWorkerPerSchedule` is not inductive: to keep a tick from selecting the row of a running
goroutine one must know what that row says. `IInv` therefore adds: the row of a goroutine
that has not claimed it says "pending" or "cancelled", after the claim it never says
"pending" again while the goroutine lives; the rows in `batch` are unclaimed and have no
goroutine; and the copy of `retry_count` each of them holds still equals the row's,
which bounds the counter although the limit is tested on the copy.

The other theorems build on it. `WorkerTable` reduces the fourteen actions of a goroutine to seven
ways in which its place and its row change (`Way`). `FInv` says that whoever
finished a file has its row to itself for good (`FileAgrees`), so there is no second file.
`PInv` follows the goroutine down its program (`Ready`: what it has done by each place unless it dropped an
error), says of a completed row where its `recording_id` leads (`Leads`) and of a finished recording what its row
says (`Told`), and survives every fault, crash and touch. For the refinement `AttemptFacts` shows that the abstract attempt is that of the one
goroutine or else of the batch, and each action becomes a step of the life cycle or a
stutter. `EInv` counts the goroutines a row has used, at least one for each retry.

### Recordings in Redis and on disk

A key that says "completed" proves nothing by itself: stale copies of it are held by a goroutine and by
Stop and Delete requests and written back later. So `Sound` speaks of every
copy (`Copies`, `CopySound`): its path is the goroutine's path, or its target once converted, and
"completed" is only in a copy made after the conversion left a whole file and a
temporary one at most if its removal had failed (`Finished`, `Kept`). `WorkSound` says what each step of the
conversion finds on disk, `TaggedSound` that a tagged file lies there only between ffmpeg and the
end of the conversion or because it could not be removed, `EraseSound` that a deletion still under way
and a failed removal are the only reasons for the file of a deleted
recording to be there. `Fallbacks` is a pigeonhole: each numbered name that is taken belongs to
another recording, so that of one name more than there are recordings one is free.

### The downloader

Segments are numbers, and all that is listed, merged or written is a *run* of
consecutive ones. `Listing` says which: what has been merged reaches from the programme's start to
the chunk being read, and the parts of a nested playlist make up what that chunk lists (`ReadUpTo`).
`SeeksCover` shows that the chunks leave no gap, `MergedRuns` that merging a run into one it
touches or overlaps gives one run, each segment once, and `WalkSplit` that cutting a playlist at any two
places loses nothing. From the last chunk on the list is the whole programme (`ReadAll`), and `Filed`
adds that the file is a beginning of it. `Permitted` counts: free permits and
goroutines that hold one are `MaxParallel` together, which gives `NothingLeftRunning` and the
type of `permits`. `Merged` is evaluated by its own equation: `MergesOnce` shows by
well-foundedness that it has one solution, `MergedRuns` names it.

### Posts, tags, likes and comments

A type is only inductive together with what the place of a request says about the request:
`Sound` adds that one under way has a user, that one at work on a post or comment names one that
exists or did, and that a comment about to be erased, if it is still there, belongs to the post
whose counter will be moved. `OnlyAuthors` rests on `AuthorsSound`: the author compared
in one statement is still the author in the later one that writes, since a row is never
handed out twice and never changes its user (`PostsEvolve`, `CommentsEvolve`).
`TagsAreLastEdit` rests on `EditsSound`: an edit that no other has overtaken still holds the tags
the post has, so that detaching what it read and attaching what it was given leaves the latter.
`ProgrammesStay` rests on `Named`: an id that a request looked up may vanish with its row
but is not given to another programme, and a title keeps a row. `CountersHold` is the equation
`Balanced` of a post whose counter has not drifted: counter and updates owed upwards equal rows and
updates owed downwards. A request changes at most one of each at a time (`Shift`), whatever the other requests
are at.

### Service worker

The inductive invariant `Sound` says what the overlap of builds leaves possible. `Ordered`: at most one
worker is in charge, and none newer than it runs. `Attended`: what a worker owes belongs
to the one in charge. `CleaningSound`: a name older than the activating build is still on
its list or gone. This carries `OldCachesGone`, because the only writers are the worker in
charge, whose names are its own, and an installation, whose build is newer. `HoldsSound`: the
handle of a save is attached to the cache of its worker unless it overlapped a clearing; so a
`put` lands where the promise says. `PrecacheSound`: the page cache of a precached build
keeps the offline page unless somebody deleted it. `RangesAreServed` follows from the arithmetic alone.

### Web Push and favourite notices

The snapshot a sender works from may be old when it deletes; `SenderSound` adds that the endpoint
about to be removed was found gone, and no endpoint comes back from that.

`Ticking` places the ticks an interval apart, counted from the start of the process.
`Announced` says that notifications of one tick are of rows selected together, and that
the ticks of two notifications are an interval apart: two windows that hold
the same start then share their border. `Heard` says of every favourite and every
minute, once favourite and process are five minutes old, that a tick no more than an interval before looked at
the favourite. The lemmas of the first section are the arithmetic of the time of day.

### Only model-checked

The liveness properties: `EveryScheduleSettles`, `RecurringContinues`, `OutcomeIsReported`,
`RecordingEnds`, `DownloadEnds`, `SaveIsAnswered`, `NewBuildTakesOver`, `EveryDeviceIsTried`. They
need fairness, hence ENABLED, which tlapm 1.4.5 does not reason about. Likewise the three
violations: they are counterexamples.

## 6. Not modelled, and the plan

Left out for good: templates, styles, mail text, metrics and routing (no state others
read back); session cookies and CSRF tokens (single comparisons on state of the client).

The bundles under `web/static` (`app*.js`, `react-vendor*.js`, `bootstrap*.js`) are minified
build output whose sources are not in the repository.

Still to come, in this order:

1. `Accounts`: password reset (DELETE, INSERT, lookup, expiry, reuse) and the rate limiter
   on one clock.
2. `GuideCaches`: the Radiko token, guide, search and recommendation caches with TTL.
3. `RecordingRetention`: a clock in hours over `RecordingStorage`'s files: TTL of two hours and of
   a day, sweep after 25 hours, retention in days (`ScheduledRecording` has what they do, not when).
4. `Migration`: baseline, skip tests and statement-wise commits under a crash.
5. The bulk recording of favourites, whose test for a running recording precedes its start
   (`internal/handler/favorite.go:307`).

Proofs to come are those of these modules. For the existing ones it is worth proving where each
exception of a property is needed: that `OneWorkerPerSchedule` without `PromptClaims`
still bounds the goroutines of a row by the ticks that selected it, and the safety parts of the
liveness properties, such as that a due row is selected by the next tick.
