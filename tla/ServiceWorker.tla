--------------------------- MODULE ServiceWorker ---------------------------
(***************************************************************************)
(* The service worker of the pages, web/static/sw.js: precaching at        *)
(* installation, removal of older caches at activation, the network-first  *)
(* answer of a request with its copy kept in the background, recordings    *)
(* saved for offline playback and served with byte ranges, and the         *)
(* messages of the pages.                                                  *)
(*                                                                         *)
(* A build is a version of sw.js with a CACHE_VERSION of its own.  A       *)
(* handler runs to its next promise in one step; every call of the cache   *)
(* storage is one step.  An opened cache that is deleted stays writable to *)
(* its holder and is invisible to everybody else: such a handle is None.   *)
(* Opening a cache and reading it, or keeping a copy in it, is one step: a *)
(* deletion in between acts as one right after.  Requests that the handler *)
(* passes through (other origins, /api/, methods other than GET) leave no  *)
(* trace and are not steps of the model.                                   *)
(***************************************************************************)
EXTENDS Naturals

CONSTANTS
    MaxBuild,         \* bound on the builds ever deployed
    Urls,             \* pages and files of the application
    Pages,            \* the Urls that are requested with Accept: text/html
    Resources,        \* the Urls of STATIC_CACHE_URLS besides the offline page
    OFFLINE_URL,
    Recordings,
    Fetches, Saves,   \* fetch, and offline saves, handled at the same time
    None,
    MaxTroubles,      \* bound: how often a worker is stopped or told to clear the caches
    Size,             \* bytes of a recording
    Offsets           \* the byte positions a range may name

Builds == 1..MaxBuild
STATIC_CACHE_URLS == Resources \cup {OFFLINE_URL}
CACHE_NAME(b) == <<"pages", b>>
RECORDING_CACHE_NAME(b) == <<"recordings", b>>
Names == {"pages", "recordings"} \X Builds
Playback == {"stream", "download"} \X (Recordings \cup {None})

\* Mutant of recordingCacheKey: the bare id.
BareId(url) == url[2]

\* The key of a recording: its stream URL, whichever of the two URLs is asked.
recordingCacheKey(url) == IF url[2] = None THEN None ELSE <<"stream", url[2]>>
Keys == Urls \cup ({"stream", "download"} \X Recordings)

ASSUME ServiceWorkerAssumption ==
    /\ MaxBuild \in Nat \ {0}
    /\ Pages \subseteq Urls
    /\ Resources \cup {OFFLINE_URL} \subseteq Urls
    /\ None \notin Nat
    /\ None \notin Recordings \cup Names
    /\ MaxTroubles \in Nat
    /\ Size \in Nat \ {0}
    /\ Offsets \subseteq Nat

VARIABLES
    deployed,   \* the build /sw.js serves
    state,      \* the life of the worker of each build
    opened,     \* builds holding their page cache open for precaching
    todo,       \* caches the activation of a build still has to delete
    caches,     \* the cache storage: the keys held under each name
    fetch,      \* requests the workers answer, and copies of answers still to be kept
    save,       \* CACHE_RECORDING messages under way
    clear,      \* the CLEAR_CACHE message under way
    troubles,   \* how often a worker was stopped or told to clear
    asked,      \* recordings whose button says that they are being saved
    lost,       \* history: those whose worker was stopped before it answered
    promised,   \* history: recordings the pages were told are saved
    precached,  \* history: builds whose precaching succeeded
    spoiled,    \* history: builds whose page cache somebody else deleted
    cut         \* history: builds stopped before their activation ended

worker == <<deployed, state, opened, todo>>
history == <<asked, lost, promised, precached, spoiled, cut>>
vars == <<worker, caches, fetch, save, clear, troubles, history>>

Life == {"none", "precaching", "installed", "activating", "cleaning", "active", "redundant"}
Running == {"activating", "cleaning", "active"}
Fetch == [pc : {"idle", "network", "keep", "match", "lookup", "pass"}, url : Keys \cup {None},
          worker : 0..MaxBuild]
Save == [pc : {"idle", "fetch", "put", "cached", "failed"}, rec : Recordings \cup {None},
         worker : 0..MaxBuild, cache : Names \cup {None}, overlapped : BOOLEAN]

TypeOK ==
    /\ deployed \in Builds
    /\ state \in [Builds -> Life]
    /\ opened \subseteq Builds
    /\ todo \in [Builds -> SUBSET Names]
    /\ DOMAIN caches \subseteq Names
    /\ \A n \in DOMAIN caches : caches[n] \subseteq Keys
    /\ fetch \in [Fetches -> Fetch]
    /\ save \in [Saves -> Save]
    /\ clear \in [worker : 0..MaxBuild, todo : SUBSET Names]
    /\ troubles \in 0..MaxTroubles
    /\ asked \subseteq Recordings /\ lost \subseteq Recordings /\ promised \subseteq Recordings
    /\ precached \subseteq Builds /\ spoiled \subseteq Builds /\ cut \subseteq Builds

NoFetch == [pc |-> "idle", url |-> None, worker |-> 0]
NoSave == [pc |-> "idle", rec |-> None, worker |-> 0, cache |-> None, overlapped |-> FALSE]
NoClear == [worker |-> 0, todo |-> {}]

Init ==
    /\ deployed = 1
    /\ state = [b \in Builds |-> "none"]
    /\ opened = {}
    /\ todo = [b \in Builds |-> {}]
    /\ caches = <<>>
    /\ fetch = [f \in Fetches |-> NoFetch]
    /\ save = [s \in Saves |-> NoSave]
    /\ clear = NoClear
    /\ troubles = 0
    /\ asked = {} /\ lost = {} /\ promised = {}
    /\ precached = {} /\ spoiled = {} /\ cut = {}

-----------------------------------------------------------------------------
(* The cache storage *)

Open(n) == [x \in DOMAIN caches \cup {n} |-> IF x \in DOMAIN caches THEN caches[x] ELSE {}]
Keep(n, keys) == [Open(n) EXCEPT ![n] = @ \cup keys]
Match(key) == \E n \in DOMAIN caches : key \in caches[n]

\* Deleting a cache detaches it from whoever holds it open.
Delete(n) ==
    /\ caches' = [x \in DOMAIN caches \ {n} |-> caches[x]]
    /\ opened' = {b \in opened : CACHE_NAME(b) # n}
    /\ save' = [s \in Saves |-> IF save[s].cache = n THEN [save[s] EXCEPT !.cache = None] ELSE save[s]]

-----------------------------------------------------------------------------
(* Installation and activation *)

\* A new build reaches the server.
Deploy ==
    /\ deployed < MaxBuild
    /\ deployed' = deployed + 1
    /\ UNCHANGED <<state, opened, todo, caches, fetch, save, clear, troubles, history>>

\* A page registers /sw.js; the registration installs one build at a time.  If caches.open is
\* rejected, which is not caught, the installation fails without a trace and the next page
\* that registers starts it again: that is no step.
Install(b) ==
    /\ b = deployed
    /\ state[b] = "none"
    /\ \A a \in Builds : state[a] # "precaching"
    /\ state' = [state EXCEPT ![b] = "precaching"]
    /\ caches' = Open(CACHE_NAME(b))
    /\ opened' = opened \cup {b}
    /\ UNCHANGED <<deployed, todo, fetch, save, clear, troubles, history>>

\* addAll keeps every resource or none.
AddAll(b) ==
    \/ /\ caches' = IF b \in opened THEN Keep(CACHE_NAME(b), STATIC_CACHE_URLS) ELSE caches
       /\ precached' = precached \cup {b}
    \/ UNCHANGED <<caches, precached>>

\* A failure of addAll is caught: the build is installed either way.
Installed(b) ==
    /\ state[b] = "precaching"
    /\ AddAll(b)
    /\ opened' = opened \ {b}
    /\ state' = [a \in Builds |-> IF a = b THEN "installed"
                                  ELSE IF state[a] = "installed" THEN "redundant" ELSE state[a]]
    /\ UNCHANGED <<deployed, todo, fetch, save, clear, troubles, asked, lost, promised, spoiled, cut>>

\* Events whose promise the worker still owes; copies being kept are not among them.
Pending(b) ==
    \/ \E f \in Fetches : fetch[f].worker = b /\ fetch[f].pc \notin {"idle", "keep"}
    \/ \E s \in Saves : save[s].worker = b /\ save[s].pc # "idle"
    \/ clear.worker = b

\* Mutant of Activate: without skipWaiting a build waits for its predecessor to go.
ActivateLast(b) ==
    /\ state[b] = "installed"
    /\ \A a \in Builds : state[a] \notin Running
    /\ state' = [state EXCEPT ![b] = "activating"]
    /\ UNCHANGED <<deployed, opened, todo, caches, fetch, save, clear, troubles, history>>

\* As skipWaiting was called, a build takes over once its predecessor owes nothing;
\* it serves recordings from a cache of its own.
Activate(b) ==
    /\ state[b] = "installed"
    /\ \A a \in Builds : state[a] \in Running => state[a] = "active" /\ ~Pending(a)
    /\ state' = [a \in Builds |-> IF a = b THEN "activating"
                                  ELSE IF state[a] = "active" THEN "redundant" ELSE state[a]]
    /\ fetch' = [f \in Fetches |-> NoFetch]
    /\ promised' = {}
    /\ UNCHANGED <<deployed, opened, todo, caches, save, clear, troubles,
                   asked, lost, precached, spoiled, cut>>

\* Mutants of Old: one of the two names is missing in the condition.
OldButRecordings(b) == {n \in DOMAIN caches : n # RECORDING_CACHE_NAME(b)}
OldButPages(b) == {n \in DOMAIN caches : n # CACHE_NAME(b)}

Old(b) == {n \in DOMAIN caches : n # CACHE_NAME(b) /\ n # RECORDING_CACHE_NAME(b)}

ListOld(b) ==
    /\ state[b] = "activating"
    /\ state' = [state EXCEPT ![b] = "cleaning"]
    /\ todo' = [todo EXCEPT ![b] = Old(b)]
    /\ UNCHANGED <<deployed, opened, caches, fetch, save, clear, troubles, history>>

DeleteOld(b, n) ==
    /\ state[b] = "cleaning"
    /\ n \in todo[b]
    /\ todo' = [todo EXCEPT ![b] = @ \ {n}]
    /\ Delete(n)
    /\ spoiled' = IF n[2] > b THEN spoiled \cup {n[2]} ELSE spoiled
    /\ UNCHANGED <<deployed, state, fetch, clear, troubles, asked, lost, promised, precached, cut>>

\* Mutant of Activated: the deletions are not waited for.
ActivatedEarly(b) ==
    /\ state[b] = "cleaning"
    /\ state' = [state EXCEPT ![b] = "active"]
    /\ UNCHANGED <<deployed, opened, todo, caches, fetch, save, clear, troubles, history>>

Activated(b) ==
    /\ state[b] = "cleaning"
    /\ todo[b] = {}
    /\ state' = [state EXCEPT ![b] = "active"]
    /\ UNCHANGED <<deployed, opened, todo, caches, fetch, save, clear, troubles, history>>

\* The browser stops a worker: an installation starts over, an activation counts
\* as done, and what the worker was doing is forgotten.
Stop(b) ==
    /\ troubles < MaxTroubles
    /\ troubles' = troubles + 1
    /\ state[b] \in Running \cup {"precaching"}
    /\ state' = [state EXCEPT ![b] = IF @ = "precaching" THEN "none" ELSE "active"]
    /\ cut' = IF state[b] \in {"activating", "cleaning"} THEN cut \cup {b} ELSE cut
    /\ opened' = opened \ {b}
    /\ todo' = [todo EXCEPT ![b] = {}]
    /\ fetch' = [f \in Fetches |-> IF fetch[f].worker = b THEN NoFetch ELSE fetch[f]]
    /\ lost' = lost \cup {save[s].rec : s \in {z \in Saves : save[z].worker = b /\ save[z].pc # "idle"}}
    /\ save' = [s \in Saves |-> IF save[s].worker = b THEN NoSave ELSE save[s]]
    /\ clear' = IF clear.worker = b THEN NoClear ELSE clear
    /\ UNCHANGED <<deployed, caches, asked, promised, precached, spoiled>>

-----------------------------------------------------------------------------
(* Requests *)

\* Requests wait until the worker is activated.
FetchEvent(f, b, url) ==
    /\ fetch[f].pc = "idle"
    /\ state[b] = "active"
    /\ fetch' = [fetch EXCEPT ![f] =
           IF url \in Urls THEN [pc |-> "network", url |-> url, worker |-> b]
           ELSE IF recordingCacheKey(url) = None THEN [pc |-> "pass", url |-> None, worker |-> b]
           ELSE [pc |-> "lookup", url |-> recordingCacheKey(url), worker |-> b]]
    /\ UNCHANGED <<worker, caches, save, clear, troubles, history>>

Answered(f) == fetch' = [fetch EXCEPT ![f] = NoFetch]

\* The network answers; the copy of a 200 is kept without the answer waiting for it.
NetworkAnswers(f) ==
    /\ fetch[f].pc = "network"
    /\ Answered(f) \/ fetch' = [fetch EXCEPT ![f].pc = "keep"]
    /\ UNCHANGED <<worker, caches, save, clear, troubles, history>>

\* Nobody waits for the copy either, which may be refused (a full disk).
KeepCopy(f) ==
    /\ fetch[f].pc = "keep"
    /\ caches' = Keep(CACHE_NAME(fetch[f].worker), {fetch[f].url}) \/ UNCHANGED caches
    /\ Answered(f)
    /\ UNCHANGED <<worker, save, clear, troubles, history>>

NetworkFails(f) ==
    /\ fetch[f].pc = "network"
    /\ fetch' = [fetch EXCEPT ![f].pc = "match"]
    /\ UNCHANGED <<worker, caches, save, clear, troubles, history>>

\* Without the network the answer is the copy in any cache, for a page the offline
\* page, which may be missing too, and otherwise 408.
Reply(url) ==
    IF Match(url) THEN "cached"
    ELSE IF url \notin Pages THEN "408"
    ELSE IF Match(OFFLINE_URL) THEN "offline"
    ELSE "nothing"

Fallback(f) ==
    /\ fetch[f].pc = "match"
    /\ Answered(f)
    /\ UNCHANGED <<worker, caches, save, clear, troubles, history>>

\* A saved recording is answered from the cache, which is created if need be.
recordingCacheResponse(f) ==
    LET n == RECORDING_CACHE_NAME(fetch[f].worker)
    IN  /\ fetch[f].pc = "lookup"
        /\ caches' = Open(n)
        /\ IF fetch[f].url \in caches'[n] THEN Answered(f)
           ELSE fetch' = [fetch EXCEPT ![f].pc = "pass", ![f].url = None]
        /\ UNCHANGED <<worker, save, clear, troubles, history>>

\* Any other is left to the network, whatever that answers.
PassOn(f) ==
    /\ fetch[f].pc = "pass"
    /\ Answered(f)
    /\ UNCHANGED <<worker, caches, save, clear, troubles, history>>

-----------------------------------------------------------------------------
(* Messages of the pages *)

\* CLEAR_CACHE: list the caches, delete them all, tell the pages.
ClearCache(b) ==
    /\ troubles < MaxTroubles
    /\ troubles' = troubles + 1
    /\ state[b] \in Running
    /\ clear.worker = 0
    /\ clear' = [worker |-> b, todo |-> DOMAIN caches]
    /\ promised' = {}
    /\ save' = [s \in Saves |-> [save[s] EXCEPT !.overlapped = save[s].pc # "idle"]]
    /\ UNCHANGED <<worker, caches, fetch, asked, lost, precached, spoiled, cut>>

DeleteAny(n) ==
    /\ n \in clear.todo
    /\ clear' = [clear EXCEPT !.todo = @ \ {n}]
    /\ Delete(n)
    /\ spoiled' = spoiled \cup {n[2]}
    /\ UNCHANGED <<deployed, state, todo, fetch, troubles, asked, lost, promised, precached, cut>>

Cleared ==
    /\ clear.worker # 0
    /\ clear.todo = {}
    /\ clear' = NoClear
    /\ UNCHANGED <<worker, caches, fetch, save, troubles, history>>

\* CACHE_RECORDING: the button of recording r.
CacheRecording(s, b, r) ==
    /\ save[s].pc = "idle"
    /\ state[b] \in Running
    /\ save' = [save EXCEPT ![s] = [pc |-> "fetch", rec |-> r, worker |-> b, cache |-> None,
                                    overlapped |-> clear.worker # 0]]
    /\ asked' = asked \cup {r}
    /\ lost' = lost \ {r}
    /\ UNCHANGED <<worker, caches, fetch, clear, troubles, promised, precached, spoiled, cut>>

\* The whole recording arrived: open the cache.
RecordingFetched(s) ==
    LET n == RECORDING_CACHE_NAME(save[s].worker)
    IN  /\ save[s].pc = "fetch"
        /\ caches' = Open(n)
        /\ save' = [save EXCEPT ![s].pc = "put", ![s].cache = n]
        /\ UNCHANGED <<worker, fetch, clear, troubles, history>>

RecordingPut(s) ==
    /\ save[s].pc = "put"
    /\ save' = [save EXCEPT ![s].pc = "cached"]
    /\ caches' = IF save[s].cache = None THEN caches
                 ELSE Keep(save[s].cache, {recordingCacheKey(<<"stream", save[s].rec>>)})
    /\ UNCHANGED <<worker, fetch, clear, troubles, history>>

\* No answer, a status that is not ok, or no room.
RecordingFailed(s) ==
    /\ save[s].pc \in {"fetch", "put"}
    /\ save' = [save EXCEPT ![s].pc = "failed"]
    /\ UNCHANGED <<worker, caches, fetch, clear, troubles, history>>

\* Mutant of Notify: the catch block only logs.
NotifySuccess(s) ==
    /\ save[s].pc \in {"cached", "failed"}
    /\ save' = [save EXCEPT ![s] = NoSave]
    /\ asked' = IF save[s].pc = "cached" THEN asked \ {save[s].rec} ELSE asked
    /\ UNCHANGED <<worker, caches, fetch, clear, troubles, lost, promised, precached, spoiled, cut>>

\* RECORDING_CACHED or RECORDING_CACHE_FAILED; the button is enabled again.
Notify(s) ==
    /\ save[s].pc \in {"cached", "failed"}
    /\ save' = [save EXCEPT ![s] = NoSave]
    /\ asked' = asked \ {save[s].rec}
    /\ promised' = IF save[s].pc = "cached" /\ ~save[s].overlapped
                   THEN promised \cup {save[s].rec} ELSE promised
    /\ UNCHANGED <<worker, caches, fetch, clear, troubles, lost, precached, spoiled, cut>>

-----------------------------------------------------------------------------
(* Byte ranges of a saved recording: the bytes from..upto-1, or 416 *)

Whole == [status |-> 200, from |-> 0, upto |-> Size]
Part(first, last) == [status |-> 206, from |-> first, upto |-> last + 1]
Unsatisfiable == [status |-> 416, from |-> 0, upto |-> 0]

\* Mutant of RangeReply: a first byte just past the end is let through.
RangeReplyPastEnd(first, last) ==
    LET start == IF first = None THEN 0 ELSE first
        end == IF last = None THEN Size - 1 ELSE last
    IN  IF start > Size \/ end >= Size THEN Unsatisfiable ELSE Part(start, end)

\* "Range: bytes=<first>-<last>", either of which may be absent.
RangeReply(first, last) ==
    LET start == IF first = None THEN 0 ELSE first
        end == IF last = None THEN Size - 1 ELSE last
    IN  IF start >= Size \/ end >= Size \/ start > end THEN Unsatisfiable ELSE Part(start, end)

\* What the server answers without the worker (http.ServeContent): a last byte
\* beyond the end is cut back to it, and "-n" asks for the last n bytes.
ServeContent(first, last) ==
    LET end == IF last = None \/ last >= Size THEN Size - 1 ELSE last
    IN  IF first = None
        THEN IF last = None THEN Unsatisfiable
             ELSE Part(IF last > Size THEN 0 ELSE Size - last, Size - 1)
        ELSE IF first >= Size \/ (last # None /\ first > last) THEN Unsatisfiable
        ELSE Part(first, end)

-----------------------------------------------------------------------------
FetchStep(f) == NetworkAnswers(f) \/ NetworkFails(f) \/ Fallback(f) \/ recordingCacheResponse(f) \/ PassOn(f)
SaveStep(s) == RecordingFetched(s) \/ RecordingPut(s) \/ RecordingFailed(s) \/ Notify(s)
ClearStep == Cleared \/ \E n \in Names : DeleteAny(n)
ActivateStep(b) == ListOld(b) \/ Activated(b) \/ \E n \in Names : DeleteOld(b, n)

Next ==
    \/ Deploy
    \/ \E b \in Builds : Install(b) \/ Installed(b) \/ Activate(b) \/ ActivateStep(b) \/ Stop(b)
    \/ \E f \in Fetches, b \in Builds, url \in Urls \cup Playback : FetchEvent(f, b, url)
    \/ \E f \in Fetches : FetchStep(f) \/ KeepCopy(f)
    \/ \E b \in Builds : ClearCache(b)
    \/ ClearStep
    \/ \E s \in Saves, b \in Builds, r \in Recordings : CacheRecording(s, b, r)
    \/ \E s \in Saves : SaveStep(s)

\* Pages keep registering the worker, the browser runs the handlers it started and
\* tries a waiting build whenever its predecessor falls idle.
Fairness ==
    /\ \A b \in Builds : /\ WF_vars(Install(b)) /\ WF_vars(Installed(b))
                         /\ SF_vars(Activate(b)) /\ WF_vars(ActivateStep(b))
    /\ \A f \in Fetches : WF_vars(FetchStep(f))
    /\ \A s \in Saves : WF_vars(SaveStep(s))
    /\ WF_vars(ClearStep)

Spec == Init /\ [][Next]_vars /\ Fairness

-----------------------------------------------------------------------------
(* Properties *)

\* A page requested without the network shows the offline page, unless the worker's
\* precaching failed (the failure is swallowed, sw.js:26) or its cache was deleted
\* under it, by CLEAR_CACHE or by an older build that activated meanwhile.
OfflinePageShown ==
    \A f \in Fetches :
        fetch[f].pc = "match" /\ fetch[f].worker \in precached \ spoiled => Reply(fetch[f].url) # "nothing"

\* A recording the pages were told is saved plays and downloads from the cache of the
\* worker in charge until CLEAR_CACHE or the next build; the promise of a save that
\* overlaps a CLEAR_CACHE may be empty.
PromisesKept ==
    \A r \in promised, path \in {"stream", "download"}, b \in Builds :
        state[b] \in Running =>
            /\ RECORDING_CACHE_NAME(b) \in DOMAIN caches
            /\ recordingCacheKey(<<path, r>>) \in caches[RECORDING_CACHE_NAME(b)]

\* Once a build is active no cache of an older build is left, and none comes back
\* with a late copy of the older build, unless the activation was cut short.
OldCachesGone ==
    \A b \in Builds \ cut : state[b] = "active" => \A n \in DOMAIN caches : n[2] >= b

\* A saved recording answers a range as the server would, if the range names its
\* first byte and no last byte beyond the end.  (Beyond the end the worker says 416
\* where the server cuts back, and it takes "-n" for the first n + 1 bytes.)
RangeLikeServer ==
    (\E r \in Recordings : Match(recordingCacheKey(<<"stream", r>>))) =>
        \A first \in Offsets, last \in Offsets \cup {None} :
            (last # None => last < Size) => RangeReply(first, last) = ServeContent(first, last)

\* The button of a recording is enabled again by one of the two messages, whatever
\* fails, unless the browser stops the worker.
SaveIsAnswered ==
    \A r \in Recordings : r \in asked ~> (r \notin asked \/ r \in lost)

\* The newest build takes over, if the worker in charge is idle again and again:
\* overlapping requests keep it waiting for as long as they overlap.
NewBuildTakesOver ==
    ([]<>(\A b \in Builds : ~Pending(b))) =>
        \A b \in Builds : deployed = b ~> (state[b] = "active" \/ deployed # b)

=============================================================================
