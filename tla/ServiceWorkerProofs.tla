------------------------ MODULE ServiceWorkerProofs ------------------------
(***************************************************************************)
(* Proofs about ServiceWorker, for every number of builds, pages,          *)
(* recordings, requests, saves, stops and clearings.                       *)
(***************************************************************************)
EXTENDS ServiceWorker, TLAPS

(* The inductive invariant.  What a cache holds depends on who may still     *)
(* write to it, and that on the life of the builds: one build is in charge,  *)
(* those being installed are newer, and what is under way belongs to the     *)
(* build in charge.                                                          *)

Installing == {"precaching", "installed"}

\* One build is in charge, one installed, one precaching, and they are newer in this order.
Ordered ==
    /\ \A b \in Builds : state[b] # "none" => b <= deployed
    /\ \A a, b \in Builds :
        /\ state[a] \in Running /\ state[b] \in Running => a = b
        /\ state[a] \in Running /\ state[b] \in Installing => a < b
        /\ state[a] = "installed" /\ state[b] = "installed" => a = b
        /\ state[a] # "none" /\ state[b] = "precaching" => a <= b

\* What is under way belongs to the build in charge, and a clearing leaves no promise.
FetchSound(f) ==
    /\ fetch[f].pc # "idle" => fetch[f].worker \in Builds /\ state[fetch[f].worker] = "active"
    /\ fetch[f].pc \in {"network", "keep", "match"} => fetch[f].url \in Urls

SaveSound(s) ==
    save[s].pc # "idle" =>
        /\ save[s].worker \in Builds /\ state[save[s].worker] \in Running
        /\ save[s].rec \in Recordings
        /\ save[s].cache \in {None, RECORDING_CACHE_NAME(save[s].worker)}

ClearSound ==
    /\ clear.worker = 0 => clear.todo = {}
    /\ clear.worker # 0 =>
        /\ state[clear.worker] \in Running
        /\ promised = {}
        /\ \A s \in Saves : save[s].pc # "idle" => save[s].overlapped

Attended == (\A f \in Fetches : FetchSound(f)) /\ (\A s \in Saves : SaveSound(s)) /\ ClearSound

\* An activation has listed every older cache, and none of its own.
CleaningSound ==
    \A b \in Builds :
        /\ todo[b] # {} => state[b] = "cleaning"
        /\ CACHE_NAME(b) \notin todo[b] /\ RECORDING_CACHE_NAME(b) \notin todo[b]
        /\ state[b] = "cleaning" => \A n \in DOMAIN caches : n[2] < b => n \in todo[b]

Held(b, r) ==
    /\ RECORDING_CACHE_NAME(b) \in DOMAIN caches
    /\ <<"stream", r>> \in caches[RECORDING_CACHE_NAME(b)]

\* A save that no clearing overlapped still has its cache, and what it put there.
HoldSound(s) ==
    ~save[s].overlapped =>
        /\ save[s].pc = "put" => save[s].cache # None
        /\ save[s].pc = "cached" => Held(save[s].worker, save[s].rec)

PromiseSound(b) == state[b] \in Running => \A r \in promised : Held(b, r)

HoldsSound == (\A s \in Saves : HoldSound(s)) /\ (\A b \in Builds : PromiseSound(b))

\* The offline page is in the cache of a build whose precaching nobody spoiled.
PrecacheSound ==
    /\ \A b \in Builds : state[b] \in {"none", "precaching"} => b \notin precached
    /\ \A b \in Builds \ spoiled :
        /\ state[b] = "precaching" => b \in opened
        /\ b \in precached /\ state[b] \in {"installed"} \cup Running =>
               CACHE_NAME(b) \in DOMAIN caches /\ OFFLINE_URL \in caches[CACHE_NAME(b)]

Sound ==
    /\ TypeOK /\ Ordered /\ Attended /\ CleaningSound /\ OldCachesGone /\ HoldsSound /\ PrecacheSound

-----------------------------------------------------------------------------
(* Names, keys and the cache storage *)

\* The names of a build's caches are its own.
LEMMA CacheNames ==
    /\ \A b \in Builds : /\ CACHE_NAME(b) \in Names /\ CACHE_NAME(b)[2] = b
                         /\ RECORDING_CACHE_NAME(b) \in Names /\ RECORDING_CACHE_NAME(b)[2] = b
    /\ \A a, b \in Builds : /\ CACHE_NAME(a) # RECORDING_CACHE_NAME(b)
                            /\ CACHE_NAME(a) = CACHE_NAME(b) => a = b
                            /\ RECORDING_CACHE_NAME(a) = RECORDING_CACHE_NAME(b) => a = b
    /\ \A n \in Names : n[2] \in Builds /\ n # None
BY ServiceWorkerAssumption DEF CACHE_NAME, RECORDING_CACHE_NAME, Names

\* Both URLs of a recording have the key of its stream.
LEMMA RecordingKey ==
    \A r \in Recordings, path \in {"stream", "download"} :
        recordingCacheKey(<<path, r>>) = <<"stream", r>> /\ <<"stream", r>> \in Keys
BY ServiceWorkerAssumption DEF recordingCacheKey, Keys

\* The caches grow at most by the name n.
Grown(n) ==
    /\ DOMAIN caches \subseteq DOMAIN caches'
    /\ DOMAIN caches' \subseteq DOMAIN caches \cup {n}
    /\ \A x \in DOMAIN caches : caches[x] \subseteq caches'[x]

CachesType == DOMAIN caches \subseteq Names /\ \A n \in DOMAIN caches : caches[n] \subseteq Keys

\* Opening a cache adds its name at most.
LEMMA OpenGrows ==
    ASSUME CachesType, NEW n \in Names, caches' = Open(n)
    PROVE  Grown(n) /\ CachesType' /\ n \in DOMAIN caches'
BY DEF Open, Grown, CachesType

\* Keeping something in a cache takes nothing away.
LEMMA KeepGrows ==
    ASSUME CachesType, NEW n \in Names, NEW keys \in SUBSET Keys, caches' = Keep(n, keys)
    PROVE  Grown(n) /\ CachesType' /\ n \in DOMAIN caches' /\ keys \subseteq caches'[n]
<1>1. /\ DOMAIN Open(n) = DOMAIN caches \cup {n}
      /\ \A x \in DOMAIN caches : Open(n)[x] = caches[x]
      /\ \A x \in DOMAIN Open(n) : Open(n)[x] \subseteq Keys
  BY DEF Open, CachesType
<1>2. /\ DOMAIN caches' = DOMAIN Open(n)
      /\ \A x \in DOMAIN Open(n) : caches'[x] = IF x = n THEN Open(n)[n] \cup keys ELSE Open(n)[x]
  BY <1>1 DEF Keep, Open
<1> QED BY <1>1, <1>2 DEF Grown, CachesType

\* A deletion takes one name and nothing else.
LEMMA DeleteShrinks ==
    ASSUME CachesType, NEW n, Delete(n)
    PROVE  /\ DOMAIN caches' = DOMAIN caches \ {n}
           /\ \A x \in DOMAIN caches' : caches'[x] = caches[x]
           /\ CachesType'
BY DEF Delete, CachesType

\* To a save, a deletion means no more than the loss of its handle.
LEMMA DeleteSaves ==
    ASSUME save \in [Saves -> Save], NEW n \in Names, Delete(n)
    PROVE  /\ save' \in [Saves -> Save]
           /\ \A s \in Saves : /\ save'[s].pc = save[s].pc /\ save'[s].rec = save[s].rec
                               /\ save'[s].worker = save[s].worker /\ save'[s].overlapped = save[s].overlapped
                               /\ save'[s].cache = IF save[s].cache = n THEN None ELSE save[s].cache
BY DEF Delete, Save

-----------------------------------------------------------------------------
\* At the start nothing is installed and nothing is cached.
LEMMA InitSound == Init => Sound
<1> SUFFICES ASSUME Init PROVE Sound
  OBVIOUS
<1>1. DOMAIN caches = {}
  BY DEF Init
<1>2. TypeOK
  BY <1>1, ServiceWorkerAssumption DEF Init, TypeOK, Builds, Life, Fetch, Save, NoFetch, NoSave, NoClear
<1>3. Ordered
  BY ServiceWorkerAssumption DEF Init, Ordered, Running, Installing, Builds
<1>4. Attended
  BY DEF Init, Attended, FetchSound, SaveSound, ClearSound, NoFetch, NoSave, NoClear
<1>5. CleaningSound /\ OldCachesGone /\ HoldsSound /\ PrecacheSound
  BY <1>1 DEF Init, CleaningSound, OldCachesGone, HoldsSound, HoldSound, PromiseSound, PrecacheSound, NoSave
<1> QED BY <1>2, <1>3, <1>4, <1>5 DEF Sound

-----------------------------------------------------------------------------
(* Type correctness *)

\* What a handler leaves behind has the type of its variable.
LEMMA NoType ==
    NoFetch \in Fetch /\ NoSave \in Save /\ NoClear \in [worker : 0..MaxBuild, todo : SUBSET Names]
BY ServiceWorkerAssumption DEF NoFetch, NoSave, NoClear, Fetch, Save

\* Marking a save as overlapped changes nothing else about it.
LEMMA OverlappedType ==
    ASSUME NEW v \in Save, NEW o \in BOOLEAN
    PROVE  /\ [v EXCEPT !.overlapped = o] \in Save
           /\ [v EXCEPT !.overlapped = o].pc = v.pc
           /\ [v EXCEPT !.overlapped = o].overlapped = o
BY DEF Save

\* A save that has opened its cache is one of the saves' type.
LEMMA PutType ==
    ASSUME NEW v \in Save, NEW n \in Names
    PROVE  [v EXCEPT !.pc = "put", !.cache = n] \in Save
BY DEF Save

\* No step breaks a type.
LEMMA TypeStep == Sound /\ [Next]_vars => TypeOK'
<1> SUFFICES ASSUME Sound, [Next]_vars PROVE TypeOK'
  OBVIOUS
<1> USE DEF worker, history
<1>0. TypeOK /\ CachesType /\ Attended /\ Builds \subseteq Nat /\ Builds \subseteq 0..MaxBuild /\ MaxBuild \in Nat
  BY ServiceWorkerAssumption DEF Sound, TypeOK, CachesType, Builds
<1>1. CASE Deploy
  BY <1>0, <1>1 DEF Deploy, TypeOK, Builds
<1>2. ASSUME NEW b \in Builds, Install(b) PROVE TypeOK'
  <2>1. CachesType'
    BY <1>0, <1>2, CacheNames, OpenGrows DEF Install
  <2> QED BY <2>1, <1>0, <1>2 DEF Install, TypeOK, Life, CachesType
<1>3. ASSUME NEW b \in Builds, Installed(b) PROVE TypeOK'
  <2>1. CachesType' /\ precached' \subseteq Builds
    <3>1. STATIC_CACHE_URLS \in SUBSET Keys
      BY ServiceWorkerAssumption DEF STATIC_CACHE_URLS, Keys
    <3>2. CASE caches' = caches
      BY <3>2, <1>3, <1>0 DEF Installed, AddAll, TypeOK, CachesType
    <3>3. CASE caches' = Keep(CACHE_NAME(b), STATIC_CACHE_URLS)
      <4>1. CachesType'
        BY <3>1, <3>3, <1>0, CacheNames, KeepGrows
      <4> QED BY <4>1, <1>3, <1>0 DEF Installed, AddAll, TypeOK
    <3> QED BY <3>2, <3>3, <1>3 DEF Installed, AddAll
  <2> QED BY <2>1, <1>0, <1>3 DEF Installed, TypeOK, Life, CachesType
<1>4. ASSUME NEW b \in Builds, Activate(b) PROVE TypeOK'
  <2>1. fetch' \in [Fetches -> Fetch]
    BY <1>4, NoType DEF Activate
  <2> QED BY <2>1, <1>0, <1>4 DEF Activate, TypeOK, Life
<1>5. ASSUME NEW b \in Builds, ListOld(b) PROVE TypeOK'
  BY <1>0, <1>5 DEF ListOld, Old, TypeOK, Life, CachesType
<1>6. ASSUME NEW b \in Builds, Activated(b) PROVE TypeOK'
  BY <1>0, <1>6 DEF Activated, TypeOK, Life
<1>7. ASSUME NEW b \in Builds, NEW n \in Names, DeleteOld(b, n) PROVE TypeOK'
  <2>1. CachesType' /\ save' \in [Saves -> Save] /\ opened' \subseteq opened
    BY <1>0, <1>7, DeleteShrinks, DeleteSaves DEF DeleteOld, TypeOK, Delete
  <2>2. n[2] \in Builds
    BY CacheNames
  <2> QED BY <2>1, <2>2, <1>0, <1>7 DEF DeleteOld, TypeOK, CachesType
<1>8. ASSUME NEW b \in Builds, Stop(b) PROVE TypeOK'
  <2>1. fetch' \in [Fetches -> Fetch] /\ save' \in [Saves -> Save]
        /\ clear' \in [worker : 0..MaxBuild, todo : SUBSET Names]
    BY <1>0, <1>8, NoType DEF Stop, TypeOK
  <2>2. lost' \subseteq Recordings
    BY <1>0, <1>8 DEF Stop, TypeOK, Attended, SaveSound
  <2>3. troubles' \in 0..MaxTroubles /\ state' \in [Builds -> Life] /\ todo' \in [Builds -> SUBSET Names]
    BY <1>0, <1>8, ServiceWorkerAssumption DEF Stop, TypeOK, Life
  <2> QED BY <2>1, <2>2, <2>3, <1>0, <1>8 DEF Stop, TypeOK
<1>9. ASSUME NEW f \in Fetches, NEW b \in Builds, NEW url \in Urls \cup Playback, FetchEvent(f, b, url)
      PROVE TypeOK'
  <2>1. url \in Urls \/ recordingCacheKey(url) = None \/ recordingCacheKey(url) \in Keys
    BY DEF Playback, recordingCacheKey, Keys
  <2>2. fetch' \in [Fetches -> Fetch]
    BY <2>1, <1>0, <1>9 DEF FetchEvent, TypeOK, Fetch, Keys
  <2> QED BY <2>2, <1>0, <1>9 DEF FetchEvent, TypeOK
<1>10. ASSUME NEW f \in Fetches, FetchStep(f) \/ KeepCopy(f) PROVE TypeOK'
  <2>1. /\ Answered(f) => fetch' \in [Fetches -> Fetch]
        /\ \A pc \in {"keep", "match"} :
              fetch' = [fetch EXCEPT ![f].pc = pc] => fetch' \in [Fetches -> Fetch]
        /\ fetch' = [fetch EXCEPT ![f].pc = "pass", ![f].url = None] => fetch' \in [Fetches -> Fetch]
    BY <1>0, NoType DEF Answered, TypeOK, Fetch
  <2>2. CASE NetworkAnswers(f) \/ NetworkFails(f) \/ Fallback(f) \/ PassOn(f)
    BY <2>1, <2>2, <1>0 DEF NetworkAnswers, NetworkFails, Fallback, PassOn, TypeOK
  <2>3. CASE recordingCacheResponse(f)
    <3>1. fetch[f].worker \in Builds
      BY <2>3, <1>0 DEF recordingCacheResponse, Attended, FetchSound
    <3>2. CachesType'
      BY <3>1, <2>3, <1>0, CacheNames, OpenGrows DEF recordingCacheResponse
    <3> QED BY <3>2, <2>1, <2>3, <1>0 DEF recordingCacheResponse, TypeOK, CachesType
  <2>4. CASE KeepCopy(f)
    <3>1. fetch[f].worker \in Builds /\ {fetch[f].url} \in SUBSET Keys
      BY <2>4, <1>0 DEF KeepCopy, Attended, FetchSound, Keys
    <3>2. CachesType'
      BY <3>1, <2>4, <1>0, CacheNames, KeepGrows DEF KeepCopy, CachesType
    <3> QED BY <3>2, <2>1, <2>4, <1>0 DEF KeepCopy, TypeOK, CachesType
  <2> QED BY <1>10, <2>2, <2>3, <2>4 DEF FetchStep
<1>11. ASSUME NEW b \in Builds, ClearCache(b) PROVE TypeOK'
  <2>1. clear' \in [worker : 0..MaxBuild, todo : SUBSET Names]
    BY <1>0, <1>11 DEF ClearCache, TypeOK
  <2>2. troubles' \in 0..MaxTroubles
    BY <1>0, <1>11, ServiceWorkerAssumption DEF ClearCache, TypeOK
  <2>3. \A s \in Saves : [save[s] EXCEPT !.overlapped = save[s].pc # "idle"] \in Save
    BY <1>0, OverlappedType DEF TypeOK
  <2> QED BY <2>1, <2>2, <2>3, <1>0, <1>11 DEF ClearCache, TypeOK
<1>12. CASE Cleared
  BY <1>12, <1>0, NoType DEF Cleared, TypeOK
<1>13. ASSUME NEW n \in Names, DeleteAny(n) PROVE TypeOK'
  <2>1. CachesType' /\ save' \in [Saves -> Save] /\ opened' \subseteq opened
    BY <1>0, <1>13, DeleteShrinks, DeleteSaves DEF DeleteAny, TypeOK, Delete
  <2>2. n[2] \in Builds
    BY CacheNames
  <2> QED BY <2>1, <2>2, <1>0, <1>13 DEF DeleteAny, TypeOK, CachesType
<1>14. ASSUME NEW s \in Saves, NEW b \in Builds, NEW r \in Recordings, CacheRecording(s, b, r) PROVE TypeOK'
  <2>1. save' \in [Saves -> Save]
    BY <1>0, <1>14 DEF CacheRecording, TypeOK, Save
  <2> QED BY <2>1, <1>0, <1>14 DEF CacheRecording, TypeOK
<1>15. ASSUME NEW s \in Saves, SaveStep(s) PROVE TypeOK'
  <2>1. CASE RecordingFetched(s)
    <3>1. save[s].worker \in Builds
      BY <2>1, <1>0 DEF RecordingFetched, Attended, SaveSound
    <3>2. CachesType' /\ RECORDING_CACHE_NAME(save[s].worker) \in Names
      BY <3>1, <2>1, <1>0, CacheNames, OpenGrows DEF RecordingFetched
    <3>3. [save[s] EXCEPT !.pc = "put", !.cache = RECORDING_CACHE_NAME(save[s].worker)] \in Save
      BY <3>2, <1>0, PutType DEF TypeOK
    <3>4. save' = [save EXCEPT ![s] = [save[s] EXCEPT !.pc = "put", !.cache = RECORDING_CACHE_NAME(save[s].worker)]]
      BY <2>1 DEF RecordingFetched
    <3> QED BY <3>2, <3>3, <3>4, <2>1, <1>0 DEF RecordingFetched, TypeOK, CachesType
  <2>2. CASE RecordingPut(s)
    <3>1. save[s].rec \in Recordings /\ save[s].cache \in Names \cup {None}
      BY <2>2, <1>0 DEF RecordingPut, Attended, SaveSound, TypeOK, Save
    <3>2. {recordingCacheKey(<<"stream", save[s].rec>>)} \in SUBSET Keys
      BY <3>1, RecordingKey
    <3>3. CachesType'
      BY <3>1, <3>2, <2>2, <1>0, KeepGrows DEF RecordingPut, CachesType
    <3>4. save' \in [Saves -> Save]
      BY <2>2, <1>0 DEF RecordingPut, TypeOK, Save
    <3> QED BY <3>3, <3>4, <2>2, <1>0 DEF RecordingPut, TypeOK, CachesType
  <2>3. CASE RecordingFailed(s)
    <3>1. save' \in [Saves -> Save]
      BY <2>3, <1>0 DEF RecordingFailed, TypeOK, Save
    <3> QED BY <3>1, <2>3, <1>0 DEF RecordingFailed, TypeOK
  <2>4. CASE Notify(s)
    <3>1. save' \in [Saves -> Save] /\ save[s].rec \in Recordings
      BY <2>4, <1>0, NoType DEF Notify, TypeOK, Attended, SaveSound
    <3> QED BY <3>1, <2>4, <1>0 DEF Notify, TypeOK
  <2> QED BY <1>15, <2>1, <2>2, <2>3, <2>4 DEF SaveStep
<1>16. CASE UNCHANGED vars
  BY <1>16, <1>0 DEF vars, TypeOK
<1> QED BY <1>1, <1>2, <1>3, <1>4, <1>5, <1>6, <1>7, <1>8, <1>9, <1>10, <1>11, <1>12, <1>13, <1>14, <1>15, <1>16
        DEF Next, ActivateStep, ClearStep

-----------------------------------------------------------------------------
(* The life of the builds *)

\* The actions that leave the life of the builds alone.
LEMMA LifeAside ==
    ASSUME [Next]_vars,
           ~Deploy,
           \A b \in Builds : ~(Install(b) \/ Installed(b) \/ Activate(b) \/ ListOld(b) \/ Activated(b) \/ Stop(b))
    PROVE  UNCHANGED <<deployed, state>>
BY DEF Next, vars, worker, ActivateStep, DeleteOld, FetchEvent, FetchStep, NetworkAnswers, KeepCopy,
       NetworkFails, Fallback, recordingCacheResponse, PassOn, ClearCache, ClearStep, Cleared, DeleteAny,
       CacheRecording, SaveStep, RecordingFetched, RecordingPut, RecordingFailed, Notify

\* The builds stay in order.
LEMMA OrderedStep == Sound /\ [Next]_vars => Ordered'
<1> SUFFICES ASSUME Sound, [Next]_vars PROVE Ordered'
  OBVIOUS
<1>0. /\ Ordered /\ deployed \in Builds /\ state \in [Builds -> Life]
      /\ \A b \in Builds : b \in Nat
  BY ServiceWorkerAssumption DEF Sound, TypeOK, Builds
<1>1. CASE Deploy
  BY <1>0, <1>1 DEF Deploy, Ordered, Running, Installing
<1>2. ASSUME NEW b \in Builds, Install(b) PROVE Ordered'
  BY <1>0, <1>2 DEF Install, Ordered, Running, Installing
<1>3. ASSUME NEW b \in Builds, Installed(b) PROVE Ordered'
  BY <1>0, <1>3 DEF Installed, Ordered, Running, Installing
<1>4. ASSUME NEW b \in Builds, Activate(b) PROVE Ordered'
  BY <1>0, <1>4 DEF Activate, Ordered, Running, Installing
<1>5. ASSUME NEW b \in Builds, ListOld(b) PROVE Ordered'
  BY <1>0, <1>5 DEF ListOld, Ordered, Running, Installing
<1>6. ASSUME NEW b \in Builds, Activated(b) PROVE Ordered'
  BY <1>0, <1>6 DEF Activated, Ordered, Running, Installing
<1>7. ASSUME NEW b \in Builds, Stop(b) PROVE Ordered'
  BY <1>0, <1>7 DEF Stop, Ordered, Running, Installing
<1>8. CASE UNCHANGED <<deployed, state>>
  BY <1>0, <1>8 DEF Ordered, Running, Installing
<1> QED BY <1>1, <1>2, <1>3, <1>4, <1>5, <1>6, <1>7, <1>8, LifeAside

-----------------------------------------------------------------------------
(* What is under way *)

\* A build in charge stays in charge unless another takes over, and stays active.
LEMMA InCharge ==
    ASSUME Sound, [Next]_vars, \A b \in Builds : ~Activate(b), NEW a \in Builds
    PROVE  /\ state[a] \in Running => state'[a] \in Running
           /\ state[a] = "active" => state'[a] = "active"
<1>0. state \in [Builds -> Life]
  BY DEF Sound, TypeOK
<1>1. CASE UNCHANGED <<deployed, state>>
  BY <1>1
<1>2. CASE Deploy \/ \E b \in Builds : Install(b) \/ Installed(b) \/ ListOld(b) \/ Activated(b) \/ Stop(b)
  BY <1>2, <1>0 DEF Deploy, Install, Installed, ListOld, Activated, Stop, Running
<1> QED BY <1>1, <1>2, LifeAside

\* A step that touches neither requests nor saves nor the clearing, nor promises more.
LEMMA AttendedAside ==
    ASSUME Sound, [Next]_vars, \A b \in Builds : ~Activate(b), UNCHANGED <<fetch, save, clear, promised>>
    PROVE  Attended'
<1>0. Attended /\ TypeOK
  BY DEF Sound
<1>1. \A f \in Fetches : FetchSound(f)'
  BY <1>0, InCharge DEF Attended, FetchSound
<1>2. \A s \in Saves : SaveSound(s)'
  BY <1>0, InCharge DEF Attended, SaveSound
<1>3. ClearSound'
  <2>1. clear.worker # 0 => clear.worker \in Builds
    BY <1>0, ServiceWorkerAssumption DEF TypeOK, Builds
  <2> QED BY <2>1, <1>0, InCharge DEF Attended, ClearSound
<1> QED BY <1>1, <1>2, <1>3 DEF Attended

\* Whatever is under way goes on to belong to the build in charge: a build only takes over
\* when its predecessor owes nothing, and a stop ends what the worker was doing.
LEMMA AttendedStep == Sound /\ [Next]_vars => Attended'
<1> SUFFICES ASSUME Sound, [Next]_vars PROVE Attended'
  OBVIOUS
<1> USE DEF worker, history
<1>0. /\ TypeOK /\ Attended /\ Ordered
      /\ fetch \in [Fetches -> Fetch] /\ save \in [Saves -> Save] /\ state \in [Builds -> Life]
      /\ clear.worker # 0 => clear.worker \in Builds
  BY ServiceWorkerAssumption DEF Sound, TypeOK, Builds
<1>1. ASSUME NEW b \in Builds, Activate(b) PROVE Attended'
  <2>1. \A f \in Fetches : FetchSound(f)'
    BY <1>1 DEF Activate, FetchSound, NoFetch
  <2>2. \A s \in Saves : save[s].pc = "idle"
    BY <1>0, <1>1 DEF Activate, Attended, SaveSound, Pending
  <2>3. clear.worker = 0
    BY <1>0, <1>1 DEF Activate, Attended, ClearSound, Pending
  <2>4. UNCHANGED <<save, clear>>
    BY <1>1 DEF Activate
  <2> QED BY <2>1, <2>2, <2>3, <2>4, <1>0 DEF Attended, SaveSound, ClearSound
<1> SUFFICES ASSUME \A b \in Builds : ~Activate(b) PROVE Attended'
  BY <1>1
<1>2. ASSUME UNCHANGED <<fetch, save, clear, promised>> PROVE Attended'
  BY <1>2, AttendedAside
<1>3. \A a \in Builds : /\ state[a] \in Running => state'[a] \in Running
                        /\ state[a] = "active" => state'[a] = "active"
  BY InCharge
<1>4. ASSUME UNCHANGED <<save, clear, promised>> PROVE (\A s \in Saves : SaveSound(s)') /\ ClearSound'
  BY <1>0, <1>3, <1>4 DEF Attended, SaveSound, ClearSound
<1>5. ASSUME UNCHANGED fetch PROVE \A f \in Fetches : FetchSound(f)'
  BY <1>0, <1>3, <1>5 DEF Attended, FetchSound
<1>6. ASSUME NEW b \in Builds, Stop(b) PROVE Attended'
  <2>1. \A f \in Fetches : FetchSound(f)'
    BY <1>0, <1>3, <1>6 DEF Stop, Attended, FetchSound, NoFetch
  <2>2. \A s \in Saves : SaveSound(s)'
    BY <1>0, <1>3, <1>6 DEF Stop, Attended, SaveSound, NoSave
  <2>3. ClearSound'
    BY <1>0, <1>3, <1>6 DEF Stop, Attended, ClearSound, NoSave, NoClear
  <2> QED BY <2>1, <2>2, <2>3 DEF Attended
<1>7. ASSUME NEW f \in Fetches, NEW b \in Builds, NEW url \in Urls \cup Playback, FetchEvent(f, b, url)
      PROVE Attended'
  <2>1. \A g \in Fetches : FetchSound(g)'
    BY <1>0, <1>7 DEF FetchEvent, Attended, FetchSound, Fetch
  <2> QED BY <2>1, <1>4, <1>7 DEF FetchEvent, Attended
<1>8. ASSUME NEW f \in Fetches, FetchStep(f) \/ KeepCopy(f) PROVE Attended'
  <2>1. UNCHANGED <<state, save, clear, promised>>
    BY <1>8 DEF FetchStep, KeepCopy, NetworkAnswers, NetworkFails, Fallback, recordingCacheResponse, PassOn
  <2>2. \/ Answered(f)
        \/ fetch[f].pc = "network" /\ \E pc \in {"keep", "match"} : fetch' = [fetch EXCEPT ![f].pc = pc]
        \/ fetch[f].pc = "lookup" /\ fetch' = [fetch EXCEPT ![f].pc = "pass", ![f].url = None]
    BY <1>8 DEF FetchStep, KeepCopy, NetworkAnswers, NetworkFails, Fallback, recordingCacheResponse, PassOn
  <2>3. ASSUME Answered(f) PROVE \A g \in Fetches : FetchSound(g)'
    BY <2>1, <2>3, <1>0 DEF Answered, Attended, FetchSound, NoFetch
  <2>4. ASSUME NEW pc \in {"keep", "match"}, fetch[f].pc = "network", fetch' = [fetch EXCEPT ![f].pc = pc]
        PROVE \A g \in Fetches : FetchSound(g)'
    BY <2>1, <2>4, <1>0 DEF Attended, FetchSound, Fetch
  <2>5. ASSUME fetch[f].pc = "lookup", fetch' = [fetch EXCEPT ![f].pc = "pass", ![f].url = None]
        PROVE \A g \in Fetches : FetchSound(g)'
    BY <2>1, <2>5, <1>0 DEF Attended, FetchSound, Fetch
  <2>6. \A g \in Fetches : FetchSound(g)'
    BY <2>2, <2>3, <2>4, <2>5
  <2> QED BY <2>1, <2>6, <1>4 DEF Attended
<1>9. ASSUME NEW b \in Builds, ClearCache(b) PROVE Attended'
  <2>1. \A s \in Saves : SaveSound(s)'
    BY <1>0, <1>9 DEF ClearCache, Attended, SaveSound, Save
  <2>2. ClearSound'
    <3>1. \A s \in Saves : save'[s].pc # "idle" => save'[s].overlapped
      <4> SUFFICES ASSUME NEW s \in Saves, save'[s].pc # "idle" PROVE save'[s].overlapped
        OBVIOUS
      <4>1. save'[s] = [save[s] EXCEPT !.overlapped = save[s].pc # "idle"] /\ save[s] \in Save
        BY <1>0, <1>9 DEF ClearCache
      <4>2. save'[s].pc = save[s].pc /\ save'[s].overlapped = (save[s].pc # "idle")
        BY <4>1, OverlappedType
      <4> QED BY <4>2
    <3>2. promised' = {} /\ clear'.worker = b /\ state'[b] \in Running /\ b # 0
      BY <1>9, ServiceWorkerAssumption DEF ClearCache, Builds
    <3> QED BY <3>1, <3>2 DEF ClearSound
  <2> QED BY <2>1, <2>2, <1>5, <1>9 DEF ClearCache, Attended
<1>10. CASE Cleared
  <2>1. ClearSound'
    BY <1>10 DEF Cleared, ClearSound, NoClear
  <2> QED BY <2>1, <1>0, <1>5, <1>10 DEF Cleared, Attended, SaveSound
<1>12. ASSUME NEW n \in Names, Delete(n), UNCHANGED <<state, fetch, promised>>,
              clear' = clear \/ (clear.worker # 0 /\ clear' = [clear EXCEPT !.todo = @ \ {n}])
       PROVE Attended'
  <2>1. \A s \in Saves : SaveSound(s)'
    BY <1>0, <1>12, DeleteSaves DEF Attended, SaveSound
  <2>2. clear'.worker = clear.worker /\ (clear.worker = 0 => clear'.todo = clear.todo)
    BY <1>0, <1>12 DEF TypeOK
  <2>3. ClearSound'
    BY <2>2, <1>0, <1>12, DeleteSaves DEF Attended, ClearSound
  <2> QED BY <2>1, <2>3, <1>5, <1>12 DEF Attended
<1>13. ASSUME NEW b \in Builds, NEW n \in Names, DeleteOld(b, n) PROVE Attended'
  BY <1>12, <1>13 DEF DeleteOld
<1>14. ASSUME NEW n \in Names, DeleteAny(n) PROVE Attended'
  <2>1. clear.worker # 0
    BY <1>0, <1>14 DEF DeleteAny, Attended, ClearSound
  <2> QED BY <2>1, <1>12, <1>14 DEF DeleteAny
<1>15. ASSUME NEW s \in Saves, NEW b \in Builds, NEW r \in Recordings, CacheRecording(s, b, r) PROVE Attended'
  <2>1. \A z \in Saves : SaveSound(z)'
    BY <1>0, <1>15 DEF CacheRecording, Attended, SaveSound
  <2>2. ClearSound'
    BY <1>0, <1>15 DEF CacheRecording, Attended, ClearSound
  <2> QED BY <2>1, <2>2, <1>5, <1>15 DEF CacheRecording, Attended
<1>16. ASSUME NEW s \in Saves, SaveStep(s) PROVE Attended'
  <2>1. UNCHANGED <<state, fetch, clear>> /\ save[s].pc # "idle"
    BY <1>16 DEF SaveStep, RecordingFetched, RecordingPut, RecordingFailed, Notify
  <2>2. \A z \in Saves : SaveSound(z)'
    <3>1. \A z \in Saves : z # s => save'[z] = save[z]
      BY <1>0, <1>16 DEF SaveStep, RecordingFetched, RecordingPut, RecordingFailed, Notify
    <3>2. \/ save'[s].pc = "idle"
          \/ /\ save'[s].worker = save[s].worker /\ save'[s].rec = save[s].rec
             /\ save'[s].cache \in {save[s].cache, RECORDING_CACHE_NAME(save[s].worker)}
      BY <1>0, <1>16 DEF SaveStep, RecordingFetched, RecordingPut, RecordingFailed, Notify, NoSave, Save
    <3> QED BY <3>1, <3>2, <2>1, <1>0 DEF Attended, SaveSound
  <2>3. ClearSound'
    <3>1. \A z \in Saves : save'[z].pc # "idle" => save[z].pc # "idle" /\ save'[z].overlapped = save[z].overlapped
      BY <1>0, <1>16 DEF SaveStep, RecordingFetched, RecordingPut, RecordingFailed, Notify, NoSave, Save
    <3>2. promised' = promised \/ (~save[s].overlapped /\ clear.worker = 0)
      BY <2>1, <1>0, <1>16 DEF SaveStep, RecordingFetched, RecordingPut, RecordingFailed, Notify, Attended, ClearSound
    <3> QED BY <3>1, <3>2, <2>1, <1>0 DEF Attended, ClearSound
  <2> QED BY <2>1, <2>2, <2>3, <1>5 DEF Attended
<1>17. ASSUME NEW b \in Builds, Deploy \/ Install(b) \/ Installed(b) \/ ListOld(b) \/ Activated(b) PROVE Attended'
  BY <1>2, <1>17 DEF Deploy, Install, Installed, ListOld, Activated
<1>18. CASE UNCHANGED vars
  BY <1>2, <1>18 DEF vars
<1>19. CASE Deploy
  BY <1>2, <1>19 DEF Deploy
<1> QED BY <1>6, <1>7, <1>8, <1>9, <1>10, <1>13, <1>14, <1>15, <1>16, <1>17, <1>18, <1>19
        DEF Next, ActivateStep, ClearStep

-----------------------------------------------------------------------------
(* The caches *)

\* Only the build in charge and newer ones create caches.
LEMMA NewCaches ==
    ASSUME Sound, [Next]_vars
    PROVE  /\ \A n \in DOMAIN caches' \ DOMAIN caches : \A b \in Builds : state[b] \in Running => b <= n[2]
           /\ DOMAIN caches' \subseteq Names
<1>0. /\ Ordered /\ Attended /\ CachesType /\ deployed \in Builds /\ state \in [Builds -> Life]
      /\ \A b \in Builds : b \in Nat
  BY ServiceWorkerAssumption DEF Sound, TypeOK, CachesType, Builds
<1> DEFINE Newer(n) == n \in Names /\ \A b \in Builds : state[b] \in Running => b <= n[2]
<1>1. ASSUME NEW n, Grown(n), Newer(n)
      PROVE  /\ \A x \in DOMAIN caches' \ DOMAIN caches : \A b \in Builds : state[b] \in Running => b <= x[2]
             /\ DOMAIN caches' \subseteq Names
  BY <1>0, <1>1 DEF Grown, CachesType
<1>2. ASSUME NEW n, Delete(n) PROVE DOMAIN caches' \subseteq DOMAIN caches
  BY <1>2 DEF Delete
<1>3. ASSUME NEW b \in Builds, Install(b) PROVE Grown(CACHE_NAME(b)) /\ Newer(CACHE_NAME(b))
  <2>1. Newer(CACHE_NAME(b))
    BY <1>0, <1>3, CacheNames DEF Install, Ordered, Running
  <2> QED BY <2>1, <1>0, <1>3, OpenGrows DEF Install
<1>4. ASSUME NEW b \in Builds, Installed(b), caches' # caches
      PROVE  Grown(CACHE_NAME(b)) /\ Newer(CACHE_NAME(b))
  <2>1. Newer(CACHE_NAME(b))
    BY <1>0, <1>4, CacheNames DEF Installed, Ordered, Running, Installing
  <2>2. STATIC_CACHE_URLS \in SUBSET Keys
    BY ServiceWorkerAssumption DEF STATIC_CACHE_URLS, Keys
  <2> QED BY <2>1, <2>2, <1>0, <1>4, KeepGrows DEF Installed, AddAll
<1>5. ASSUME NEW a \in Builds, state[a] \in Running PROVE Newer(CACHE_NAME(a)) /\ Newer(RECORDING_CACHE_NAME(a))
  BY <1>0, <1>5, CacheNames DEF Ordered
<1>6. ASSUME NEW f \in Fetches, FetchStep(f) \/ KeepCopy(f), caches' # caches
      PROVE  \E n \in Names : Grown(n) /\ Newer(n)
  <2>1. fetch[f].pc \in {"lookup", "keep"}
    BY <1>6 DEF FetchStep, KeepCopy, NetworkAnswers, NetworkFails, Fallback, recordingCacheResponse, PassOn
  <2>2. fetch[f].worker \in Builds /\ state[fetch[f].worker] \in Running
        /\ (fetch[f].pc = "keep" => {fetch[f].url} \in SUBSET Keys)
    BY <2>1, <1>0 DEF Attended, FetchSound, Running, Keys
  <2>3. CASE recordingCacheResponse(f)
    BY <2>2, <2>3, <1>0, <1>5, CacheNames, OpenGrows DEF recordingCacheResponse
  <2>4. CASE KeepCopy(f)
    <3>1. fetch[f].pc = "keep"
      BY <2>4 DEF KeepCopy
    <3>2. caches' = Keep(CACHE_NAME(fetch[f].worker), {fetch[f].url})
      BY <2>4, <1>6 DEF KeepCopy
    <3>3. Grown(CACHE_NAME(fetch[f].worker)) /\ CACHE_NAME(fetch[f].worker) \in Names
      BY <3>1, <3>2, <2>2, <1>0, CacheNames, KeepGrows
    <3> QED BY <3>3, <2>2, <1>5
  <2> QED BY <1>6, <2>3, <2>4 DEF FetchStep, NetworkAnswers, NetworkFails, Fallback, PassOn
<1>7. ASSUME NEW s \in Saves, SaveStep(s), caches' # caches
      PROVE  \E n \in Names : Grown(n) /\ Newer(n)
  <2>1. save[s].worker \in Builds /\ state[save[s].worker] \in Running
        /\ save[s].rec \in Recordings
        /\ save[s].cache \in {None, RECORDING_CACHE_NAME(save[s].worker)}
    BY <1>0, <1>7 DEF SaveStep, RecordingFetched, RecordingPut, RecordingFailed, Notify, Attended, SaveSound
  <2> DEFINE n == RECORDING_CACHE_NAME(save[s].worker)
  <2>2. n \in Names /\ Newer(n)
    BY <2>1, <1>5, CacheNames
  <2>3. CASE RecordingFetched(s)
    BY <2>2, <2>3, <1>0, OpenGrows DEF RecordingFetched
  <2>4. CASE RecordingPut(s)
    <3>1. caches' = Keep(n, {recordingCacheKey(<<"stream", save[s].rec>>)})
      BY <2>1, <2>4, <1>7 DEF RecordingPut
    <3>2. {recordingCacheKey(<<"stream", save[s].rec>>)} \in SUBSET Keys
      BY <2>1, RecordingKey
    <3> QED BY <3>1, <3>2, <2>2, <1>0, KeepGrows
  <2> QED BY <1>7, <2>3, <2>4 DEF SaveStep, RecordingFailed, Notify
<1>8. CASE caches' = caches
  BY <1>0, <1>8 DEF CachesType
<1>9. CASE \E n \in Names : Delete(n)
  BY <1>0, <1>2, <1>9 DEF CachesType
<1>10. ASSUME caches' # caches, ~\E n \in Names : Delete(n)
       PROVE  \E n : Grown(n) /\ Newer(n)
  <2>1. \/ \E b \in Builds : Install(b) \/ Installed(b)
        \/ \E f \in Fetches : FetchStep(f) \/ KeepCopy(f)
        \/ \E s \in Saves : SaveStep(s)
    BY <1>10 DEF Next, vars, Deploy, Activate, ActivateStep, ListOld, Activated, DeleteOld, Stop, FetchEvent,
                 ClearCache, ClearStep, Cleared, DeleteAny, CacheRecording
  <2> QED BY <2>1, <1>3, <1>4, <1>6, <1>7, <1>10
<1> QED BY <1>1, <1>8, <1>9, <1>10

\* An activation goes on to know every older cache.
LEMMA CleaningStep == Sound /\ [Next]_vars => CleaningSound'
<1> SUFFICES ASSUME Sound, [Next]_vars PROVE CleaningSound'
  OBVIOUS
<1>0. /\ CleaningSound /\ state \in [Builds -> Life] /\ todo \in [Builds -> SUBSET Names]
      /\ CachesType /\ \A b \in Builds : b \in Nat
  BY ServiceWorkerAssumption DEF Sound, TypeOK, CachesType, Builds
<1>1. /\ \A n \in DOMAIN caches' \ DOMAIN caches : \A b \in Builds : state[b] \in Running => b <= n[2]
      /\ DOMAIN caches' \subseteq Names
      /\ \A n \in Names : n[2] \in Nat
  BY NewCaches, CacheNames, <1>0
<1>2. ASSUME UNCHANGED todo, \A b \in Builds : state'[b] = "cleaning" <=> state[b] = "cleaning"
      PROVE  CleaningSound'
  <2> SUFFICES ASSUME NEW b \in Builds, state[b] = "cleaning", NEW n \in DOMAIN caches', n[2] < b
               PROVE  n \in todo[b]
    BY <1>0, <1>2 DEF CleaningSound, CACHE_NAME, RECORDING_CACHE_NAME
  <2>1. n \in DOMAIN caches
    BY <1>0, <1>1 DEF Running
  <2> QED BY <2>1, <1>0 DEF CleaningSound
<1>3. ASSUME NEW b \in Builds, ListOld(b) PROVE CleaningSound'
  <2>1. todo' = [todo EXCEPT ![b] = Old(b)] /\ state' = [state EXCEPT ![b] = "cleaning"] /\ caches' = caches
    BY <1>3 DEF ListOld
  <2>2. \A n \in DOMAIN caches : n[2] < b => n \in Old(b)
    BY <1>0, CacheNames DEF Old, CachesType
  <2>3. CACHE_NAME(b) \notin Old(b) /\ RECORDING_CACHE_NAME(b) \notin Old(b)
    BY DEF Old
  <2> QED BY <2>1, <2>2, <2>3, <1>0 DEF CleaningSound, CACHE_NAME, RECORDING_CACHE_NAME
<1>4. ASSUME NEW b \in Builds, NEW n \in Names, DeleteOld(b, n) PROVE CleaningSound'
  <2>1. todo' = [todo EXCEPT ![b] = @ \ {n}] /\ state' = state /\ DOMAIN caches' = DOMAIN caches \ {n}
    BY <1>4 DEF DeleteOld, Delete
  <2> QED BY <2>1, <1>0 DEF CleaningSound, CACHE_NAME, RECORDING_CACHE_NAME
<1>5. ASSUME NEW b \in Builds, Stop(b) PROVE CleaningSound'
  <2>1. /\ todo' = [todo EXCEPT ![b] = {}] /\ caches' = caches
        /\ state' = [state EXCEPT ![b] = IF @ = "precaching" THEN "none" ELSE "active"]
    BY <1>5 DEF Stop
  <2> QED BY <2>1, <1>0 DEF CleaningSound, CACHE_NAME, RECORDING_CACHE_NAME
<1>6. ASSUME NEW b \in Builds, Activated(b) PROVE CleaningSound'
  <2>1. todo[b] = {} /\ todo' = todo /\ caches' = caches /\ state' = [state EXCEPT ![b] = "active"]
    BY <1>6 DEF Activated
  <2> QED BY <2>1, <1>0 DEF CleaningSound, CACHE_NAME, RECORDING_CACHE_NAME
<1>7. ASSUME NEW b \in Builds, Install(b) \/ Installed(b) \/ Activate(b) PROVE CleaningSound'
  BY <1>0, <1>2, <1>7 DEF Install, Installed, Activate
<1>8. ASSUME UNCHANGED <<todo, state>> PROVE CleaningSound'
  BY <1>2, <1>8
<1>9. CASE Deploy \/ UNCHANGED vars \/ \E b \in Builds : ClearCache(b)
  BY <1>8, <1>9 DEF Deploy, vars, worker, ClearCache
<1>10. ASSUME NEW f \in Fetches, NEW b \in Builds, NEW url \in Urls \cup Playback, FetchEvent(f, b, url)
       PROVE  CleaningSound'
  BY <1>8, <1>10 DEF FetchEvent, worker
<1>11. ASSUME NEW f \in Fetches, FetchStep(f) \/ KeepCopy(f) PROVE CleaningSound'
  BY <1>8, <1>11 DEF FetchStep, KeepCopy, NetworkAnswers, NetworkFails, Fallback, recordingCacheResponse,
                     PassOn, worker
<1>12. CASE ClearStep
  BY <1>8, <1>12 DEF ClearStep, Cleared, DeleteAny, worker
<1>13. ASSUME NEW s \in Saves, SaveStep(s) \/ (\E b \in Builds, r \in Recordings : CacheRecording(s, b, r))
       PROVE  CleaningSound'
  BY <1>8, <1>13 DEF SaveStep, RecordingFetched, RecordingPut, RecordingFailed, Notify, CacheRecording, worker
<1> QED BY <1>3, <1>4, <1>5, <1>6, <1>7, <1>9, <1>10, <1>11, <1>12, <1>13 DEF Next, ActivateStep

\* An activation that was not cut short leaves no older cache, and none comes back.
LEMMA OldGoneStep == Sound /\ [Next]_vars => OldCachesGone'
<1> SUFFICES ASSUME Sound, [Next]_vars, NEW b \in Builds \ cut', state'[b] = "active", NEW n \in DOMAIN caches'
             PROVE  n[2] >= b
  BY DEF OldCachesGone
<1>0. /\ OldCachesGone /\ CleaningSound /\ state \in [Builds -> Life] /\ CachesType
      /\ \A a \in Builds : a \in Nat
  BY ServiceWorkerAssumption DEF Sound, TypeOK, CachesType, Builds
<1>1. /\ n \notin DOMAIN caches /\ state[b] \in Running => b <= n[2]
      /\ n[2] \in Nat
  BY NewCaches, CacheNames, <1>0
<1>2. CASE \E a \in Builds : Activated(a)
  <2>1. PICK a \in Builds : Activated(a)
    BY <1>2
  <2>2. caches' = caches /\ cut' = cut /\ (state[b] = "active" \/ (a = b /\ state[b] = "cleaning" /\ todo[b] = {}))
    BY <2>1, <1>0 DEF Activated, history
  <2> QED BY <2>2, <1>0, <1>1 DEF OldCachesGone, CleaningSound
<1>3. CASE \E a \in Builds : Stop(a)
  <2>1. PICK a \in Builds : Stop(a)
    BY <1>3
  <2>2. /\ caches' = caches /\ cut \subseteq cut'
        /\ state[b] = "active" \/ (a = b /\ state[b] \in {"activating", "cleaning"} /\ b \in cut')
    BY <2>1, <1>0 DEF Stop, Running
  <2> QED BY <2>2, <1>0, <1>1 DEF OldCachesGone
<1>4. CASE (\A a \in Builds : ~Activated(a) /\ ~Stop(a))
  <2>1. cut' = cut
    BY <1>4 DEF Next, vars, history, ActivateStep, Deploy, Install, Installed, Activate, ListOld, DeleteOld,
       FetchEvent, FetchStep, NetworkAnswers, KeepCopy, NetworkFails, Fallback, recordingCacheResponse,
       PassOn, ClearCache, ClearStep, Cleared, DeleteAny, CacheRecording, SaveStep, RecordingFetched,
       RecordingPut, RecordingFailed, Notify
  <2>2. state[b] = "active"
    <3>1. CASE Deploy \/ \E a \in Builds : Install(a) \/ Installed(a) \/ Activate(a) \/ ListOld(a)
      BY <3>1, <1>0 DEF Deploy, Install, Installed, Activate, ListOld
    <3> QED BY <3>1, <1>4, LifeAside
  <2> QED BY <2>1, <2>2, <1>0, <1>1 DEF OldCachesGone, Running
<1> QED BY <1>2, <1>3, <1>4

-----------------------------------------------------------------------------
(* Promises *)

\* What the build in charge holds, it keeps, unless the caches are being cleared.
LEMMA HeldStays ==
    ASSUME Sound, [Next]_vars, \A n \in Names : ~DeleteAny(n),
           NEW b \in Builds, state[b] \in Running, NEW r, Held(b, r)
    PROVE  Held(b, r)'
<1>0. Ordered /\ CleaningSound /\ CachesType /\ Attended
  BY DEF Sound, TypeOK, CachesType
<1>1. ASSUME NEW n, Grown(n) PROVE Held(b, r)'
  BY <1>1 DEF Grown, Held, RECORDING_CACHE_NAME
<1>2. ASSUME NEW a \in Builds, NEW n \in Names, DeleteOld(a, n) PROVE Held(b, r)'
  <2>1. a = b /\ n # RECORDING_CACHE_NAME(b)
    BY <1>0, <1>2 DEF DeleteOld, Ordered, CleaningSound, Running
  <2>2. DOMAIN caches' = DOMAIN caches \ {n} /\ \A x \in DOMAIN caches' : caches'[x] = caches[x]
    BY <1>0, <1>2, DeleteShrinks DEF DeleteOld
  <2>3. RECORDING_CACHE_NAME(b)' = RECORDING_CACHE_NAME(b)
    BY DEF RECORDING_CACHE_NAME
  <2> QED BY <2>1, <2>2, <2>3 DEF Held
<1>3. CASE caches' = caches
  BY <1>3 DEF Held, RECORDING_CACHE_NAME
<1>4. ASSUME NEW a \in Builds, Install(a) \/ Installed(a) PROVE \E n : Grown(n) \/ caches' = caches
  <2>1. STATIC_CACHE_URLS \in SUBSET Keys
    BY ServiceWorkerAssumption DEF STATIC_CACHE_URLS, Keys
  <2> QED BY <2>1, <1>0, <1>4, CacheNames, OpenGrows, KeepGrows DEF Install, Installed, AddAll
<1>5. ASSUME NEW f \in Fetches, FetchStep(f) \/ KeepCopy(f) PROVE \E n : Grown(n) \/ caches' = caches
  <2>1. CASE recordingCacheResponse(f)
    <3>1. fetch[f].worker \in Builds
      BY <2>1, <1>0 DEF recordingCacheResponse, Attended, FetchSound
    <3> QED BY <3>1, <2>1, <1>0, CacheNames, OpenGrows DEF recordingCacheResponse
  <2>2. CASE KeepCopy(f)
    <3>1. fetch[f].worker \in Builds /\ {fetch[f].url} \in SUBSET Keys
      BY <2>2, <1>0 DEF KeepCopy, Attended, FetchSound, Keys
    <3> QED BY <3>1, <2>2, <1>0, CacheNames, KeepGrows DEF KeepCopy
  <2> QED BY <1>5, <2>1, <2>2 DEF FetchStep, NetworkAnswers, NetworkFails, Fallback, PassOn
<1>6. ASSUME NEW s \in Saves, SaveStep(s) PROVE \E n : Grown(n) \/ caches' = caches
  <2>1. save[s].worker \in Builds /\ save[s].rec \in Recordings
        /\ save[s].cache \in {None, RECORDING_CACHE_NAME(save[s].worker)}
    BY <1>0, <1>6 DEF SaveStep, RecordingFetched, RecordingPut, RecordingFailed, Notify, Attended, SaveSound
  <2>2. CASE RecordingFetched(s)
    BY <2>1, <2>2, <1>0, CacheNames, OpenGrows DEF RecordingFetched
  <2>3. CASE RecordingPut(s)
    <3>1. {recordingCacheKey(<<"stream", save[s].rec>>)} \in SUBSET Keys
      BY <2>1, RecordingKey
    <3> QED BY <3>1, <2>1, <2>3, <1>0, CacheNames, KeepGrows DEF RecordingPut
  <2> QED BY <1>6, <2>2, <2>3 DEF SaveStep, RecordingFailed, Notify
<1>7. CASE /\ \A a \in Builds : ~Install(a) /\ ~Installed(a) /\ \A n \in Names : ~DeleteOld(a, n)
           /\ \A f \in Fetches : ~FetchStep(f) /\ ~KeepCopy(f)
           /\ \A s \in Saves : ~SaveStep(s)
  <2>1. caches' = caches
    BY <1>7 DEF Next, vars, Deploy, Activate, ActivateStep, ListOld, Activated, Stop, FetchEvent,
                ClearCache, ClearStep, Cleared, CacheRecording
  <2> QED BY <2>1, <1>3
<1> QED BY <1>1, <1>2, <1>3, <1>4, <1>5, <1>6, <1>7

\* A save that nothing overlapped is not disturbed by the steps of others.
LEMMA OtherSaves ==
    ASSUME Sound, [Next]_vars, NEW s \in Saves, ~SaveStep(s),
           save[s].pc \in {"put", "cached"}, ~save[s].overlapped,
           save'[s].pc = save[s].pc, ~save'[s].overlapped
    PROVE  /\ save'[s].worker = save[s].worker /\ save'[s].rec = save[s].rec
           /\ save'[s].cache = save[s].cache
           /\ \A n \in Names : ~DeleteAny(n)
<1>0. /\ TypeOK /\ Ordered /\ Attended /\ CleaningSound
      /\ save \in [Saves -> Save]
      /\ save[s].worker \in Builds /\ state[save[s].worker] \in Running
      /\ save[s].cache \in {None, RECORDING_CACHE_NAME(save[s].worker)}
  BY DEF Sound, TypeOK, Attended, SaveSound
<1>1. \A n \in Names : ~DeleteAny(n)
  BY <1>0 DEF DeleteAny, Attended, ClearSound
<1>2. ASSUME NEW b \in Builds, NEW n \in Names, DeleteOld(b, n)
      PROVE  save'[s].worker = save[s].worker /\ save'[s].rec = save[s].rec /\ save'[s].cache = save[s].cache
  <2>1. b = save[s].worker
    BY <1>0, <1>2 DEF DeleteOld, Ordered, Running
  <2>2. n # RECORDING_CACHE_NAME(b) /\ n # None
    BY <1>0, <1>2, CacheNames DEF DeleteOld, CleaningSound
  <2>3. Delete(n)
    BY <1>2 DEF DeleteOld
  <2> QED BY <2>1, <2>2, <2>3, <1>0, DeleteSaves
<1>3. ASSUME NEW b \in Builds, Stop(b)
      PROVE  save'[s].worker = save[s].worker /\ save'[s].rec = save[s].rec /\ save'[s].cache = save[s].cache
  BY <1>0, <1>3 DEF Stop, NoSave
<1>4. ASSUME NEW b \in Builds, ClearCache(b)
      PROVE  FALSE
  <2>1. save'[s] = [save[s] EXCEPT !.overlapped = save[s].pc # "idle"] /\ save[s] \in Save
    BY <1>0, <1>4 DEF ClearCache
  <2>2. save'[s].overlapped = (save[s].pc # "idle")
    BY <2>1, OverlappedType
  <2> QED BY <2>2
<1>5. ASSUME NEW z \in Saves, SaveStep(z) \/ (\E b \in Builds, r \in Recordings : CacheRecording(z, b, r))
      PROVE  save'[s] = save[s]
  BY <1>0, <1>5 DEF SaveStep, RecordingFetched, RecordingPut, RecordingFailed, Notify, CacheRecording
<1>6. CASE /\ \A b \in Builds : ~Stop(b) /\ ~ClearCache(b) /\ \A n \in Names : ~DeleteOld(b, n)
           /\ \A z \in Saves : ~SaveStep(z) /\ \A b \in Builds, r \in Recordings : ~CacheRecording(z, b, r)
  <2>1. save' = save
    BY <1>1, <1>6 DEF Next, vars, Deploy, Install, Installed, Activate, ActivateStep, ListOld, Activated,
       FetchEvent, FetchStep, NetworkAnswers, KeepCopy, NetworkFails, Fallback, recordingCacheResponse,
       PassOn, ClearStep, Cleared
  <2> QED BY <2>1, <1>1
<1> QED BY <1>1, <1>2, <1>3, <1>4, <1>5, <1>6

\* A save goes on to hold what it put.
LEMMA HoldStep == ASSUME Sound, [Next]_vars, NEW s \in Saves PROVE HoldSound(s)'
<1>0. /\ TypeOK /\ Attended /\ HoldSound(s) /\ CachesType
      /\ save \in [Saves -> Save]
  BY DEF Sound, TypeOK, HoldsSound, CachesType
<1>1. CASE SaveStep(s)
  <2>1. save[s].worker \in Builds /\ save[s].rec \in Recordings
        /\ save[s].cache \in {None, RECORDING_CACHE_NAME(save[s].worker)}
    BY <1>0, <1>1 DEF SaveStep, RecordingFetched, RecordingPut, RecordingFailed, Notify, Attended, SaveSound
  <2>2. CASE RecordingFetched(s)
    <3>1. save'[s].pc = "put" /\ save'[s].cache = RECORDING_CACHE_NAME(save[s].worker)
      BY <2>2, <1>0 DEF RecordingFetched
    <3> QED BY <3>1, <2>1, CacheNames DEF HoldSound
  <2>3. CASE RecordingPut(s) /\ ~save[s].overlapped
    <3>1. save'[s].pc = "cached" /\ save'[s].worker = save[s].worker /\ save'[s].rec = save[s].rec
      BY <2>3, <1>0 DEF RecordingPut
    <3>2. caches' = Keep(RECORDING_CACHE_NAME(save[s].worker), {<<"stream", save[s].rec>>})
      BY <2>1, <2>3, <1>0, RecordingKey DEF RecordingPut, HoldSound
    <3>3. {<<"stream", save[s].rec>>} \in SUBSET Keys
      BY <2>1, RecordingKey
    <3>4. /\ RECORDING_CACHE_NAME(save[s].worker) \in DOMAIN caches'
          /\ <<"stream", save[s].rec>> \in caches'[RECORDING_CACHE_NAME(save[s].worker)]
      BY <3>2, <3>3, <2>1, <1>0, CacheNames, KeepGrows
    <3> QED BY <3>1, <3>4 DEF HoldSound, Held, RECORDING_CACHE_NAME
  <2>4. CASE RecordingPut(s) /\ save[s].overlapped
    <3>1. save'[s].overlapped = save[s].overlapped
      BY <2>4, <1>0 DEF RecordingPut, Save
    <3> QED BY <3>1, <2>4 DEF HoldSound
  <2>5. CASE RecordingFailed(s) \/ Notify(s)
    <3>1. save'[s].pc \in {"failed", "idle"}
      BY <2>5, <1>0 DEF RecordingFailed, Notify, NoSave, Save
    <3> QED BY <3>1 DEF HoldSound
  <2> QED BY <1>1, <2>2, <2>3, <2>4, <2>5 DEF SaveStep
<1>2. CASE ~SaveStep(s)
  <2> SUFFICES ASSUME ~save'[s].overlapped, save'[s].pc \in {"put", "cached"} PROVE HoldSound(s)'
    BY DEF HoldSound
  <2>1. save[s].pc = save'[s].pc /\ ~save[s].overlapped
    <3>1. ASSUME NEW z \in Saves, SaveStep(z) \/ (\E b \in Builds, r \in Recordings : CacheRecording(z, b, r))
          PROVE  save[s].pc = save'[s].pc /\ ~save[s].overlapped
      <4>1. z # s => save'[s] = save[s]
        BY <1>0, <3>1 DEF SaveStep, RecordingFetched, RecordingPut, RecordingFailed, Notify, CacheRecording
      <4>2. z = s => save'[s].pc = "fetch"
        BY <1>0, <1>2, <3>1 DEF CacheRecording
      <4> QED BY <4>1, <4>2
    <3>2. ASSUME NEW b \in Builds, ClearCache(b) PROVE save[s].pc = save'[s].pc /\ ~save[s].overlapped
      <4>1. save'[s] = [save[s] EXCEPT !.overlapped = save[s].pc # "idle"] /\ save[s] \in Save
        BY <1>0, <3>2 DEF ClearCache
      <4>2. save'[s].pc = save[s].pc /\ save'[s].overlapped = (save[s].pc # "idle")
        BY <4>1, OverlappedType
      <4> QED BY <4>2
    <3>3. ASSUME NEW n \in Names, Delete(n) PROVE save[s].pc = save'[s].pc /\ ~save[s].overlapped
      BY <1>0, <3>3, DeleteSaves
    <3>4. ASSUME NEW b \in Builds, Stop(b) PROVE save[s].pc = save'[s].pc /\ ~save[s].overlapped
      BY <1>0, <3>4 DEF Stop, NoSave
    <3>5. CASE save' = save
      BY <3>5
    <3> QED BY <3>1, <3>2, <3>3, <3>4, <3>5 DEF Next, vars, Deploy, Install, Installed, Activate, ActivateStep,
          ListOld, Activated, DeleteOld, FetchEvent, FetchStep, NetworkAnswers, KeepCopy, NetworkFails, Fallback,
          recordingCacheResponse, PassOn, ClearStep, Cleared, DeleteAny
  <2>2. /\ save'[s].worker = save[s].worker /\ save'[s].rec = save[s].rec
        /\ save'[s].cache = save[s].cache
        /\ \A n \in Names : ~DeleteAny(n)
    BY <1>2, <2>1, OtherSaves
  <2>3. save[s].pc = "cached" => Held(save[s].worker, save[s].rec)'
    <3>1. save[s].worker \in Builds /\ state[save[s].worker] \in Running
      BY <1>0, <2>1 DEF Attended, SaveSound
    <3>2. save[s].pc = "cached" => Held(save[s].worker, save[s].rec)
      BY <1>0, <2>1 DEF HoldSound
    <3> DEFINE b == save[s].worker
               r == save[s].rec
    <3>3. ASSUME NEW c \in Builds, state[c] \in Running, NEW q, Held(c, q) PROVE Held(c, q)'
      BY <2>2, <3>3, HeldStays
    <3>4. ASSUME save[s].pc = "cached"
          PROVE  /\ RECORDING_CACHE_NAME(b) \in DOMAIN caches'
                 /\ <<"stream", r>> \in caches'[RECORDING_CACHE_NAME(b)]
      BY <3>1, <3>2, <3>3, <3>4 DEF Held, RECORDING_CACHE_NAME
    <3>5. b' = b /\ r' = r
      BY <2>2
    <3> QED BY <3>4, <3>5 DEF Held, RECORDING_CACHE_NAME
  <2>4. save[s].pc = "put" => save[s].cache # None
    BY <1>0, <2>1 DEF HoldSound
  <2> QED BY <2>1, <2>2, <2>3, <2>4 DEF HoldSound, Held, RECORDING_CACHE_NAME
<1> QED BY <1>1, <1>2

\* Whoever is in charge after a step other than an activation was so before.
LEMMA ChargeGiven ==
    ASSUME Sound, [Next]_vars, \A a \in Builds : ~Activate(a), NEW b \in Builds, state'[b] \in Running
    PROVE  state[b] \in Running
<1>0. state \in [Builds -> Life]
  BY DEF Sound, TypeOK
<1>1. CASE Deploy \/ \E a \in Builds : Install(a) \/ Installed(a) \/ ListOld(a) \/ Activated(a) \/ Stop(a)
  BY <1>0, <1>1 DEF Deploy, Install, Installed, ListOld, Activated, Stop, Running
<1> QED BY <1>1, LifeAside

\* The build in charge goes on to hold what was promised.
LEMMA PromiseStep == ASSUME Sound, [Next]_vars, NEW b \in Builds PROVE PromiseSound(b)'
<1>0. TypeOK /\ Ordered /\ Attended /\ HoldsSound
  BY DEF Sound
<1>1. CASE \E a \in Builds : Activate(a) \/ ClearCache(a)
  <2>1. promised' = {}
    BY <1>1 DEF Activate, ClearCache
  <2> QED BY <2>1 DEF PromiseSound
<1>2. ASSUME NEW n \in Names, DeleteAny(n) PROVE PromiseSound(b)'
  <2>1. promised' = promised /\ promised = {}
    BY <1>0, <1>2 DEF DeleteAny, Attended, ClearSound
  <2> QED BY <2>1 DEF PromiseSound
<1>3. CASE (\A a \in Builds : ~Activate(a)) /\ (\A n \in Names : ~DeleteAny(n))
  <2> SUFFICES ASSUME state'[b] \in Running, NEW r \in promised' PROVE Held(b, r)'
    BY DEF PromiseSound
  <2>1. state[b] \in Running
    BY <1>3, ChargeGiven
  <2>2. CASE r \in promised
    <3>1. Held(b, r)
      BY <2>1, <2>2, <1>0 DEF HoldsSound, PromiseSound
    <3> QED BY <3>1, <2>1, <1>3, HeldStays
  <2>3. CASE r \notin promised
    <3>1. \E s \in Saves : Notify(s)
      BY <2>3 DEF Next, vars, history, Deploy, Install, Installed, Activate, ActivateStep, ListOld, Activated,
         DeleteOld, Stop, FetchEvent, FetchStep, NetworkAnswers, KeepCopy, NetworkFails, Fallback,
         recordingCacheResponse, PassOn, ClearCache, ClearStep, Cleared, DeleteAny, CacheRecording,
         SaveStep, RecordingFetched, RecordingPut, RecordingFailed
    <3>2. PICK s \in Saves : Notify(s)
      BY <3>1
    <3>3. save[s].pc = "cached" /\ ~save[s].overlapped /\ r = save[s].rec
      BY <2>3, <3>2 DEF Notify
    <3>4. b = save[s].worker
      BY <3>3, <2>1, <1>0 DEF Attended, SaveSound, Ordered
    <3>5. Held(b, r)
      BY <3>3, <3>4, <1>0 DEF HoldsSound, HoldSound
    <3> QED BY <3>5, <2>1, <1>3, HeldStays
  <2> QED BY <2>2, <2>3
<1> QED BY <1>1, <1>2, <1>3

-----------------------------------------------------------------------------
(* The offline page *)

\* A build keeps what it precached until somebody else deletes it.
LEMMA PrecacheStep == Sound /\ [Next]_vars => PrecacheSound'
<1> SUFFICES ASSUME Sound, [Next]_vars PROVE PrecacheSound'
  OBVIOUS
<1> DEFINE Kept(b) == CACHE_NAME(b) \in DOMAIN caches /\ OFFLINE_URL \in caches[CACHE_NAME(b)]
<1>0. /\ TypeOK /\ Ordered /\ Attended /\ CleaningSound /\ PrecacheSound /\ CachesType
      /\ state \in [Builds -> Life] /\ \A b \in Builds : b \in Nat
  BY ServiceWorkerAssumption DEF Sound, TypeOK, CachesType, Builds
<1>1. ASSUME NEW n, Grown(n) PROVE \A b \in Builds : Kept(b) => Kept(b)'
  BY <1>1 DEF Grown, CACHE_NAME
<1>2. ASSUME UNCHANGED caches PROVE \A b \in Builds : Kept(b) => Kept(b)'
  BY <1>2 DEF CACHE_NAME
<1>3. ASSUME UNCHANGED <<opened, precached, spoiled>>, \A b \in Builds : Kept(b) => Kept(b)',
             \A b \in Builds :
                /\ state'[b] \in {"none", "precaching"} => state[b] = state'[b]
                /\ state'[b] \in {"installed"} \cup Running => state[b] \in {"installed"} \cup Running
      PROVE  PrecacheSound'
  BY <1>0, <1>3 DEF PrecacheSound
<1>4. ASSUME NEW b \in Builds, Install(b) PROVE PrecacheSound'
  <2>1. \A a \in Builds : Kept(a) => Kept(a)'
    BY <1>0, <1>1, <1>4, CacheNames, OpenGrows DEF Install
  <2>2. /\ state' = [state EXCEPT ![b] = "precaching"] /\ opened' = opened \cup {b} /\ state[b] = "none"
        /\ UNCHANGED <<precached, spoiled>>
    BY <1>4 DEF Install, history
  <2> QED BY <2>1, <2>2, <1>0 DEF PrecacheSound, Running
<1>5. ASSUME NEW b \in Builds, Installed(b) PROVE PrecacheSound'
  <2>1. /\ state[b] = "precaching" /\ opened' = opened \ {b} /\ spoiled' = spoiled
        /\ \A a \in Builds : state'[a] = IF a = b THEN "installed"
                                         ELSE IF state[a] = "installed" THEN "redundant" ELSE state[a]
        /\ precached \subseteq precached' /\ precached' \subseteq precached \cup {b}
    BY <1>5 DEF Installed, AddAll
  <2>2. \A a \in Builds : Kept(a) => Kept(a)'
    <3>1. STATIC_CACHE_URLS \in SUBSET Keys
      BY ServiceWorkerAssumption DEF STATIC_CACHE_URLS, Keys
    <3>2. CASE caches' = Keep(CACHE_NAME(b), STATIC_CACHE_URLS)
      BY <3>1, <3>2, <1>0, <1>1, CacheNames, KeepGrows
    <3> QED BY <3>2, <1>2, <1>5 DEF Installed, AddAll
  <2>3. b \in precached' /\ b \notin spoiled => Kept(b)'
    <3> SUFFICES ASSUME b \in precached', b \notin spoiled PROVE Kept(b)'
      OBVIOUS
    <3>1. b \notin precached /\ b \in opened
      BY <2>1, <1>0 DEF PrecacheSound
    <3>2. caches' = Keep(CACHE_NAME(b), STATIC_CACHE_URLS)
      BY <3>1, <1>5 DEF Installed, AddAll
    <3>3. STATIC_CACHE_URLS \in SUBSET Keys /\ OFFLINE_URL \in STATIC_CACHE_URLS
      BY ServiceWorkerAssumption DEF STATIC_CACHE_URLS, Keys
    <3>4. CACHE_NAME(b) \in DOMAIN caches' /\ STATIC_CACHE_URLS \subseteq caches'[CACHE_NAME(b)]
      BY <3>2, <3>3, <1>0, CacheNames, KeepGrows
    <3> QED BY <3>3, <3>4 DEF CACHE_NAME
  <2>4. \A a \in Builds : a # b => state[a] # "precaching"
    BY <2>1, <1>0 DEF Ordered
  <2>5. ASSUME NEW a \in Builds, a # b
        PROVE  /\ state'[a] \in {"none", "precaching"} => a \notin precached'
               /\ state'[a] # "precaching"
               /\ a \notin spoiled' /\ a \in precached' /\ state'[a] \in {"installed"} \cup Running => Kept(a)'
    BY <2>1, <2>2, <2>4, <2>5, <1>0 DEF PrecacheSound, Running
  <2> QED BY <2>1, <2>3, <2>5 DEF PrecacheSound
<1>6. ASSUME NEW b \in Builds, Activate(b) PROVE PrecacheSound'
  <2>1. UNCHANGED <<caches, opened, precached, spoiled>>
    BY <1>6 DEF Activate
  <2>2. state[b] = "installed" /\ \A a \in Builds :
           state'[a] = IF a = b THEN "activating" ELSE IF state[a] = "active" THEN "redundant" ELSE state[a]
    BY <1>6 DEF Activate
  <2> QED BY <2>1, <2>2, <1>2, <1>3 DEF Running
<1>7. ASSUME NEW b \in Builds, ListOld(b) \/ Activated(b) PROVE PrecacheSound'
  BY <1>0, <1>2, <1>3, <1>7 DEF ListOld, Activated, history, Running
<1>8. ASSUME NEW b \in Builds, Stop(b) PROVE PrecacheSound'
  <2>1. /\ UNCHANGED <<caches, precached, spoiled>> /\ opened' = opened \ {b}
        /\ state' = [state EXCEPT ![b] = IF @ = "precaching" THEN "none" ELSE "active"]
        /\ state[b] \in Running \cup {"precaching"}
    BY <1>8 DEF Stop
  <2>2. \A a \in Builds : Kept(a) => Kept(a)'
    BY <2>1, <1>2
  <2> QED BY <2>1, <2>2, <1>0 DEF PrecacheSound, Running
<1>9. ASSUME NEW n \in Names, Delete(n), UNCHANGED <<state, precached>>, spoiled \subseteq spoiled',
             \A b \in Builds \ spoiled' : CACHE_NAME(b) = n => state[b] \notin Installing \cup Running
      PROVE  PrecacheSound'
  <2>1. DOMAIN caches' = DOMAIN caches \ {n} /\ \A x \in DOMAIN caches' : caches'[x] = caches[x]
    BY <1>0, <1>9, DeleteShrinks
  <2>2. opened' = {b \in opened : CACHE_NAME(b) # n}
    BY <1>9 DEF Delete
  <2>3. \A b \in Builds : CACHE_NAME(b)' = CACHE_NAME(b)
    BY DEF CACHE_NAME
  <2> QED BY <2>1, <2>2, <2>3, <1>0, <1>9 DEF PrecacheSound, Installing
<1>10. ASSUME NEW b \in Builds, NEW n \in Names, DeleteOld(b, n) PROVE PrecacheSound'
  <2>1. /\ Delete(n) /\ state[b] = "cleaning" /\ n \in todo[b] /\ UNCHANGED <<state, precached>>
        /\ spoiled' = IF n[2] > b THEN spoiled \cup {n[2]} ELSE spoiled
    BY <1>10 DEF DeleteOld
  <2>2. ASSUME NEW a \in Builds \ spoiled', CACHE_NAME(a) = n PROVE state[a] \notin Installing \cup Running
    <3>1. n[2] = a /\ a # b
      BY <2>1, <2>2, <1>0, CacheNames DEF CleaningSound
    <3>2. ~(b < a)
      BY <3>1, <2>1, <2>2
    <3> QED BY <3>1, <3>2, <2>1, <1>0 DEF Ordered, Running
  <2> QED BY <2>1, <2>2, <1>9
<1>11. ASSUME NEW n \in Names, DeleteAny(n) PROVE PrecacheSound'
  <2>1. Delete(n) /\ UNCHANGED <<state, precached>> /\ spoiled' = spoiled \cup {n[2]}
    BY <1>11 DEF DeleteAny
  <2>2. \A a \in Builds \ spoiled' : CACHE_NAME(a) # n
    BY <2>1, CacheNames
  <2> QED BY <2>1, <2>2, <1>9
<1>12. ASSUME UNCHANGED <<state, opened, precached, spoiled>>, UNCHANGED caches \/ \E n : Grown(n)
       PROVE  PrecacheSound'
  BY <1>1, <1>2, <1>3, <1>12
<1>13. ASSUME NEW f \in Fetches, FetchStep(f) \/ KeepCopy(f) PROVE PrecacheSound'
  <2>1. UNCHANGED <<state, opened, precached, spoiled>>
    BY <1>13 DEF FetchStep, KeepCopy, NetworkAnswers, NetworkFails, Fallback, recordingCacheResponse, PassOn,
                 worker, history
  <2>2. CASE recordingCacheResponse(f)
    <3>1. fetch[f].worker \in Builds
      BY <2>2, <1>0 DEF recordingCacheResponse, Attended, FetchSound
    <3> QED BY <3>1, <2>1, <2>2, <1>0, <1>12, CacheNames, OpenGrows DEF recordingCacheResponse
  <2>3. CASE KeepCopy(f)
    <3>1. fetch[f].worker \in Builds /\ {fetch[f].url} \in SUBSET Keys
      BY <2>3, <1>0 DEF KeepCopy, Attended, FetchSound, Keys
    <3> QED BY <3>1, <2>1, <2>3, <1>0, <1>12, CacheNames, KeepGrows DEF KeepCopy
  <2> QED BY <1>13, <2>1, <2>2, <2>3, <1>12 DEF FetchStep, NetworkAnswers, NetworkFails, Fallback, PassOn
<1>14. ASSUME NEW s \in Saves, SaveStep(s) PROVE PrecacheSound'
  <2>1. UNCHANGED <<state, opened, precached, spoiled>>
    BY <1>14 DEF SaveStep, RecordingFetched, RecordingPut, RecordingFailed, Notify, worker, history
  <2>2. save[s].worker \in Builds /\ save[s].rec \in Recordings
        /\ save[s].cache \in {None, RECORDING_CACHE_NAME(save[s].worker)}
    BY <1>0, <1>14 DEF SaveStep, RecordingFetched, RecordingPut, RecordingFailed, Notify, Attended, SaveSound
  <2>3. CASE RecordingFetched(s)
    BY <2>1, <2>2, <2>3, <1>0, <1>12, CacheNames, OpenGrows DEF RecordingFetched
  <2>4. CASE RecordingPut(s)
    <3>1. {recordingCacheKey(<<"stream", save[s].rec>>)} \in SUBSET Keys
      BY <2>2, RecordingKey
    <3> QED BY <3>1, <2>1, <2>2, <2>4, <1>0, <1>12, CacheNames, KeepGrows DEF RecordingPut
  <2> QED BY <1>14, <2>1, <2>3, <2>4, <1>12 DEF SaveStep, RecordingFailed, Notify
<1>15. CASE UNCHANGED vars \/ Deploy \/ Cleared \/ (\E b \in Builds : ClearCache(b))
  BY <1>12, <1>15 DEF vars, worker, history, Deploy, Cleared, ClearCache
<1>16. ASSUME NEW f \in Fetches, NEW b \in Builds, NEW url \in Urls \cup Playback, FetchEvent(f, b, url)
       PROVE  PrecacheSound'
  BY <1>12, <1>16 DEF FetchEvent, worker, history
<1>17. ASSUME NEW s \in Saves, NEW b \in Builds, NEW r \in Recordings, CacheRecording(s, b, r)
       PROVE  PrecacheSound'
  BY <1>12, <1>17 DEF CacheRecording, worker
<1> QED BY <1>4, <1>5, <1>6, <1>7, <1>8, <1>10, <1>11, <1>13, <1>14, <1>15, <1>16, <1>17
        DEF Next, ActivateStep, ClearStep

-----------------------------------------------------------------------------
(* The theorems *)

\* No step leaves the invariant.
LEMMA SoundStep == Sound /\ [Next]_vars => Sound'
<1> SUFFICES ASSUME Sound, [Next]_vars PROVE Sound'
  OBVIOUS
<1>1. TypeOK' /\ Ordered' /\ Attended' /\ CleaningSound' /\ OldCachesGone' /\ PrecacheSound'
  BY TypeStep, OrderedStep, AttendedStep, CleaningStep, OldGoneStep, PrecacheStep
<1>2. HoldsSound'
  BY HoldStep, PromiseStep DEF HoldsSound
<1> QED BY <1>1, <1>2 DEF Sound

\* The invariant holds at all times.
LEMMA SoundAlways == Spec => []Sound
BY InitSound, SoundStep, PTL DEF Spec

\* Every variable keeps its type, for any number of builds.
THEOREM ServiceWorkerTypeCorrect == Spec => []TypeOK
<1>1. Sound => TypeOK
  BY DEF Sound
<1> QED BY SoundAlways, <1>1, PTL

\* However many builds follow one another, an activation that was not cut short leaves no
\* cache of an older build, and no late copy brings one back.
THEOREM NoOldCaches == Spec => []OldCachesGone
<1>1. Sound => OldCachesGone
  BY DEF Sound
<1> QED BY SoundAlways, <1>1, PTL

\* What the pages were told is saved stays in the cache of the build in charge, whatever
\* requests, saves, activations and stops run beside it.
THEOREM SavedRecordingsPlay == Spec => []PromisesKept
<1>1. Sound => PromisesKept
  <2> SUFFICES ASSUME Sound, NEW r \in promised, NEW path \in {"stream", "download"}, NEW b \in Builds,
                      state[b] \in Running
               PROVE  /\ RECORDING_CACHE_NAME(b) \in DOMAIN caches
                      /\ recordingCacheKey(<<path, r>>) \in caches[RECORDING_CACHE_NAME(b)]
    BY DEF PromisesKept
  <2>1. r \in Recordings
    BY DEF Sound, TypeOK
  <2>2. Held(b, r)
    BY DEF Sound, HoldsSound, PromiseSound
  <2> QED BY <2>1, <2>2, RecordingKey DEF Held
<1> QED BY SoundAlways, <1>1, PTL

\* Offline, a page is answered, for as long as nobody deletes what the build precached.
THEOREM OfflinePageIsThere == Spec => []OfflinePageShown
<1>1. Sound => OfflinePageShown
  <2> SUFFICES ASSUME Sound, NEW f \in Fetches, fetch[f].pc = "match", fetch[f].worker \in precached \ spoiled
               PROVE  Reply(fetch[f].url) # "nothing"
    BY DEF OfflinePageShown
  <2>1. fetch[f].worker \in Builds /\ state[fetch[f].worker] = "active"
    BY DEF Sound, Attended, FetchSound
  <2>2. Match(OFFLINE_URL)
    BY <2>1 DEF Sound, PrecacheSound, Match, Running
  <2> QED BY <2>2 DEF Reply
<1> QED BY SoundAlways, <1>1, PTL

\* The two computations of a range agree, whatever the size of the recording, where the
\* range names its first byte and no last byte beyond the end.
LEMMA RangesAgree ==
    ASSUME NEW first \in Nat, NEW last \in Nat \cup {None}, last # None => last < Size
    PROVE  RangeReply(first, last) = ServeContent(first, last)
<1>1. Size \in Nat /\ Size > 0 /\ first # None
  BY ServiceWorkerAssumption
<1>2. CASE last = None
  BY <1>1, <1>2 DEF RangeReply, ServeContent, Part, Unsatisfiable
<1>3. CASE last # None
  <2>1. last \in Nat /\ last < Size
    BY <1>3
  <2> QED BY <1>1, <1>3, <2>1 DEF RangeReply, ServeContent, Part, Unsatisfiable
<1> QED BY <1>2, <1>3

\* A saved recording answers ranges as the server does.
THEOREM RangesAreServed == Spec => []RangeLikeServer
<1>1. RangeLikeServer
  <2>1. Offsets \subseteq Nat
    BY ServiceWorkerAssumption
  <2> QED BY <2>1, RangesAgree DEF RangeLikeServer
<1> QED BY <1>1, PTL

=============================================================================
