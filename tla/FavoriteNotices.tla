-------------------------- MODULE FavoriteNotices --------------------------
(***************************************************************************)
(* Favourite programmes (internal/service/favorite.go) and the job that    *)
(* announces their broadcasts (checkFavoriteProgramsBroadcast of           *)
(* internal/job/scheduler.go): every five minutes it selects the           *)
(* favourites and inserts a notification for each whose programme starts   *)
(* within the next five.                                                   *)
(*                                                                         *)
(* Time is counted in minutes since a midnight.  A broadcasting day ends   *)
(* after midnight, and the table of programmes says so: what starts at one *)
(* o'clock at night is written 25:00.  The job compares such a label with  *)
(* the time of day as strings HHmm, whose order is that of the numbers.    *)
(* It reads no weekday and no date.  Its statements take no time on this   *)
(* clock, but requests come in between.                                    *)
(*                                                                         *)
(* A programme stands for the row that the job's look-up by station and    *)
(* title (LIMIT 1, in no order) finds, and keeps its label: the job that   *)
(* rewrites the starts runs at five, between two broadcasting days.        *)
(***************************************************************************)
EXTENDS Naturals, FiniteSets

CONSTANTS
    Users, Programs,
    Days,          \* weekdays of a favourite
    NoDay,         \* favorite_programs.broadcast_day IS NULL
    Requests,      \* requests that add a favourite at the same time
    None,
    Interval,      \* five minutes: the ticker's period and the window's length
    DayLength,     \* minutes of a day
    Labels,        \* the starts of programmes, counted on beyond DayLength
    MaxRow,        \* bound on the ids of favorite_programs
    MaxClock,      \* bound on the time
    MaxErrors,     \* bound on the ticks at which a statement of the job fails
    MaxRestarts    \* bound on the restarts of the server

ASSUME FavoriteNoticesAssumption ==
    /\ NoDay \notin Days
    /\ None \notin Users \cup Programs
    /\ Interval \in Nat \ {0}
    /\ DayLength \in Nat /\ DayLength > Interval
    /\ \A l \in Labels : l \in Nat /\ l >= Interval   \* the broadcasting day starts at five
    /\ MaxRow \in Nat /\ MaxClock \in Nat
    /\ MaxErrors \in Nat /\ MaxRestarts \in Nat

VARIABLES
    clock,      \* the time
    up,         \* when the server was started
    served,     \* the last tick the job answered
    label,      \* radio_programs.start of each programme
    favorites,  \* the rows of favorite_programs
    lastRow,    \* the last id handed out
    request,    \* requests between the test and the INSERT
    job,        \* the rows the job still has to look at
    notices,    \* the rows of notifications it inserted
    skipped,    \* history: the notifications a failed statement may have cost
    restarts

table == <<favorites, lastRow>>
vars == <<clock, up, served, label, table, request, job, notices, skipped, restarts>>

Favorite == [id : 1..MaxRow, user : Users, program : Programs, day : Days \cup {NoDay}, since : 0..MaxClock]
Request == [pc : {"idle", "insert"}, user : Users \cup {None}, program : Programs \cup {None},
            day : Days \cup {NoDay}]

Notice == [row : Favorite, at : 0..MaxClock]

TypeOK ==
    /\ clock \in 0..MaxClock
    /\ up \in 0..clock /\ served \in up..clock
    /\ label \in [Programs -> Labels]
    /\ favorites \subseteq Favorite
    /\ lastRow \in 0..MaxRow /\ \A f \in favorites : f.id <= lastRow
    /\ request \in [Requests -> Request]
    /\ job \subseteq Favorite
    /\ notices \cup skipped \subseteq Notice
    /\ restarts \in 0..MaxRestarts

Idle == [pc |-> "idle", user |-> None, program |-> None, day |-> NoDay]

Init ==
    /\ clock = 0 /\ up = 0 /\ served = 0
    /\ label \in [Programs -> Labels]
    /\ favorites = {} /\ lastRow = 0
    /\ request = [r \in Requests |-> Idle]
    /\ job = {} /\ notices = {} /\ skipped = {}
    /\ restarts = 0

-----------------------------------------------------------------------------
(* Favourites *)

Matching(u, p, d) == {f \in favorites : f.user = u /\ f.program = p /\ f.day = d}

\* The test whether the favourite exists already.
Add(r, u, p, d) ==
    /\ request[r].pc = "idle"
    /\ Matching(u, p, d) = {}
    /\ request' = [request EXCEPT ![r] = [pc |-> "insert", user |-> u, program |-> p, day |-> d]]
    /\ UNCHANGED <<clock, up, served, label, table, job, notices, skipped, restarts>>

\* Mutant of Refused: the migration without fav_programs_unique.
RefusedNever(q) == FALSE

\* The unique key of the table refuses a second row, but two NULLs are not equal.
Refused(q) == q.day # NoDay /\ Matching(q.user, q.program, q.day) # {}

\* The INSERT, which may fail for another reason as well.
Create(r) ==
    LET q == request[r]
    IN  /\ q.pc = "insert"
        /\ request' = [request EXCEPT ![r] = Idle]
        /\ \/ UNCHANGED table
           \/ /\ ~Refused(q)
              /\ lastRow < MaxRow
              /\ lastRow' = lastRow + 1
              /\ favorites' = favorites \cup
                     {[id |-> lastRow + 1, user |-> q.user, program |-> q.program, day |-> q.day, since |-> clock]}
        /\ UNCHANGED <<clock, up, served, label, job, notices, skipped, restarts>>

Remove(u, p, d) ==
    /\ favorites' = favorites \ Matching(u, p, d)
    /\ UNCHANGED <<clock, up, served, label, lastRow, request, job, notices, skipped, restarts>>

-----------------------------------------------------------------------------
(* The job *)

Due == clock > served /\ (clock - up) % Interval = 0

\* A minute passes; the ticker is punctual and the job faster than a minute.
Minute ==
    /\ clock < MaxClock
    /\ ~Due /\ job = {}
    /\ clock' = clock + 1
    /\ UNCHANGED <<up, served, label, table, request, job, notices, skipped, restarts>>

HHmm(t) == t % DayLength

\* Mutant of Starting: both ends of the window are left out.
StartingStrictly(start, now) == HHmm(now) < start /\ start < HHmm(now + Interval)

\* The programme with this start is taken to begin within the interval from now on.
Starting(start, now) == HHmm(now) <= start /\ start <= HHmm(now + Interval)

MayFail == Cardinality({n.at : n \in skipped}) < MaxErrors

\* The ticker's first tick comes an interval after the start; if the SELECT fails the
\* next one comes an interval later.
Tick ==
    /\ Due
    /\ served' = clock
    /\ \/ /\ job' = favorites
          /\ UNCHANGED skipped
       \/ /\ MayFail
          /\ skipped' = skipped \cup
                 {[row |-> f, at |-> clock] : f \in {g \in favorites : Starting(label[g.program], clock)}}
          /\ UNCHANGED job
    /\ UNCHANGED <<clock, up, label, table, request, notices, restarts>>

\* The next favourite of the list the job selected, whether or not it is still one; a
\* failure to read its programme or to insert the notification is not made up for.
Announce(f) ==
    LET notice == [row |-> f, at |-> served]
    IN  /\ f \in job
        /\ job' = job \ {f}
        /\ IF ~Starting(label[f.program], served) THEN UNCHANGED <<notices, skipped>>
           ELSE \/ notices' = notices \cup {notice} /\ UNCHANGED skipped
                \/ MayFail /\ skipped' = skipped \cup {notice} /\ UNCHANGED notices
        /\ UNCHANGED <<clock, up, served, label, table, request, restarts>>

\* Mutant of Restart: the ticker goes on where the old one stood.
RestartMidway ==
    /\ restarts < MaxRestarts
    /\ restarts' = restarts + 1
    /\ up' = clock
    /\ job' = {}
    /\ request' = [r \in Requests |-> Idle]
    /\ UNCHANGED <<clock, served, label, table, notices, skipped>>

\* The server starts again, and with it the ticker.
Restart ==
    /\ restarts < MaxRestarts
    /\ restarts' = restarts + 1
    /\ up' = clock /\ served' = clock
    /\ job' = {}
    /\ request' = [r \in Requests |-> Idle]
    /\ UNCHANGED <<clock, label, table, notices, skipped>>

Next ==
    \/ \E r \in Requests, u \in Users, p \in Programs, d \in Days \cup {NoDay} : Add(r, u, p, d)
    \/ \E r \in Requests : Create(r)
    \/ \E u \in Users, p \in Programs, d \in Days \cup {NoDay} : Remove(u, p, d)
    \/ Minute \/ Tick \/ Restart
    \/ \E f \in Favorite : Announce(f)

Spec == Init /\ [][Next]_vars

-----------------------------------------------------------------------------
(* Properties *)

\* The label is one the time of day never shows, or the window around it wraps.
AfterMidnight(p) == label[p] >= DayLength
BeforeMidnight(p) == label[p] < DayLength /\ label[p] + Interval >= DayLength

\* The broadcasts of a programme that lie in the past.
Broadcasts(p) == {t \in 0..(clock - 1) : t >= label[p] /\ (t - label[p]) % DayLength = 0}

\* A favourite that was there, on a running server, for the five minutes before a
\* broadcast has been announced when it is over, unless a statement failed.  Not so from five minutes before
\* midnight on: the window ends at a smaller HHmm than it begins, and no time of day
\* reaches 24:00, so that a programme after midnight is never announced at all.
StartsAnnounced ==
    \A f \in favorites : \A t \in Broadcasts(f.program) :
        f.since + Interval <= t /\ up + Interval <= t
            => \/ AfterMidnight(f.program) \/ BeforeMidnight(f.program)
               \/ \E n \in notices \cup skipped : n.row = f /\ n.at <= t /\ t <= n.at + Interval

\* A user hears once of a broadcast, for each weekday he marked it for.  Twice only if
\* the broadcast starts in the minute of a tick, which is the end of one window and the
\* beginning of the next, or if two requests without a weekday added it twice.
AnnouncedOnce ==
    \A m, n \in notices :
        /\ m # n
        /\ m.row.user = n.row.user /\ m.row.program = n.row.program
        /\ m.at <= n.at /\ n.at <= m.at + Interval
        => \/ m.row.day # n.row.day
           \/ m.row.day = NoDay /\ m.row.id # n.row.id
           \/ m.at < n.at /\ HHmm(n.at) = label[n.row.program]
=============================================================================
