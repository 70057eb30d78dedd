----------------------- MODULE FavoriteNoticesProofs -----------------------
(***************************************************************************)
(* Proofs about the favourite broadcast notices.  The ticks lie an         *)
(* interval apart, so that their windows touch but do not overlap and      *)
(* leave no gap; the rest is the arithmetic of the time of day.            *)
(***************************************************************************)
EXTENDS FavoriteNotices, TLAPS

-----------------------------------------------------------------------------
(* The time of day *)

\* A number less than the modulus is what remains of it and a multiple.
LEMMA Remainder ==
  ASSUME NEW k \in Nat, NEW d \in Nat \ {0}, NEW x \in 0..(d - 1)
  PROVE  (k * d + x) % d = x
  OBVIOUS

\* Quotient and remainder.
LEMMA Division ==
  ASSUME NEW a \in Nat, NEW d \in Nat \ {0}
  PROVE  \E q \in Nat : a = q * d + (a % d)
<1>1. a = d * (a \div d) + (a % d) /\ a \div d \in Nat
  OBVIOUS
<1>2. WITNESS a \div d \in Nat
<1> QED
  BY <1>1

\* From one multiple to the next.
LEMMA NextMultiple ==
  ASSUME NEW a \in Nat, NEW d \in Nat \ {0}, a % d = 0
  PROVE  \A x \in 1..d : ((a + x) % d = 0 <=> x = d)
<1> TAKE x \in 1..d
<1>1. PICK q \in Nat : a = q * d
  <2>1. PICK q \in Nat : a = q * d + (a % d)
    BY Division
  <2>2. q * d \in Nat /\ q * d + 0 = q * d
    OBVIOUS
  <2> QED
    BY <2>1, <2>2
<1>2. CASE x = d
  <2>1. PICK n \in Nat : n = q + 1
    OBVIOUS
  <2>2. a + x = n * d + 0
    BY <1>1, <1>2, <2>1
  <2>3. (n * d + 0) % d = 0
    BY Remainder
  <2> QED
    BY <1>2, <2>2, <2>3
<1>3. CASE x # d
  <2>1. a + x = q * d + x /\ x \in 0..(d - 1)
    BY <1>1, <1>3
  <2>2. (q * d + x) % d = x
    BY <2>1, Remainder
  <2> QED
    BY <1>3, <2>1, <2>2
<1> QED
  BY <1>2, <1>3

\* The broadcast of a programme lies in the window of a tick not more than an interval before
\* it, if neither label nor window passes midnight.
LEMMA InWindow ==
  ASSUME NEW l \in Nat, NEW s \in Nat, NEW t \in Nat,
         Interval <= l, l + Interval < DayLength,
         s <= t, t <= s + Interval, l <= t, (t - l) % DayLength = 0
  PROVE  Starting(l, s)
<1>0. Interval \in Nat \ {0} /\ DayLength \in Nat \ {0}
  BY FavoriteNoticesAssumption
<1>1. PICK k \in Nat : t - l = k * DayLength
  <2>1. PICK k \in Nat : t - l = k * DayLength + ((t - l) % DayLength)
    <3>1. t - l \in Nat
      OBVIOUS
    <3> QED
      BY <1>0, <3>1, Division
  <2>2. k * DayLength \in Nat /\ k * DayLength + 0 = k * DayLength
    BY <1>0
  <2> QED
    BY <2>1, <2>2
<1>2. PICK n \in Nat : n = k * DayLength
  BY <1>0
<1>3. s - n \in 0..(DayLength - 1) /\ s + Interval - n \in 0..(DayLength - 1)
  BY <1>0, <1>1, <1>2
<1>4. s % DayLength = s - n /\ (s + Interval) % DayLength = s + Interval - n
  <2>1. \A x \in 0..(DayLength - 1) : (k * DayLength + x) % DayLength = x
    BY <1>0, Remainder
  <2>2. \A x \in 0..(DayLength - 1) : (n + x) % DayLength = x
    BY <1>2, <2>1
  <2>3. s = n + (s - n) /\ s + Interval = n + (s + Interval - n)
    BY <1>0, <1>2
  <2> QED
    BY <1>3, <2>2, <2>3
<1> QED
  BY <1>0, <1>1, <1>2, <1>4 DEF Starting, HHmm

-----------------------------------------------------------------------------
(* Types *)

\* A request between two calls is a request.
LEMMA IdleType == Idle \in Request /\ Idle.pc = "idle"
  BY DEF Idle, Request

\* A request that is about to insert a favourite names its user and its programme.
Named == \A r \in Requests : request[r].pc = "insert" => request[r].user \in Users /\ request[r].program \in Programs

Typed == TypeOK /\ Named

\* The row a request inserts.
NewRow(q) == [id |-> lastRow + 1, user |-> q.user, program |-> q.program, day |-> q.day, since |-> clock]

\* A request either changes no row or inserts one the unique key allows.
LEMMA CreateRow ==
  ASSUME Typed, NEW r \in Requests, Create(r)
  PROVE  /\ UNCHANGED <<clock, up, served, label, job, notices, skipped, restarts>>
         /\ request' \in [Requests -> Request] /\ Named'
         /\ \/ UNCHANGED table
            \/ \E q \in Request :
                 /\ ~Refused(q) /\ lastRow < MaxRow
                 /\ NewRow(q) \in Favorite
                 /\ lastRow' = lastRow + 1
                 /\ favorites' = favorites \cup {NewRow(q)}
<1> USE IdleType, FavoriteNoticesAssumption
<1>1. PICK q \in Request : q = request[r]
  BY DEF Typed, TypeOK
<1>2. q.pc = "insert" /\ q.user \in Users /\ q.program \in Programs
  BY <1>1 DEF Create, Typed, Named
<1>3. request' \in [Requests -> Request] /\ Named'
  BY DEF Create, Typed, TypeOK, Named
<1>4. lastRow < MaxRow => NewRow(q) \in Favorite
  BY <1>2 DEF NewRow, Favorite, Request, Typed, TypeOK
<1> QED
  BY <1>1, <1>3, <1>4 DEF Create, NewRow

\* What an Announce step does: the row leaves the list, and if it is in the window it has a notification or a failed statement.
LEMMA AnnounceEffect ==
  ASSUME NEW f \in Favorite, Announce(f)
  PROVE  /\ UNCHANGED <<clock, up, served, label, table, request, restarts>>
         /\ f \in job /\ job' = job \ {f}
         /\ \/ ~Starting(label[f.program], served) /\ UNCHANGED <<notices, skipped>>
            \/ /\ Starting(label[f.program], served)
               /\ \/ notices' = notices \cup {[row |-> f, at |-> served]} /\ UNCHANGED skipped
                  \/ skipped' = skipped \cup {[row |-> f, at |-> served]} /\ UNCHANGED notices
  BY DEF Announce

\* Types and requests fit together after every step.
LEMMA TypeStep == (Init => Typed) /\ (Typed /\ [Next]_vars => Typed')
<1>1. ASSUME Init PROVE Typed
  BY <1>1, FavoriteNoticesAssumption, IdleType DEF Init, TypeOK, Typed, Named
<1>2. ASSUME Typed, [Next]_vars PROVE Typed'
  <2> USE <1>2, FavoriteNoticesAssumption, IdleType
  <2>1. ASSUME NEW r \in Requests, NEW u \in Users, NEW p \in Programs, NEW d \in Days \cup {NoDay},
               Add(r, u, p, d)
        PROVE  Typed'
    <3>1. /\ request' \in [Requests -> Request] /\ Named'
      BY <2>1 DEF Add, Request, Typed, TypeOK, Named
    <3> QED
      BY <2>1, <3>1 DEF Add, table, Typed, TypeOK
  <2>2. ASSUME NEW r \in Requests, Create(r) PROVE Typed'
    <3>1. CASE UNCHANGED table
      BY <2>2, <3>1, CreateRow DEF table, Typed, TypeOK
    <3>2. ASSUME NEW x \in Favorite, x.id = lastRow + 1, lastRow < MaxRow, lastRow' = lastRow + 1,
                 favorites' = favorites \cup {x}
          PROVE  Typed'
      BY <2>2, <3>2, CreateRow DEF Typed, TypeOK, Favorite
    <3> QED
      BY <2>2, <3>1, <3>2, CreateRow DEF NewRow
  <2>3. ASSUME NEW u \in Users, NEW p \in Programs, NEW d \in Days \cup {NoDay}, Remove(u, p, d)
        PROVE  Typed'
    BY <2>3 DEF Remove, Typed, TypeOK, Named
  <2>4. CASE Minute
    BY <2>4 DEF Minute, table, Typed, TypeOK, Named
  <2>5. CASE Tick
    BY <2>5 DEF Tick, Due, table, Notice, Typed, TypeOK, Named
  <2>6. CASE Restart
    BY <2>6 DEF Restart, table, Typed, TypeOK, Named
  <2>7. ASSUME NEW f \in Favorite, Announce(f) PROVE Typed'
    <3>1. [row |-> f, at |-> served] \in Notice
      BY DEF Notice, Typed, TypeOK
    <3> QED
      BY <2>7, <3>1, AnnounceEffect DEF table, Typed, TypeOK, Named
  <2>8. CASE UNCHANGED vars
    BY <2>8 DEF vars, table, Typed, TypeOK, Named
  <2> QED
    BY <2>1, <2>2, <2>3, <2>4, <2>5, <2>6, <2>7, <2>8 DEF Next
<1> QED
  BY <1>1, <1>2

\* Every state is well typed: no time, row or notification outside its range, and no row
\* without a user or a programme.
THEOREM NoticesTypeCorrect == Spec => []TypeOK
<1>1. Typed => TypeOK
  BY DEF Typed
<1> QED
  BY TypeStep, <1>1, PTL DEF Spec

-----------------------------------------------------------------------------
(* The ticker *)

\* The job is at work only in the minute of its tick, and the next tick comes when an interval
\* has passed since the last one or since the start.
Ticking ==
    /\ clock <= served + Interval
    /\ (served - up) % Interval = 0
    /\ job # {} => clock = served

\* What is due is due an interval after the last tick.
LEMMA DueAt ==
  ASSUME TypeOK, Ticking
  PROVE  Due <=> clock = served + Interval
<1>1. PICK x \in 0..Interval : clock - served = x
  BY FavoriteNoticesAssumption DEF TypeOK, Ticking
<1>2. PICK a \in Nat : a = served - up
  BY FavoriteNoticesAssumption DEF TypeOK
<1>3. clock - up = a + x /\ a % Interval = 0
  BY <1>1, <1>2, FavoriteNoticesAssumption DEF TypeOK, Ticking
<1>4. ASSUME x # 0 PROVE (a + x) % Interval = 0 <=> x = Interval
  <2>1. Interval \in Nat \ {0}
    BY FavoriteNoticesAssumption
  <2>2. \A y \in 1..Interval : ((a + y) % Interval = 0 <=> y = Interval)
    BY <1>3, <2>1, NextMultiple
  <2>3. x \in 1..Interval
    BY <1>4, <2>1
  <2> HIDE <1>4
  <2> QED
    BY <2>2, <2>3
<1> QED
  BY <1>1, <1>3, <1>4, FavoriteNoticesAssumption DEF Due, TypeOK

\* Only ticks, restarts and the clock move the ticker on, and no tick comes before the job is done.
LEMMA TickingStep == (Init => Ticking) /\ (Typed /\ Ticking /\ [Next]_vars => Ticking')
<1>1. ASSUME Init PROVE Ticking
  <2>1. 0 % Interval = 0
    BY Remainder, FavoriteNoticesAssumption
  <2> QED
    BY <1>1, <2>1, FavoriteNoticesAssumption DEF Init, Ticking
<1>2. ASSUME Typed, Ticking, [Next]_vars PROVE Ticking'
  <2> USE <1>2, FavoriteNoticesAssumption
  <2>1. ASSUME UNCHANGED <<clock, up, served>>, job' \subseteq job PROVE Ticking'
    BY <2>1 DEF Ticking
  <2>2. CASE Minute
    <3>1. clock < served + Interval
      BY <2>2, DueAt DEF Minute, Typed, TypeOK, Ticking
    <3> QED
      BY <2>2, <3>1 DEF Minute, Typed, TypeOK, Ticking
  <2>3. CASE Tick
    <3>1. clock' = clock /\ up' = up /\ served' = clock /\ (clock - up) % Interval = 0
      BY <2>3 DEF Tick, Due
    <3> QED
      BY <3>1 DEF Ticking, Typed, TypeOK
  <2>4. CASE Restart
    <3>1. clock' = clock /\ up' = clock /\ served' = clock /\ job' = {}
      BY <2>4 DEF Restart
    <3>2. 0 % Interval = 0 /\ clock - clock = 0
      BY Remainder DEF Typed, TypeOK
    <3> QED
      BY <3>1, <3>2 DEF Ticking, Typed, TypeOK
  <2>5. ASSUME NEW f \in Favorite, Announce(f) PROVE Ticking'
    BY <2>1, <2>5, AnnounceEffect
  <2>6. ASSUME NEW r \in Requests, Create(r) PROVE Ticking'
    BY <2>1, <2>6 DEF Create
  <2> QED
    BY <2>1, <2>2, <2>3, <2>4, <2>5, <2>6 DEF Next, vars, Add, Remove
<1> QED
  BY <1>1, <1>2

-----------------------------------------------------------------------------
(* One notification of a broadcast *)

\* Rows of favorite_programs that may stand beside each other: by the key they differ in the
\* user, the programme or the day, unless they have none.
Distinct(rows) ==
    \A f, g \in rows : f # g =>
        /\ f.id # g.id
        /\ f.user = g.user /\ f.program = g.program /\ f.day = g.day => f.day = NoDay

\* The rows announced at a time.
AnnouncedAt(s) == {n.row : n \in {m \in notices : m.at = s}}

\* The notifications of one tick are those of rows that were selected together, all in the
\* window of their tick; ticks that announced something lie an interval apart.
Announced ==
    /\ Distinct(favorites)
    /\ Distinct(job \cup AnnouncedAt(served))
    /\ \A s \in Nat : Distinct(AnnouncedAt(s))
    /\ \A n \in notices : n.at <= served /\ Starting(label[n.row.program], n.at)
    /\ \A m, n \in notices : m.at < n.at => m.at + Interval <= n.at
    /\ job # {} => \A m \in notices : m.at < served => m.at + Interval <= served

\* Rows taken away do no harm.
LEMMA DistinctSubset == ASSUME NEW S, NEW T \in SUBSET S, Distinct(S) PROVE Distinct(T)
  BY DEF Distinct

\* What does not announce, select or insert anything keeps the notifications apart.
LEMMA AnnouncedKept ==
  ASSUME Announced, UNCHANGED <<served, label, notices>>, job' \subseteq job, favorites' \subseteq favorites
  PROVE  Announced'
<1>1. \A s \in Nat : AnnouncedAt(s)' = AnnouncedAt(s)
  BY DEF AnnouncedAt
<1>2. AnnouncedAt(served)' = AnnouncedAt(served)
  BY DEF AnnouncedAt
<1>3. Distinct(favorites')
  BY DistinctSubset DEF Announced
<1>4. Distinct(job' \cup AnnouncedAt(served))
  BY DistinctSubset DEF Announced
<1> QED
  BY <1>1, <1>2, <1>3, <1>4 DEF Announced, Distinct

\* No step announces a row twice, nor two rows that do not stand beside each other.
LEMMA AnnouncedStep == (Init => Announced) /\ (Typed /\ Ticking /\ Announced /\ [Next]_vars => Announced')
<1>1. ASSUME Init PROVE Announced
  BY <1>1 DEF Init, Announced, Distinct, AnnouncedAt
<1>2. ASSUME Typed, Ticking, Announced, [Next]_vars PROVE Announced'
  <2> USE <1>2
  <2>1. ASSUME NEW r \in Requests, Create(r) PROVE Announced'
    <3>1. CASE UNCHANGED table
      BY <2>1, <3>1, AnnouncedKept, CreateRow DEF table
    <3>2. ASSUME NEW q \in Request, ~Refused(q), favorites' = favorites \cup {NewRow(q)}
          PROVE  Announced'
      <4>1. Distinct(favorites')
        <5>1. \A f \in favorites : f.id # NewRow(q).id
          BY DEF Typed, TypeOK, NewRow, Favorite
        <5>2. \A f \in favorites :
                 f.user = NewRow(q).user /\ f.program = NewRow(q).program /\ f.day = NewRow(q).day
                 => f.day = NoDay
          BY <3>2 DEF Refused, Matching, NewRow
        <5>3. \A f \in favorites :
                 f.user = NewRow(q).user /\ f.program = NewRow(q).program /\ f.day = NewRow(q).day
                 => NewRow(q).day = NoDay
          BY <5>2
        <5> HIDE <1>2
        <5>4. Distinct(favorites)
          BY <1>2 DEF Announced
        <5> QED
          BY <3>2, <5>1, <5>2, <5>3, <5>4 DEF Distinct
      <4>2. UNCHANGED <<served, label, notices, job>>
        BY <2>1, CreateRow
      <4>3. \A s \in Nat : AnnouncedAt(s)' = AnnouncedAt(s)
        BY <4>2 DEF AnnouncedAt
      <4>4. AnnouncedAt(served)' = AnnouncedAt(served)
        BY <4>2 DEF AnnouncedAt
      <4> QED
        BY <4>1, <4>2, <4>3, <4>4 DEF Announced, Distinct
    <3> QED
      BY <2>1, <3>1, <3>2, CreateRow
  <2>2. CASE Tick
    <3>1. /\ served' = clock /\ clock = served + Interval
          /\ job = {} /\ job' \in {{}, favorites} /\ UNCHANGED <<label, notices, favorites>>
      BY <2>2, DueAt, FavoriteNoticesAssumption DEF Tick, Typed, TypeOK, Ticking, table
    <3>2. \A n \in notices : n.at \in Nat /\ n.at + Interval <= served'
      BY <3>1, FavoriteNoticesAssumption DEF Announced, Typed, TypeOK, Notice
    <3>3. AnnouncedAt(served)' = {}
      BY <3>1, <3>2, FavoriteNoticesAssumption DEF AnnouncedAt, Typed, TypeOK
    <3>4. \A s \in Nat : AnnouncedAt(s)' = AnnouncedAt(s)
      BY <3>1 DEF AnnouncedAt
    <3>5. Distinct(job' \cup AnnouncedAt(served)')
      BY <3>1, <3>3 DEF Announced, Distinct
    <3> QED
      BY <3>1, <3>2, <3>4, <3>5, FavoriteNoticesAssumption DEF Announced, Distinct, Typed, TypeOK
  <2>3. CASE Restart
    <3>1. served' = clock /\ job' = {} /\ UNCHANGED <<label, notices, favorites>>
      BY <2>3 DEF Restart, table
    <3>2. \A s \in Nat : AnnouncedAt(s)' = AnnouncedAt(s)
      BY <3>1 DEF AnnouncedAt
    <3>3. AnnouncedAt(served)' = AnnouncedAt(clock) /\ clock \in Nat /\ served \in Nat /\ served <= clock
      BY <3>1 DEF AnnouncedAt, Typed, TypeOK
    <3>4. \A n \in notices : n.at \in Nat /\ n.at <= served'
      BY <3>1, <3>3 DEF Announced, Typed, TypeOK, Notice
    <3>5. Distinct(job' \cup AnnouncedAt(served)')
      BY <3>1, <3>3 DEF Announced, Distinct
    <3> QED
      BY <3>1, <3>2, <3>4, <3>5 DEF Announced, Distinct
  <2>4. ASSUME NEW f \in Favorite, Announce(f) PROVE Announced'
    <3>1. /\ f \in job /\ job' = job \ {f}
          /\ UNCHANGED <<served, label, favorites>>
      BY <2>4, AnnounceEffect DEF table
    <3>2. CASE UNCHANGED notices
      BY <3>1, <3>2, AnnouncedKept
    <3>3. CASE Starting(label[f.program], served) /\ notices' = notices \cup {[row |-> f, at |-> served]}
      <4>1. AnnouncedAt(served)' = AnnouncedAt(served) \cup {f}
        <5> DEFINE new == [row |-> f, at |-> served]
        <5>1. new.row = f /\ new.at = served
          OBVIOUS
        <5> HIDE DEF new
        <5>2. notices' = notices \cup {new} /\ served' = served
          BY <3>1, <3>3 DEF new
        <5>3. \A x : x \in AnnouncedAt(served)' <=> \E n \in notices \cup {new} : n.at = served /\ x = n.row
          BY <5>2 DEF AnnouncedAt
        <5>4. \A x : x \in AnnouncedAt(served) <=> \E n \in notices : n.at = served /\ x = n.row
          BY DEF AnnouncedAt
        <5> QED
          BY <5>1, <5>3, <5>4
      <4>2. job' \cup AnnouncedAt(served)' = job \cup AnnouncedAt(served)
        BY <3>1, <4>1
      <4>3. ASSUME NEW s \in Nat PROVE Distinct(AnnouncedAt(s)')
        <5>1. CASE s = served
          <6>1. AnnouncedAt(s)' \subseteq job \cup AnnouncedAt(served)
            BY <3>1, <3>3, <5>1 DEF AnnouncedAt
          <6> QED
            BY <6>1, DistinctSubset DEF Announced
        <5>2. CASE s # served
          <6>1. AnnouncedAt(s)' = AnnouncedAt(s)
            BY <3>3, <5>2 DEF AnnouncedAt
          <6> QED
            BY <6>1 DEF Announced
        <5> QED
          BY <5>1, <5>2
      <4>4. \A m \in notices : m.at \in Nat /\ m.at <= served /\ (m.at < served => m.at + Interval <= served)
        BY <3>1 DEF Announced, Typed, TypeOK, Notice
      <4>5. served \in Nat
        BY DEF Typed, TypeOK
      <4>6. \A n \in notices' : n.at <= served' /\ Starting(label'[n.row.program], n.at)
        BY <3>1, <3>3, <4>5 DEF Announced
      <4>7. \A m, n \in notices' : m.at < n.at => m.at + Interval <= n.at
        BY <3>3, <4>4, <4>5 DEF Announced
      <4>8. job' # {} => \A m \in notices' : m.at < served' => m.at + Interval <= served'
        BY <3>1, <3>3, <4>4, <4>5
      <4>9. Distinct(favorites') /\ Distinct(job' \cup AnnouncedAt(served)')
        BY <3>1, <4>2 DEF Announced
      <4>10. UNCHANGED label
        BY <3>1
      <4> QED
        BY <4>3, <4>6, <4>7, <4>8, <4>9, <4>10 DEF Announced, Distinct, Starting, HHmm
    <3> QED
      BY <2>4, <3>2, <3>3, AnnounceEffect
  <2>5. ASSUME NEW u \in Users, NEW p \in Programs, NEW d \in Days \cup {NoDay}, Remove(u, p, d)
        PROVE  Announced'
    BY <2>5, AnnouncedKept DEF Remove
  <2>6. CASE UNCHANGED <<served, label, notices, job, favorites>>
    BY <2>6, AnnouncedKept
  <2> QED
    BY <2>1, <2>2, <2>3, <2>4, <2>5, <2>6 DEF Next, vars, table, Add, Minute
<1> QED
  BY <1>1, <1>2

\* However often the server starts again, a user is told once of a broadcast, with the two
\* exceptions the property names.
THEOREM NoSecondNotice == Spec => []AnnouncedOnce
<1>1. Typed /\ Announced => AnnouncedOnce
  <2> SUFFICES ASSUME Typed, Announced, NEW m \in notices, NEW n \in notices,
                      m # n, m.row.user = n.row.user, m.row.program = n.row.program,
                      m.at <= n.at, n.at <= m.at + Interval, m.row.day = n.row.day
               PROVE  \/ m.row.day = NoDay /\ m.row.id # n.row.id
                      \/ m.at < n.at /\ HHmm(n.at) = label[n.row.program]
    BY DEF AnnouncedOnce
  <2>1. m \in Notice /\ n \in Notice
    BY DEF Typed, TypeOK
  <2>2. CASE m.at = n.at
    <3>1. m.row # n.row
      BY <2>1, <2>2 DEF Notice
    <3>2. m.row \in AnnouncedAt(m.at) /\ n.row \in AnnouncedAt(m.at) /\ m.at \in Nat
      BY <2>1, <2>2 DEF AnnouncedAt, Notice
    <3> QED
      BY <3>1, <3>2 DEF Announced, Distinct
  <2>3. CASE m.at < n.at
    <3>1. n.at = m.at + Interval
      BY <2>1, <2>3, FavoriteNoticesAssumption DEF Announced, Notice
    <3>2. label[m.row.program] <= HHmm(n.at) /\ HHmm(n.at) <= label[n.row.program]
      BY <3>1 DEF Announced, Starting
    <3>3. HHmm(n.at) \in Nat /\ label[n.row.program] \in Nat
      BY <2>1, FavoriteNoticesAssumption DEF Typed, TypeOK, Notice, Favorite, HHmm
    <3> QED
      BY <2>3, <3>2, <3>3
  <2> QED
    BY <2>1, <2>2, <2>3 DEF Notice
<1> QED
  BY TypeStep, TickingStep, AnnouncedStep, <1>1, PTL DEF Spec

-----------------------------------------------------------------------------
(* No broadcast missed *)

\* A tick not more than an interval before t looked at the favourite, or is about to.
Looked(f, s, t) ==
    /\ s <= t /\ t <= s + Interval /\ s <= served
    /\ Starting(label[f.program], s) =>
          [row |-> f, at |-> s] \in notices \cup skipped \/ (s = served /\ f \in job)

\* Every minute up to the next tick at which a favourite is five minutes old, on a server that
\* is five minutes up, has such a tick.
Heard ==
    \A f \in favorites, t \in Nat :
        f.since + Interval <= t /\ up + Interval <= t /\ t < served + Interval
            => \E s \in Nat : Looked(f, s, t)

\* A favourite is looked at for as long as the ticker stands and the job keeps what it drops.
LEMMA HeardKept ==
  ASSUME Heard, UNCHANGED <<up, served, label>>,
         \A f \in favorites' : f \in favorites \/ f.since + Interval >= served + Interval,
         \A f \in favorites' : f.since \in Nat, Typed,
         notices \subseteq notices', skipped \subseteq skipped',
         \A f \in job \ job' :
            Starting(label[f.program], served) => [row |-> f, at |-> served] \in notices' \cup skipped'
  PROVE  Heard'
<1> SUFFICES ASSUME NEW f \in favorites', NEW t \in Nat,
                    f.since + Interval <= t, up + Interval <= t, t < served + Interval
             PROVE  \E s \in Nat : Looked(f, s, t)'
  BY DEF Heard
<1>1. f \in favorites
  BY FavoriteNoticesAssumption DEF Typed, TypeOK
<1>2. PICK s \in Nat : Looked(f, s, t)
  BY <1>1 DEF Heard
<1>3. Looked(f, s, t)'
  BY <1>2 DEF Looked, Starting, HHmm
<1> QED
  BY <1>3

\* No step loses a favourite that a tick has selected.
LEMMA HeardStep == (Init => Heard) /\ (Typed /\ Ticking /\ Heard /\ [Next]_vars => Heard')
<1>1. ASSUME Init PROVE Heard
  BY <1>1 DEF Init, Heard
<1>2. ASSUME Typed, Ticking, Heard, [Next]_vars PROVE Heard'
  <2> USE <1>2
  <2>0. \A f \in favorites : f.since \in Nat
    BY DEF Typed, TypeOK, Favorite
  <2>1. ASSUME NEW r \in Requests, Create(r) PROVE Heard'
    <3>1. CASE UNCHANGED table
      BY <2>0, <2>1, <3>1, CreateRow, HeardKept DEF table
    <3>2. ASSUME NEW q \in Request, favorites' = favorites \cup {NewRow(q)}
          PROVE  Heard'
      <4>1. NewRow(q).since = clock /\ clock \in Nat /\ served \in Nat /\ served <= clock
        BY DEF NewRow, Typed, TypeOK
      <4>2. \A f \in favorites' : f.since \in Nat /\ (f \in favorites \/ f.since + Interval >= served + Interval)
        BY <2>0, <3>2, <4>1, FavoriteNoticesAssumption
      <4> QED
        BY <2>1, <4>2, CreateRow, HeardKept
    <3> QED
      BY <2>1, <3>1, <3>2, CreateRow
  <2>2. CASE Tick
    <3>1. /\ served' = clock /\ clock = served + Interval /\ UNCHANGED <<up, label, notices, favorites>>
          /\ job = {} /\ skipped \subseteq skipped'
      BY <2>2, DueAt, FavoriteNoticesAssumption DEF Tick, Typed, TypeOK, Ticking, table
    <3>2. \A f \in favorites :
             Starting(label[f.program], clock) => [row |-> f, at |-> clock] \in skipped' \/ f \in job'
      BY <2>2 DEF Tick
    <3>3. SUFFICES ASSUME NEW f \in favorites, NEW t \in Nat,
                          f.since + Interval <= t, up + Interval <= t, t < clock + Interval
                   PROVE  \E s \in Nat : Looked(f, s, t)'
      BY <3>1 DEF Heard
    <3>4. clock \in Nat /\ served \in Nat /\ Interval \in Nat \ {0}
      BY FavoriteNoticesAssumption DEF Typed, TypeOK
    <3>5. CASE t < clock
      <4>1. PICK s \in Nat : Looked(f, s, t)
        BY <3>1, <3>3, <3>5 DEF Heard
      <4>2. Looked(f, s, t)'
        BY <3>1, <3>4, <4>1 DEF Looked, Starting, HHmm
      <4> QED
        BY <4>2
    <3>6. CASE clock <= t
      <4>0. PICK s \in Nat : s = clock
        BY <3>4
      <4>1. Looked(f, s, t)'
        BY <3>1, <3>2, <3>3, <3>4, <3>6, <4>0 DEF Looked, Starting, HHmm
      <4> QED
        BY <4>1
    <3> QED
      BY <3>4, <3>5, <3>6
  <2>3. CASE Restart
    BY <2>3, FavoriteNoticesAssumption DEF Restart, Heard, Typed, TypeOK
  <2>4. ASSUME NEW f \in Favorite, Announce(f) PROVE Heard'
    <3>1. /\ UNCHANGED <<up, served, label, favorites>> /\ job \ job' \subseteq {f}
          /\ notices \subseteq notices' /\ skipped \subseteq skipped'
          /\ Starting(label[f.program], served) => [row |-> f, at |-> served] \in notices' \cup skipped'
      BY <2>4, AnnounceEffect DEF table
    <3> QED
      BY <2>0, <3>1, HeardKept
  <2>5. CASE UNCHANGED <<up, served, label, notices, skipped, job>> /\ favorites' \subseteq favorites
    BY <2>0, <2>5, HeardKept
  <2> QED
    BY <2>1, <2>2, <2>3, <2>4, <2>5 DEF Next, vars, table, Add, Remove, Minute
<1> QED
  BY <1>1, <1>2

\* No broadcast of a favourite goes by unannounced, on a server that has been up for five minutes
\* and whose statements succeed, except around and after midnight.
THEOREM BroadcastAnnounced == Spec => []StartsAnnounced
<1>1. Typed /\ Ticking /\ Heard => StartsAnnounced
  <2> SUFFICES ASSUME Typed, Ticking, Heard, NEW f \in favorites, NEW t \in Broadcasts(f.program),
                      f.since + Interval <= t, up + Interval <= t,
                      ~AfterMidnight(f.program), ~BeforeMidnight(f.program)
               PROVE  \E n \in notices \cup skipped : n.row = f /\ n.at <= t /\ t <= n.at + Interval
    BY DEF StartsAnnounced
  <2>0. /\ Interval \in Nat \ {0} /\ clock \in Nat /\ served \in Nat
        /\ label[f.program] \in Nat /\ Interval <= label[f.program]
    BY FavoriteNoticesAssumption DEF Typed, TypeOK, Favorite
  <2>1. /\ t \in Nat /\ t < clock /\ label[f.program] <= t
        /\ (t - label[f.program]) % DayLength = 0
    BY <2>0 DEF Broadcasts
  <2>2. t < served + Interval
    BY <2>0, <2>1 DEF Ticking
  <2>3. PICK s \in Nat : Looked(f, s, t)
    BY <2>1, <2>2 DEF Heard
  <2>4. Starting(label[f.program], s)
    <3>1. PICK l \in Nat : l = label[f.program]
      BY <2>0
    <3>2. l + Interval < DayLength
      BY <2>0, <3>1, FavoriteNoticesAssumption DEF AfterMidnight, BeforeMidnight
    <3> QED
      BY <2>0, <2>1, <2>3, <3>1, <3>2, InWindow DEF Looked
  <2>5. [row |-> f, at |-> s] \in notices \cup skipped
    BY <2>0, <2>1, <2>3, <2>4 DEF Looked, Ticking
  <2> QED
    BY <2>3, <2>5 DEF Looked
<1> QED
  BY TypeStep, TickingStep, HeardStep, <1>1, PTL DEF Spec
=============================================================================
