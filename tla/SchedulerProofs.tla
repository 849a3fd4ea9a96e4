---------------------------- MODULE SchedulerProofs ----------------------------
(***************************************************************************)
(* Proofs about Scheduler and the rules it follows, for any tasks, rules,  *)
(* durations and number of requests and stops.                             *)
(***************************************************************************)
EXTENDS Scheduler, FiniteSetTheorems, WellFoundedInduction, TLAPS

-----------------------------------------------------------------------------
(***************************************************************************)
(* The next occurrence of a rule.                                          *)
(***************************************************************************)

\* The quotient by a positive number.
LEMMA Division ==
    ASSUME NEW a \in Int, NEW b \in Nat \ {0}
    PROVE  /\ a \div b \in Int
           /\ b * (a \div b) <= a
           /\ a < b * ((a \div b) + 1)
  OBVIOUS

\* The next step of an interval is ahead of the reference.
LEMMA StepIsLater ==
    ASSUME NEW rule, rule.step \in Nat \ {0}, NEW reference \in Nat, NEW anchor \in Nat
    PROVE  NextStep(rule, reference, anchor) \in Nat /\ NextStep(rule, reference, anchor) > reference
<1> DEFINE step == rule.step
           q    == (reference - anchor) \div step
<1>1. q \in Int /\ reference - anchor < step * (q + 1)
  BY Division
<1>2. step * (q + 1) \in Int
  BY <1>1
<1>3. CASE anchor + step > reference
  BY <1>3 DEF NextStep
<1>4. CASE ~(anchor + step > reference)
  <2>1. NextStep(rule, reference, anchor) = anchor + step * (q + 1)
    BY <1>4 DEF NextStep
  <2> HIDE DEF q, step
  <2> QED  BY <2>1, <1>1, <1>2
<1> QED  BY <1>3, <1>4

\* The instant of a local time is read with one of the two offsets; with the one after
\* the change, it is not before it.
LEMMA UtcBounds ==
    ASSUME NEW zone, IsZone(zone), NEW local \in Int
    PROVE  /\ ToUtc(zone, local) \in Int
           /\ \/ ToUtc(zone, local) = local - zone.before
              \/ ToUtc(zone, local) = local - zone.after /\ ToUtc(zone, local) >= zone.change
  BY DEF IsZone, ToUtc

\* The local time of an instant is read with the offset of its side of the change.
LEMMA LocalTime ==
    ASSUME NEW zone, IsZone(zone), NEW t \in Int
    PROVE  /\ Local(zone, t) \in Int
           /\ \/ Local(zone, t) = t + zone.before /\ t < zone.change
              \/ Local(zone, t) = t + zone.after /\ t >= zone.change
  BY DEF IsZone, Local

\* A local time of the day after tomorrow, or later, is later than now.
LEMMA TwoDaysOn ==
    ASSUME NEW zone, IsZone(zone), NEW t \in Int, NEW local \in Int,
           local > Local(zone, t) + Day
    PROVE  ToUtc(zone, local) > t
<1>1. zone.before - zone.after <= Day /\ Day \in Nat
  BY UnitsAssumption DEF IsZone
<1>2. zone.before \in Int /\ zone.after \in Int /\ zone.change \in Int
  BY DEF IsZone
<1> QED  BY <1>1, <1>2, UtcBounds, LocalTime

\* A set of integers bounded below has a smallest one.
LEMMA SmallestIn ==
    ASSUME NEW S \in SUBSET Int, S # {}, NEW k \in Int, \A x \in S : x >= k
    PROVE  Min(S) \in S /\ \A y \in S : Min(S) <= y
<1> DEFINE N == {n \in Nat : k + n \in S}
<1>1. PICK x \in S : TRUE
  OBVIOUS
<1>2. x - k \in N
  <2>1. x \in Int /\ x >= k /\ k + (x - k) = x
    OBVIOUS
  <2> QED  BY <2>1
<1> DEFINE R == OpToRel(<, Nat)
<1>3. PICK n \in N : \A m \in N : ~(<<m, n>> \in R)
  <2>1. IsWellFoundedOn(R, Nat) /\ N \subseteq Nat /\ N # {}
    BY <1>2, NatLessThanWellFounded
  <2> HIDE DEF R, N
  <2> QED  BY <2>1, WFMin
<1>4. \A m \in N : n <= m
  <2>1. \A m \in Nat : m < n => <<m, n>> \in R
    BY DEF OpToRel
  <2> HIDE DEF R
  <2> SUFFICES ASSUME NEW m \in N PROVE n <= m
    OBVIOUS
  <2>2. m \in Nat /\ n \in Nat
    OBVIOUS
  <2>3. ~(m < n)
    BY <1>3, <2>1, <2>2
  <2> QED  BY <2>2, <2>3
<1>5. \A y \in S : k + n <= y
  <2> TAKE y \in S
  <2>1. y \in Int /\ y >= k /\ k + (y - k) = y
    OBVIOUS
  <2>2. y - k \in N
    BY <2>1
  <2>3. n <= y - k
    BY <2>2, <1>4
  <2> QED  BY <2>1, <2>3
<1>6. \E z \in S : \A y \in S : z <= y
  BY <1>5
<1> QED  BY <1>6 DEF Min

\* A rule falls at its time of the day, or up to three hours later.
LEMMA AtLocalIsInt ==
    ASSUME NEW rule, IsZone(rule.zone), rule.at \in 0 .. Day - 1, NEW day \in Int
    PROVE  \E h \in 0..3 : AtLocal(rule, day) = ToUtc(rule.zone, day * Day + rule.at + h * Hour)
<1> DEFINE naive == day * Day + rule.at
           later == {h \in 1..3 : Exists(rule.zone, naive + h * Hour)}
<1>1. naive \in Int /\ Hour \in Nat
  BY UnitsAssumption
<1>2. CASE Exists(rule.zone, naive) \/ later = {}
  <2>1. AtLocal(rule, day) = ToUtc(rule.zone, naive)
    BY <1>2 DEF AtLocal
  <2>2. naive = naive + 0 * Hour
    BY <1>1
  <2> QED  BY <2>1, <2>2
<1>3. CASE ~(Exists(rule.zone, naive) \/ later = {})
  <2>1. AtLocal(rule, day) = ToUtc(rule.zone, naive + Min(later) * Hour)
    BY <1>3 DEF AtLocal
  <2>2. Min(later) \in later
    <3>1. later \in SUBSET Int /\ \A x \in later : x >= 1
      OBVIOUS
    <3> HIDE DEF later, naive
    <3> QED  BY <3>1, <1>3, SmallestIn
  <2>3. Min(later) \in 0..3
    BY <2>2
  <2> QED  BY <2>1, <2>3
<1> QED  BY <1>2, <1>3

\* The day after tomorrow, and any later one, is far enough.
LEMMA LaterDays ==
    ASSUME NEW rule, IsZone(rule.zone), rule.at \in 0 .. Day - 1, NEW t \in Int,
           NEW n \in 2..8
    PROVE  AtLocal(rule, Local(rule.zone, t) \div Day + n) > t
<1> DEFINE local == Local(rule.zone, t)
           today == local \div Day
<1>1. Day \in Nat \ {0} /\ Hour \in Nat /\ local \in Int
  BY UnitsAssumption, LocalTime
<1>2. today \in Int /\ local < Day * (today + 1)
  BY <1>1, Division
<1> HIDE DEF local, today
<1>3. PICK h \in 0..3 : AtLocal(rule, today + n) =
                            ToUtc(rule.zone, (today + n) * Day + rule.at + h * Hour)
  BY <1>2, AtLocalIsInt
<1>4. (today + n) * Day >= Day * (today + 1) + Day
  <2>1. (today + n) * Day = Day * (today + 1) + (n - 1) * Day
    BY <1>1, <1>2
  <2>2. (n - 1) * Day >= Day
    BY <1>1
  <2>3. Day * (today + 1) \in Int /\ (n - 1) * Day \in Int
    BY <1>1, <1>2
  <2> QED  BY <2>1, <2>2, <2>3, <1>1
<1>5. h * Hour \in Nat
  BY <1>1
<1>6. (today + n) * Day \in Int /\ Day * (today + 1) \in Int
  BY <1>1, <1>2
<1> DEFINE fall == (today + n) * Day + rule.at + h * Hour
<1>7. fall \in Int /\ fall > local + Day
  BY <1>1, <1>2, <1>4, <1>5, <1>6
<1>8. ToUtc(rule.zone, fall) > t
  <2> HIDE DEF fall
  <2> QED  BY <1>7, TwoDaysOn DEF local
<1> QED  BY <1>3, <1>8 DEF local, today

\* Seven days in a row hold every day of the week.
LEMMA EveryWeekday ==
    ASSUME NEW a \in Int, NEW d \in Weekdays
    PROVE  \E n \in 2..8 : (a + n) % 7 = d
  BY DEF Weekdays

\* The search of a day finds one, ahead of the reference.
LEMMA DayIsLater ==
    ASSUME NEW rule, IsZone(rule.zone), rule.at \in 0 .. Day - 1,
           Allowed(rule) \cap Weekdays # {}, NEW reference \in Nat
    PROVE  NextDay(rule, reference) \in Nat /\ NextDay(rule, reference) > reference
<1> DEFINE today == Local(rule.zone, reference) \div Day
           days  == {today + n : n \in DaysAhead}
           found == {d \in days : d % 7 \in Allowed(rule) /\ AtLocal(rule, d) > reference}
<1>1. today \in Int
  BY LocalTime, Division, UnitsAssumption
<1>2. found # {}
  <2>1. PICK d \in Weekdays : d \in Allowed(rule)
    OBVIOUS
  <2>2. PICK n \in 2..8 : (today + n) % 7 = d
    BY <1>1, EveryWeekday
  <2>3. AtLocal(rule, today + n) > reference
    BY LaterDays
  <2>4. today + n \in days
    BY DEF DaysAhead
  <2> QED  BY <2>1, <2>2, <2>3, <2>4
<1>3. found \in SUBSET Int /\ \A d \in found : d >= today
  BY <1>1 DEF DaysAhead
<1>4. Min(found) \in found
  <2> HIDE DEF found
  <2> QED  BY <1>1, <1>2, <1>3, SmallestIn
<1>5. NextDay(rule, reference) = AtLocal(rule, Min(found))
  BY <1>2 DEF NextDay
<1>6. NextDay(rule, reference) > reference
  BY <1>4, <1>5
<1>7. NextDay(rule, reference) \in Int
  <2>1. Min(found) \in Int
    BY <1>3, <1>4
  <2>2. PICK h \in 0..3 : AtLocal(rule, Min(found)) =
                    ToUtc(rule.zone, Min(found) * Day + rule.at + h * Hour)
    <3> HIDE DEF found
    <3> QED  BY <2>1, AtLocalIsInt
  <2>3. Min(found) * Day + rule.at + h * Hour \in Int
    <3> HIDE DEF found
    <3> QED  BY <2>1, UnitsAssumption
  <2> QED  BY <2>2, <2>3, <1>5, UtcBounds
<1> QED  BY <1>6, <1>7

\* The next occurrence of a rule is later than the instant it is asked at: the
\* search of rules.py, which raises an error when it finds no day, always finds one.
THEOREM NextIsLater ==
    ASSUME NEW rule, IsRule(rule), NEW reference \in Nat, NEW lastRun \in Nat \cup {Never}
    PROVE  /\ NextOccurrence(rule, reference, lastRun) \in Nat
           /\ NextOccurrence(rule, reference, lastRun) > reference
<1>1. CASE rule.trigger = "INTERVAL"
  <2> DEFINE anchor == IF lastRun = Never THEN reference ELSE lastRun
  <2>1. anchor \in Nat /\ rule.step \in Nat \ {0}
    BY <1>1 DEF IsRule
  <2>2. NextOccurrence(rule, reference, lastRun) = NextStep(rule, reference, anchor)
    BY <1>1 DEF NextOccurrence
  <2> HIDE DEF anchor
  <2> QED  BY <2>1, <2>2, StepIsLater
<1>2. CASE rule.trigger # "INTERVAL"
  <2>1. rule.at \in 0 .. Day - 1 /\ IsZone(rule.zone)
    BY <1>2 DEF IsRule
  <2>2. Allowed(rule) \cap Weekdays # {}
    BY <1>2 DEF IsRule, Allowed, Weekdays
  <2>3. NextOccurrence(rule, reference, lastRun) = NextDay(rule, reference)
    BY <1>2 DEF NextOccurrence
  <2> QED  BY <2>1, <2>2, <2>3, DayIsLater
<1> QED  BY <1>1, <1>2

\* An interval catches up with the first step of its series that is ahead of the
\* instant it is asked at, and replays none of those that were missed.
THEOREM StepsAreCaughtUp ==
    ASSUME NEW rule, rule.trigger = "INTERVAL", rule.step \in Nat \ {0},
           NEW reference \in Nat, NEW anchor \in Nat, anchor <= reference
    PROVE  LET due == NextOccurrence(rule, reference, anchor)
           IN  /\ due > reference /\ due - rule.step <= reference
               /\ \E k \in Nat : due = anchor + rule.step * k
<1> DEFINE step == rule.step
           q    == (reference - anchor) \div step
           due  == NextOccurrence(rule, reference, anchor)
<1>1. due = NextStep(rule, reference, anchor)
  BY DEF NextOccurrence, Never
<1>2. q \in Int /\ step * q <= reference - anchor /\ reference - anchor < step * (q + 1)
  <2>1. reference - anchor \in Int /\ step \in Nat \ {0}
    OBVIOUS
  <2> QED  BY <2>1, Division
<1>3. CASE anchor + step > reference
  <2>1. due = anchor + step
    BY <1>1, <1>3 DEF NextStep
  <2>2. anchor + step = anchor + step * 1
    OBVIOUS
  <2>3. \E k \in Nat : due = anchor + step * k
    BY <2>1, <2>2
  <2> HIDE DEF due
  <2> QED  BY <1>3, <2>1, <2>3 DEF due
<1>4. CASE ~(anchor + step > reference)
  <2>1. due = anchor + step * (q + 1)
    BY <1>1, <1>4 DEF NextStep
  <2>2. q + 1 \in Nat
    <3> HIDE DEF q
    <3>1. CASE q < 0
      <4>1. step * (q + 1) <= 0
        BY <1>2, <3>1
      <4>2. step * (q + 1) \in Int
        BY <1>2
      <4> QED  BY <1>2, <4>1, <4>2
    <3> QED  BY <1>2, <3>1
  <2>3. step * (q + 1) = step * q + step /\ step * q \in Int /\ step * (q + 1) \in Int
    BY <1>2
  <2> HIDE DEF due, q, step
  <2>4. due > reference /\ due - step <= reference
    <3>1. step \in Nat
      BY DEF step
    <3> QED  BY <1>2, <2>1, <2>3, <3>1
  <2> QED  BY <2>1, <2>2, <2>4 DEF due, step
<1> QED  BY <1>3, <1>4


-----------------------------------------------------------------------------
(***************************************************************************)
(* The parts of the inductive invariants.                                  *)
(***************************************************************************)

\* The loop: it is up when it does something, sleeps for a period at most, runs
\* an action for MaxRun at most, and no longer expects the task it runs.
Control ==
    /\ up # Never => up <= now
    /\ up = Never => slept = Never /\ queue = {} /\ \A r \in Runners : ~run[r].busy
    /\ slept # Never => slept <= now /\ now <= slept + Period
    /\ \A r \in Runners : run[r].busy => run[r].since <= now /\ now <= run[r].since + MaxRun
    /\ run["loop"].busy => run["loop"].task \notin queue

\* The loop is running the task, and will arm it again at the end.
BeingRun(t) == run["loop"].busy /\ run["loop"].task = t /\ run["loop"].row.enabled

\* An occurrence that was performed is never ahead again.
PerformedIsPast ==
    \A t \in Tasks :
        /\ performed[t] <= now
        /\ row[t].exists /\ row[t].enabled => row[t].next > performed[t] \/ BeingRun(t)

\* What a due task has waited for.
Waited(t) == now - Later(row[t].next, up)

\* A tick cut short, and the ticks cut short so far with the runs of the last one.
Cost == Period + 2 * TickLasts

Behind == Cost * unrecorded + TickLasts

\* The tasks that the tick has not finished, and how long it may have lasted.
Left == Cardinality(queue) + (IF run["loop"].busy THEN 1 ELSE 0)

Elapsed ==
    (Cardinality(Tasks) - Left) * MaxRun +
        (IF run["loop"].busy THEN now - run["loop"].since ELSE 0)

Selected(t) == t \in queue \/ BeingRun(t)

\* A due task waits for the end of the sleep, or for its turn in the tick, or has
\* waited no longer than the tick that did not select it.
WaitsInTurn ==
    \A t \in Tasks : up # Never /\ Due(t) =>
        /\ slept # Never => Waited(t) <= Behind + (now - slept)
        /\ slept = Never /\ Selected(t) => Waited(t) <= Behind + Period + Elapsed
        /\ slept = Never /\ ~Selected(t) => Waited(t) <= Elapsed


-----------------------------------------------------------------------------
(***************************************************************************)
(* Types, and the control of the loop.                                     *)
(***************************************************************************)

\* The rules of the requests have a next occurrence, later than the reference.
LEMMA NextInTime ==
    ASSUME NEW rule \in Rules, NEW reference \in Nat, NEW lastRun \in Nat \cup {Never}
    PROVE  /\ NextOccurrence(rule, reference, lastRun) \in Nat
           /\ NextOccurrence(rule, reference, lastRun) > reference
  BY NextIsLater, RulesAssumption

\* The rows: a new one, the one a run loads, and their fields.
LEMMA RowType ==
    ASSUME NEW rule \in Rules, NEW enabled \in BOOLEAN, NEW next \in Instant
    PROVE  Row(rule, enabled, next) \in Rows
  BY DEF Row, Rows, Statuses

Runs == [busy : {TRUE}, task : Tasks, row : Rows, since : Nat]

\* What a run loads.
LEMMA LoadedType ==
    ASSUME TypeOK, NEW r \in Runners, NEW t \in Tasks, row[t].exists
    PROVE  /\ row[t] \in Rows
           /\ [busy |-> TRUE, task |-> t, row |-> row[t], since |-> now] \in Runs
  <1>1. row[t] \in Rows \cup {NoRow} /\ now \in Nat
    BY DurationsAssumption DEF TypeOK
  <1>2. row[t] # NoRow
    BY DEF NoRow
  <1> HIDE DEF Rows
  <1> QED  BY <1>1, <1>2 DEF Runs

\* The runners, seen one by one.
LEMMA RunTypes ==
    ASSUME TypeOK, NEW r \in Runners
    PROVE  /\ run[r] \in {Idle} \cup Runs
           /\ run[r].busy \in BOOLEAN
           /\ run[r].busy => /\ run[r].task \in Tasks /\ run[r].since \in Nat
                             /\ run[r].row \in Rows
           /\ ~run[r].busy => run[r] = Idle
<1>1. run[r] \in {Idle} \cup Runs
  BY DEF TypeOK, Runs
<1>2. ASSUME NEW x \in Runs
      PROVE  x.busy = TRUE /\ x.task \in Tasks /\ x.since \in Nat /\ x.row \in Rows
  <2> HIDE DEF Rows
  <2> QED  BY DEF Runs
<1>3. Idle.busy = FALSE
  BY DEF Idle
<1> HIDE DEF Runs, Idle
<1>4. CASE run[r] = Idle
  BY <1>4, <1>3
<1>5. CASE run[r] \in Runs
  BY <1>5, <1>2
<1> QED  BY <1>1, <1>4, <1>5

\* The rows, seen one by one.
LEMMA RowTypes ==
    ASSUME TypeOK, NEW t \in Tasks
    PROVE  /\ row[t] \in Rows \cup {NoRow}
           /\ row[t].exists \in BOOLEAN
           /\ row[t].exists => row[t] \in Rows
<1>1. row[t] \in Rows \cup {NoRow}
  BY DEF TypeOK
<1>2. NoRow.exists = FALSE
  BY DEF NoRow
<1>3. \A x \in Rows : x.exists = TRUE
  BY DEF Rows
<1> HIDE DEF Rows, NoRow
<1> QED  BY <1>1, <1>2, <1>3

\* The fields of a row, and the two ways they are written.
LEMMA FieldTypes ==
    ASSUME NEW x \in Rows
    PROVE  /\ x.exists = TRUE /\ x.rule \in Rules /\ x.enabled \in BOOLEAN
           /\ x.next \in Instant /\ x.status \in Statuses
           /\ \A n \in Instant, s \in Statuses, e \in BOOLEAN, rule \in Rules :
                 /\ [x EXCEPT !.status = s, !.next = n] \in Rows
                 /\ [x EXCEPT !.rule = rule, !.enabled = e, !.next = n] \in Rows
  BY DEF Rows

\* The first states.
LEMMA InitControl == Init => TypeOK /\ Control
<1> SUFFICES ASSUME Init PROVE TypeOK /\ Control
  OBVIOUS
<1>1. now = 0 /\ up = 0 /\ slept = 0 /\ queue = {} /\ requests = 0 /\ stops = 0 /\ unrecorded = 0
  BY DEF Init
<1>2. row \in [Tasks -> Rows \cup {NoRow}]
  <2>1. \A rule \in Rules : NextOccurrence(rule, 0, Never) \in Instant
    BY NextInTime DEF Instant
  <2>2. \A rule \in Rules : Row(rule, TRUE, NextOccurrence(rule, 0, Never)) \in Rows
    BY <2>1, RowType
  <2>3. row \in [Tasks -> {Row(r, TRUE, NextOccurrence(r, 0, Never)) : r \in Rules}]
    BY DEF Init
  <2>4. {Row(r, TRUE, NextOccurrence(r, 0, Never)) : r \in Rules} \subseteq Rows
    BY <2>2
  <2> QED  BY <2>3, <2>4
<1>3. run = [r \in Runners |-> Idle] /\ performed = [t \in Tasks |-> Never]
  BY DEF Init
<1>4. \A r \in Runners : ~run[r].busy
  BY <1>3 DEF Idle
<1>5. "loop" \in Runners
  BY DEF Runners
<1>6. TypeOK
  BY <1>1, <1>2, <1>3, <1>4, <1>5, DurationsAssumption DEF TypeOK, Instant, Never
<1>7. Control
  BY <1>1, <1>4, <1>5, DurationsAssumption DEF Control, Never
<1> QED  BY <1>6, <1>7

\* The variables but the rows, the runs and the history.
LEMMA Instants ==
    ASSUME TypeOK
    PROVE  /\ now \in Nat /\ up \in Nat \cup {Never} /\ slept \in Nat \cup {Never}
           /\ Period \in Nat \ {0} /\ MaxRun \in Nat /\ Horizon \in Nat /\ Grace \in Nat
           /\ "loop" \in Runners /\ "request" \in Runners
           /\ Never = -1
  BY DurationsAssumption DEF TypeOK, Instant, Never, Runners

\* A tick.
LEMMA TickControl ==
    ASSUME TypeOK, Control, TickWakes
    PROVE  TypeOK' /\ Control'
<1> DEFINE due    == {t \in Tasks : Due(t)}
           missed == {t \in due : TooLate(t)}
<1>1. /\ slept # Never /\ now = slept + Period
      /\ row' = [t \in Tasks |->
                    IF t \in missed
                    THEN [row[t] EXCEPT !.status = "MISSED",
                                        !.next = NextOccurrence(row[t].rule, now, Never)]
                    ELSE row[t]]
      /\ IF due = missed THEN Sleeps ELSE slept' = Never /\ queue' = due \ missed
      /\ UNCHANGED <<now, up, run, requests, stops, performed, unrecorded>>
  BY DEF TickWakes
<1>2. row' \in [Tasks -> Rows \cup {NoRow}]
  <2>1. ASSUME NEW t \in missed
        PROVE  [row[t] EXCEPT !.status = "MISSED",
                              !.next = NextOccurrence(row[t].rule, now, Never)] \in Rows
    <3>1. row[t] \in Rows
      BY RowTypes DEF Due
    <3>2. NextOccurrence(row[t].rule, now, Never) \in Instant
      BY <3>1, FieldTypes, NextInTime, Instants DEF Instant
    <3> QED  BY <3>1, <3>2, FieldTypes DEF Statuses
  <2> HIDE DEF missed
  <2> QED  BY <2>1, <1>1, RowTypes
<1>3. /\ ~run["loop"].busy /\ up # Never
      /\ slept' \in Nat \cup {Never} /\ queue' \subseteq Tasks
      /\ slept' # Never => slept' = now /\ queue' = {}
      /\ slept' = Never => queue' # {}
  <2>1. ~run["loop"].busy /\ up # Never
    BY <1>1 DEF TypeOK, Control
  <2>0. due \ missed \subseteq Tasks /\ missed \subseteq due
    OBVIOUS
  <2> HIDE DEF due, missed
  <2>4. IF due = missed THEN slept' = now /\ queue' = {} ELSE slept' = Never /\ queue' = due \ missed
    BY <1>1 DEF Sleeps
  <2>2. CASE due = missed
    BY <2>1, <2>2, <2>4, Instants
  <2>3. CASE due # missed
    BY <2>0, <2>1, <2>3, <2>4, Instants
  <2> QED  BY <2>1, <2>2, <2>3
<1> HIDE DEF due, missed
<1>4. UNCHANGED <<now, up, run, requests, stops, performed, unrecorded>>
  BY <1>1
<1>5. TypeOK'
  <2> HIDE DEF Rows
  <2> QED  BY <1>2, <1>3, <1>4 DEF TypeOK, Instant
<1>6. Control'
  BY <1>3, <1>4, Instants DEF Control
<1> QED  BY <1>5, <1>6

\* The start of a run.
LEMMA LoadsTypes ==
    ASSUME TypeOK, Control, NEW r \in Runners, NEW t \in Tasks, row[t].exists, Loads(r, t)
    PROVE  /\ run' \in [Runners -> {Idle} \cup Runs]
           /\ run'[r] = [busy |-> TRUE, task |-> t, row |-> row[t], since |-> now]
           /\ \A q \in Runners \ {r} : run'[q] = run[q]
<1>1. run' = [run EXCEPT ![r] = [busy |-> TRUE, task |-> t, row |-> row[t], since |-> now]]
  BY DEF Loads
<1>2. run \in [Runners -> {Idle} \cup Runs]
  BY DEF TypeOK, Runs
<1> HIDE DEF Runs
<1> QED  BY <1>1, <1>2, LoadedType

\* The end of a run.
LEMMA EndsTypes ==
    ASSUME TypeOK, NEW r \in Runners, run' = [run EXCEPT ![r] = Idle]
    PROVE  /\ run' \in [Runners -> {Idle} \cup Runs]
           /\ ~run'[r].busy
           /\ \A q \in Runners \ {r} : run'[q] = run[q]
<1>1. run \in [Runners -> {Idle} \cup Runs]
  BY DEF TypeOK, Runs
<1>2. Idle.busy = FALSE
  BY DEF Idle
<1> HIDE DEF Runs, Idle
<1> QED  BY <1>1, <1>2

\* What the end of a run writes keeps its type.
LEMMA RecordedTypes ==
    ASSUME TypeOK, NEW r \in Runners, run[r].busy, Recorded(r) \/ NotRecorded(r)
    PROVE  /\ row' \in [Tasks -> Rows \cup {NoRow}]
           /\ unrecorded' \in Nat
<1>1. CASE NotRecorded(r)
  BY <1>1 DEF NotRecorded, TypeOK
<1>2. CASE Recorded(r)
  <2> DEFINE t    == run[r].task
             next == IF r = "loop" /\ run[r].row.enabled THEN NextAfter(run[r].row) ELSE row[t].next
  <2>1. row[t].exists /\ unrecorded' = unrecorded
        /\ row' = [row EXCEPT ![t].status = "RAN", ![t].next = next]
    BY <1>2 DEF Recorded
  <2>2. t \in Tasks /\ run[r].row \in Rows
    BY RunTypes
  <2>3. row[t] \in Rows
    BY <2>1, <2>2, RowTypes
  <2>4. next \in Instant
    <3>1. NextAfter(run[r].row) \in Instant
      BY <2>2, FieldTypes, NextInTime, Instants DEF NextAfter, Instant
    <3> QED  BY <3>1, <2>3, FieldTypes
  <2> HIDE DEF t, next
  <2>5. [row[t] EXCEPT !.status = "RAN", !.next = next] \in Rows
    BY <2>3, <2>4, FieldTypes DEF Statuses
  <2>6. row' = [row EXCEPT ![t] = [row[t] EXCEPT !.status = "RAN", !.next = next]]
    BY <2>1
  <2>7. row \in [Tasks -> Rows \cup {NoRow}] /\ unrecorded \in Nat
    BY DEF TypeOK
  <2> HIDE DEF Rows, NoRow
  <2> QED  BY <2>1, <2>2, <2>5, <2>6, <2>7
<1> QED  BY <1>1, <1>2

\* What a request that edits a task leaves.
LEMMA EditTypes ==
    ASSUME TypeOK, Control, NEW t \in Tasks, NEW x \in Rows \cup {NoRow},
           row' = [row EXCEPT ![t] = x], Request,
           UNCHANGED <<now, run, stops, unrecorded, loopVars>>
    PROVE  TypeOK' /\ Control'
<1>1. row' \in [Tasks -> Rows \cup {NoRow}]
  <2> HIDE DEF Rows, NoRow
  <2> QED  BY DEF TypeOK
<1>2. requests' \in 0..MaxRequests
  BY DurationsAssumption DEF Request, TypeOK
<1>3. TypeOK'
  <2> HIDE DEF Rows, NoRow, Runners, Idle
  <2> QED  BY <1>1, <1>2 DEF TypeOK, loopVars
<1>4. Control'
  BY DEF Control, loopVars
<1> QED  BY <1>3, <1>4

\* The occurrence a request gives an enabled task is ahead.
LEMMA FirstNextIs ==
    ASSUME TypeOK, NEW rule \in Rules, NEW enabled \in BOOLEAN, NEW old
    PROVE  /\ FirstNext(rule, enabled, old) \in Instant
           /\ enabled => FirstNext(rule, enabled, old) > now
  BY NextInTime, Instants DEF FirstNext, Instant

\* The requests.
LEMMA RequestControl ==
    ASSUME TypeOK, Control, NEW t \in Tasks, Requests(t)
    PROVE  TypeOK' /\ Control'
<1>1. CASE Delete(t)
  BY <1>1, EditTypes DEF Delete
<1>2. CASE RunNow(t)
  <2>1. Request /\ row[t].exists /\ ~run["request"].busy /\ Loads("request", t)
        /\ UNCHANGED <<now, row, stops, unrecorded, loopVars>>
    BY <1>2 DEF RunNow
  <2>2. /\ run' \in [Runners -> {Idle} \cup Runs]
        /\ run'["request"].busy /\ run'["request"].since = now
        /\ run'["loop"] = run["loop"]
    <3>1. /\ run' \in [Runners -> {Idle} \cup Runs]
          /\ run'["request"] = [busy |-> TRUE, task |-> t, row |-> row[t], since |-> now]
          /\ \A q \in Runners \ {"request"} : run'[q] = run[q]
      BY <2>1, LoadsTypes, Instants
    <3>2. "loop" \in Runners \ {"request"}
      BY DEF Runners
    <3> QED  BY <3>1, <3>2
  <2>3. requests' \in 0..MaxRequests /\ up # Never
    BY <2>1, DurationsAssumption DEF Request, TypeOK
  <2>4. TypeOK'
    <3> HIDE DEF Rows, NoRow, Runners, Idle
    <3> QED  BY <2>1, <2>2, <2>3 DEF TypeOK, loopVars, Runs
  <2>5. Control'
    BY <2>1, <2>2, <2>3, Instants DEF Control, loopVars, Runners
  <2> QED  BY <2>4, <2>5
<1>3. ASSUME NEW rule \in Rules, NEW enabled \in BOOLEAN, Create(t, rule, enabled)
      PROVE  TypeOK' /\ Control'
  <2>1. Row(rule, enabled, FirstNext(rule, enabled, Never)) \in Rows
    BY FirstNextIs, RowType
  <2> HIDE DEF Rows, NoRow
  <2> QED  BY <1>3, <2>1, EditTypes DEF Create
<1>4. ASSUME NEW rule \in Rules, NEW enabled \in BOOLEAN, Update(t, rule, enabled)
      PROVE  TypeOK' /\ Control'
  <2> DEFINE next == FirstNext(rule, enabled, row[t].next)
             x == [row[t] EXCEPT !.rule = rule, !.enabled = enabled, !.next = next]
  <2>1. row[t].exists
        /\ row' = [row EXCEPT ![t].rule = rule, ![t].enabled = enabled, ![t].next = next]
    BY <1>4 DEF Update
  <2>2. x \in Rows
    BY <2>1, RowTypes, FirstNextIs, FieldTypes
  <2> HIDE DEF next
  <2>3. row' = [row EXCEPT ![t] = x]
    BY <2>1
  <2> HIDE DEF x, Rows, NoRow
  <2> QED  BY <1>4, <2>2, <2>3, EditTypes DEF Update
<1> QED  BY <1>1, <1>2, <1>3, <1>4 DEF Requests

\* Time, the runs, and the stops of MSM.
LEMMA LoopControl ==
    ASSUME TypeOK, Control,
           \/ ClockTicks \/ RunEnds \/ RunNowEnds \/ MsmStops \/ MsmStarts
           \/ \E t \in Tasks : RunBegins(t) \/ RunSkipped(t)
    PROVE  TypeOK' /\ Control'
<1>1. CASE ClockTicks
  <2>1. /\ now < Horizon /\ now' = now + 1
        /\ slept # Never => now < slept + Period
        /\ \A r \in Runners : run[r].busy => now < run[r].since + MaxRun
        /\ UNCHANGED <<row, run, requests, stops, unrecorded, loopVars>>
    BY <1>1 DEF ClockTicks
  <2>2. now' \in 0..Horizon
    BY <2>1, Instants
  <2>3. TypeOK'
    <3> HIDE DEF Rows, NoRow, Runners, Idle
    <3> QED  BY <2>1, <2>2 DEF TypeOK, loopVars
  <2>4. \A r \in Runners : run[r].busy => run[r].since \in Nat
    BY RunTypes
  <2>5. Control'
    BY <2>1, <2>4, Instants DEF Control, loopVars
  <2> QED  BY <2>3, <2>5
<1>2. CASE RunEnds
  <2>1. /\ run["loop"].busy /\ run' = [run EXCEPT !["loop"] = Idle]
        /\ UNCHANGED <<now, up, requests, stops, performed>>
    BY <1>2 DEF RunEnds
  <2>2. /\ run' \in [Runners -> {Idle} \cup Runs] /\ ~run'["loop"].busy
        /\ \A q \in Runners \ {"loop"} : run'[q] = run[q]
    BY <2>1, EndsTypes, Instants
  <2>3. Recorded("loop") \/ NotRecorded("loop")
    BY <1>2 DEF RunEnds
  <2>4. row' \in [Tasks -> Rows \cup {NoRow}] /\ unrecorded' \in Nat
    BY <2>1, <2>3, RecordedTypes, Instants
  <2>5. slept = Never /\ up # Never
    BY <2>1 DEF TypeOK, Control, Runners
  <2>6. \/ slept' = now /\ queue' = {}
        \/ slept' = Never /\ queue' = queue /\ queue # {}
    BY <1>2, <2>5 DEF RunEnds, Sleeps
  <2>7. TypeOK'
    <3> HIDE DEF Rows, NoRow, Runners, Idle
    <3>1. /\ slept' \in Instant /\ queue' \subseteq Tasks
          /\ slept' # Never => queue' = {}
          /\ slept' = Never => queue' # {}
      <4>1. queue \subseteq Tasks
        BY DEF TypeOK
      <4>2. now \in Instant /\ Never \in Instant /\ now # Never
        BY Instants DEF Instant
      <4> QED  BY <2>6, <4>1, <4>2
    <3> QED  BY <2>1, <2>2, <2>4, <3>1 DEF TypeOK, Runs
  <2>8. Control'
    BY <2>1, <2>2, <2>5, <2>6, Instants DEF Control
  <2> QED  BY <2>7, <2>8
<1>3. CASE RunNowEnds
  <2>1. /\ run["request"].busy /\ run' = [run EXCEPT !["request"] = Idle]
        /\ Recorded("request") \/ NotRecorded("request")
        /\ UNCHANGED <<now, requests, stops, loopVars>>
    BY <1>3 DEF RunNowEnds
  <2>2. /\ run' \in [Runners -> {Idle} \cup Runs] /\ ~run'["request"].busy
        /\ \A q \in Runners \ {"request"} : run'[q] = run[q]
    BY <2>1, EndsTypes, Instants
  <2>3. row' \in [Tasks -> Rows \cup {NoRow}] /\ unrecorded' \in Nat
    BY <2>1, RecordedTypes, Instants
  <2>4. run'["loop"] = run["loop"]
    BY <2>2 DEF Runners
  <2>5. TypeOK'
    <3> HIDE DEF Rows, NoRow, Runners, Idle
    <3> QED  BY <2>1, <2>2, <2>3, <2>4 DEF TypeOK, Runs, loopVars
  <2>6. Control'
    BY <2>1, <2>2, <2>4 DEF Control, loopVars
  <2> QED  BY <2>5, <2>6
<1>4. CASE MsmStops
  <2>1. /\ stops < MaxStops /\ stops' = stops + 1
        /\ up' = Never /\ slept' = Never /\ queue' = {}
        /\ run' = [r \in Runners |-> Idle]
        /\ performed' = [t \in Tasks |-> Never]
        /\ UNCHANGED <<now, row, requests, unrecorded>>
    BY <1>4 DEF MsmStops
  <2>2. run' \in [Runners -> {Idle} \cup Runs] /\ \A r \in Runners : ~run'[r].busy
    BY <2>1 DEF Idle
  <2>3. stops' \in 0..MaxStops
    BY <2>1, DurationsAssumption DEF TypeOK
  <2>4. performed' \in [Tasks -> Instant]
    BY <2>1 DEF Instant
  <2>5. TypeOK'
    <3> HIDE DEF Rows, NoRow, Runners, Idle
    <3> QED  BY <2>1, <2>2, <2>3, <2>4, Instants DEF TypeOK, Runs, Instant
  <2>6. Control'
    BY <2>1, <2>2, Instants DEF Control
  <2> QED  BY <2>5, <2>6
<1>5. CASE MsmStarts
  <2>1. /\ up = Never /\ up' = now /\ slept' = now
        /\ UNCHANGED <<now, row, queue, run, requests, stops, performed, unrecorded>>
    BY <1>5 DEF MsmStarts
  <2>2. queue = {} /\ ~run["loop"].busy
    BY <2>1, Instants DEF Control
  <2>3. TypeOK'
    <3> HIDE DEF Rows, NoRow, Runners, Idle
    <3> QED  BY <2>1, <2>2, Instants DEF TypeOK, Instant
  <2>4. Control'
    BY <2>1, <2>2, Instants DEF Control
  <2> QED  BY <2>3, <2>4
<1>6. ASSUME NEW t \in Tasks, RunBegins(t) PROVE TypeOK' /\ Control'
  <2>1. /\ slept = Never /\ up # Never /\ t \in queue /\ ~run["loop"].busy /\ row[t].exists
        /\ Loads("loop", t) /\ queue' = queue \ {t}
        /\ performed' = IF Due(t) THEN [performed EXCEPT ![t] = row[t].next] ELSE performed
        /\ UNCHANGED <<now, row, up, slept, requests, stops, unrecorded>>
    BY <1>6 DEF RunBegins
  <2>2. /\ run' \in [Runners -> {Idle} \cup Runs]
        /\ run'["loop"] = [busy |-> TRUE, task |-> t, row |-> row[t], since |-> now]
        /\ \A q \in Runners \ {"loop"} : run'[q] = run[q]
    BY <2>1, LoadsTypes, Instants
  <2>3. run'["loop"].busy /\ run'["loop"].task = t /\ run'["loop"].since = now
    BY <2>2
  <2>4. performed' \in [Tasks -> Instant]
    <3>1. row[t].next \in Instant
      BY <2>1, RowTypes, FieldTypes
    <3> QED  BY <2>1, <3>1 DEF TypeOK
  <2>5. TypeOK'
    <3> HIDE DEF Rows, NoRow, Runners, Idle
    <3> QED  BY <2>1, <2>2, <2>3, <2>4, Instants DEF TypeOK, Runs
  <2>6. Control'
    BY <2>1, <2>2, <2>3, Instants DEF Control
  <2> QED  BY <2>5, <2>6
<1>7. ASSUME NEW t \in Tasks, RunSkipped(t) PROVE TypeOK' /\ Control'
  <2>1. /\ slept = Never /\ up # Never /\ t \in queue /\ ~run["loop"].busy
        /\ IF queue = {t} THEN Sleeps ELSE queue' = queue \ {t} /\ UNCHANGED slept
        /\ UNCHANGED <<now, row, up, run, requests, stops, performed, unrecorded>>
    BY <1>7 DEF RunSkipped
  <2>2. \/ slept' = now /\ queue' = {}
        \/ slept' = Never /\ queue' = queue \ {t} /\ queue' # {}
    BY <2>1 DEF Sleeps
  <2>3. TypeOK'
    <3>1. /\ slept' \in Instant /\ queue' \subseteq Tasks
          /\ slept' # Never => queue' = {}
          /\ slept' = Never => queue' # {}
      <4>1. queue \subseteq Tasks
        BY DEF TypeOK
      <4>2. now \in Instant /\ Never \in Instant /\ now # Never
        BY Instants DEF Instant
      <4> QED  BY <2>2, <4>1, <4>2
    <3> HIDE DEF Rows, NoRow, Runners, Idle
    <3> QED  BY <2>1, <3>1 DEF TypeOK
  <2>4. Control'
    BY <2>1, <2>2, Instants DEF Control
  <2> QED  BY <2>3, <2>4
<1> QED  BY <1>1, <1>2, <1>3, <1>4, <1>5, <1>6, <1>7

\* Every step.
LEMMA NextControl ==
    ASSUME TypeOK, Control, [Next]_vars
    PROVE  TypeOK' /\ Control'
<1>1. CASE UNCHANGED vars
  <2> HIDE DEF Rows, NoRow, Runners, Idle
  <2>1. TypeOK'
    BY <1>1 DEF TypeOK, vars
  <2>2. Control'
    BY <1>1 DEF Control, vars
  <2> QED  BY <2>1, <2>2
<1>2. CASE TickWakes
  BY <1>2, TickControl
<1>3. CASE ClockTicks \/ RunEnds \/ RunNowEnds \/ MsmStops \/ MsmStarts
  BY <1>3, LoopControl
<1>4. ASSUME NEW t \in Tasks, RunBegins(t) \/ RunSkipped(t) PROVE TypeOK' /\ Control'
  BY <1>4, LoopControl
<1>5. ASSUME NEW t \in Tasks, Requests(t) PROVE TypeOK' /\ Control'
  BY <1>5, RequestControl
<1> QED  BY <1>1, <1>2, <1>3, <1>4, <1>5 DEF Next

\* The state has its type.
THEOREM TypeCorrect == Spec => []TypeOK
<1>1. Init => TypeOK /\ Control
  BY InitControl
<1>2. TypeOK /\ Control /\ [Next]_vars => (TypeOK /\ Control)'
  BY NextControl
<1> QED  BY <1>1, <1>2, PTL DEF Spec

\* The end of a run of the loop arms the task it loaded as enabled.
LEMMA RecordedArms ==
    ASSUME TypeOK, NEW r \in Runners, run[r].busy, Recorded(r), NEW t \in Tasks
    PROVE  /\ row[t].exists => row'[t].exists /\ row'[t].enabled = row[t].enabled
           /\ row'[t].exists => row[t].exists
           /\ \/ row'[t].next = row[t].next /\ ~(r = "loop" /\ BeingRun(t))
              \/ row'[t].next \in Nat /\ row'[t].next > now
<1> DEFINE u    == run[r].task
           next == IF r = "loop" /\ run[r].row.enabled THEN NextAfter(run[r].row) ELSE row[u].next
           x    == [row[u] EXCEPT !.status = "RAN", !.next = next]
<1>1. row' = [row EXCEPT ![u].status = "RAN", ![u].next = next]
  BY DEF Recorded
<1>2. run[r].row \in Rows /\ u \in Tasks /\ row[u] \in Rows /\ row[u].exists
  BY RunTypes, RowTypes DEF Recorded
<1>3. NextAfter(run[r].row) \in Nat /\ NextAfter(run[r].row) > now
  BY <1>2, FieldTypes, NextInTime, Instants DEF NextAfter
<1>4. next = row[u].next \/ (next \in Nat /\ next > now)
  <2>1. CASE r = "loop" /\ run[r].row.enabled
    BY <1>3, <2>1
  <2>2. CASE ~(r = "loop" /\ run[r].row.enabled)
    BY <2>2
  <2> QED  BY <2>1, <2>2
<1>5. r = "loop" /\ BeingRun(u) => next \in Nat /\ next > now
  BY <1>3 DEF BeingRun
<1> HIDE DEF next
<1>6. row' = [row EXCEPT ![u] = x]
  BY <1>1
<1>7. x.exists = row[u].exists /\ x.enabled = row[u].enabled /\ x.next = next
  BY <1>2 DEF Rows
<1>8. row \in [Tasks -> Rows \cup {NoRow}]
  BY DEF TypeOK
<1> HIDE DEF x, Rows
<1>9. CASE t = u
  BY <1>2, <1>4, <1>5, <1>6, <1>7, <1>8, <1>9
<1>10. CASE t # u
  <2>1. row'[t] = row[t]
    BY <1>6, <1>8, <1>10
  <2>2. ~(r = "loop" /\ BeingRun(t))
    BY <1>10 DEF BeingRun
  <2> QED  BY <2>1, <2>2
<1> QED  BY <1>9, <1>10

\* An enabled task keeps the occurrence it had, or gets a later one.
LEMMA RowSteps ==
    ASSUME TypeOK, Control, [Next]_vars, NEW t \in Tasks, row'[t].exists, row'[t].enabled
    PROVE  \/ now' = now /\ row'[t].next \in Nat /\ row'[t].next > now
           \/ /\ row[t].exists /\ row[t].enabled /\ row'[t].next = row[t].next
              /\ RunEnds => ~BeingRun(t)
<1> DEFINE Armed == now' = now /\ row'[t].next \in Nat /\ row'[t].next > now
           Kept  == row[t].exists /\ row[t].enabled /\ row'[t].next = row[t].next
<1>1. CASE row' = row /\ ~RunEnds
  BY <1>1
<1>2. CASE TickWakes
  <2>1. PICK missed \in SUBSET {u \in Tasks : Due(u)} :
            row' = [u \in Tasks |->
                      IF u \in missed
                      THEN [row[u] EXCEPT !.status = "MISSED",
                                          !.next = NextOccurrence(row[u].rule, now, Never)]
                      ELSE row[u]]
    BY <1>2 DEF TickWakes
  <2>2. CASE t \in missed
    <3>1. row[t] \in Rows
      BY <2>2, RowTypes DEF Due
    <3>2. row'[t] = [row[t] EXCEPT !.status = "MISSED",
                                   !.next = NextOccurrence(row[t].rule, now, Never)]
      BY <2>1, <2>2
    <3>3. row'[t].next = NextOccurrence(row[t].rule, now, Never)
      BY <3>1, <3>2 DEF Rows
    <3>4. now' = now
      BY <1>2 DEF TickWakes
    <3>5. row[t].rule \in Rules
      BY <3>1, FieldTypes
    <3>6. row'[t].next \in Nat /\ row'[t].next > now
      BY <3>3, <3>5, NextInTime, Instants
    <3> QED  BY <3>4, <3>6
  <2>3. CASE t \notin missed
    <3>1. row'[t] = row[t]
      BY <2>1, <2>3
    <3>2. ~RunEnds
      BY <1>2, Instants DEF TickWakes, RunEnds, TypeOK
    <3> QED  BY <3>1, <3>2
  <2> QED  BY <2>2, <2>3
<1>3. CASE RunEnds
  <2>1. run["loop"].busy /\ now' = now
    BY <1>3 DEF RunEnds
  <2>2. CASE Recorded("loop")
    BY <2>1, <2>2, RecordedArms, Instants
  <2>3. CASE NotRecorded("loop")
    BY <2>3 DEF NotRecorded, BeingRun
  <2> QED  BY <1>3, <2>2, <2>3 DEF RunEnds
<1>4. CASE RunNowEnds /\ ~RunEnds
  <2>1. run["request"].busy /\ now' = now
    BY <1>4 DEF RunNowEnds
  <2>2. CASE Recorded("request")
    BY <1>4, <2>1, <2>2, RecordedArms, Instants
  <2>3. CASE NotRecorded("request")
    BY <1>4, <2>3 DEF NotRecorded
  <2> QED  BY <1>4, <2>2, <2>3 DEF RunNowEnds
<1>5. ASSUME NEW u \in Tasks, Requests(u), ~RunEnds
      PROVE  Armed \/ Kept
  <2>0. row \in [Tasks -> Rows \cup {NoRow}]
    BY DEF TypeOK
  <2> HIDE DEF Rows
  <2>1. CASE Delete(u)
    <3>1. row' = [row EXCEPT ![u] = NoRow]
      BY <2>1 DEF Delete
    <3>2. t # u
      BY <2>0, <3>1 DEF NoRow
    <3> QED  BY <2>0, <3>1, <3>2
  <2>2. CASE RunNow(u)
    BY <2>2 DEF RunNow
  <2>3. ASSUME NEW rule \in Rules, NEW enabled \in BOOLEAN, Create(u, rule, enabled)
        PROVE  Armed \/ Kept
    <3> DEFINE next == FirstNext(rule, enabled, Never)
    <3>1. row' = [row EXCEPT ![u] = Row(rule, enabled, next)] /\ now' = now
      BY <2>3 DEF Create
    <3>2. next \in Instant /\ (enabled => next > now)
      BY FirstNextIs
    <3> HIDE DEF next
    <3>3. CASE t = u
      <4>1. row'[t].enabled = enabled /\ row'[t].next = next
        BY <2>0, <3>1, <3>3 DEF Row
      <4> QED  BY <3>1, <3>2, <4>1, Instants DEF Instant
    <3>4. CASE t # u
      BY <2>0, <3>1, <3>4
    <3> QED  BY <3>3, <3>4
  <2>4. ASSUME NEW rule \in Rules, NEW enabled \in BOOLEAN, Update(u, rule, enabled)
        PROVE  Armed \/ Kept
    <3> DEFINE next == FirstNext(rule, enabled, row[u].next)
               x    == [row[u] EXCEPT !.rule = rule, !.enabled = enabled, !.next = next]
    <3>1. row' = [row EXCEPT ![u].rule = rule, ![u].enabled = enabled, ![u].next = next]
          /\ row[u].exists /\ now' = now
      BY <2>4 DEF Update
    <3>2. next \in Instant /\ (enabled => next > now)
      BY FirstNextIs
    <3> HIDE DEF next
    <3>3. row' = [row EXCEPT ![u] = x]
      BY <3>1
    <3>4. x.enabled = enabled /\ x.next = next
      BY <3>1, RowTypes DEF Rows
    <3> HIDE DEF x
    <3>5. CASE t = u
      BY <2>0, <3>1, <3>2, <3>3, <3>4, <3>5, Instants DEF Instant
    <3>6. CASE t # u
      BY <2>0, <3>3, <3>6
    <3> QED  BY <3>5, <3>6
  <2> QED  BY <1>5, <2>1, <2>2, <2>3, <2>4 DEF Requests
<1>6. ClockTicks \/ MsmStops \/ MsmStarts => row' = row
  BY DEF ClockTicks, MsmStops, MsmStarts
<1>7. \A u \in Tasks : RunBegins(u) \/ RunSkipped(u) => row' = row
  BY DEF RunBegins, RunSkipped
<1>8. UNCHANGED vars => row' = row
  BY DEF vars
<1> QED  BY <1>1, <1>2, <1>3, <1>4, <1>5, <1>6, <1>7, <1>8 DEF Next

-----------------------------------------------------------------------------
(***************************************************************************)
(* What was performed, and what is ahead.                                  *)
(***************************************************************************)

\* The first states.
LEMMA InitHistory == Init => EnabledIsArmed /\ PerformedIsPast
<1> SUFFICES ASSUME Init, NEW t \in Tasks
             PROVE  /\ row[t].next \in Nat
                    /\ performed[t] = Never /\ now = 0
  BY DEF EnabledIsArmed, PerformedIsPast, Never
<1>1. PICK rule \in Rules : row[t] = Row(rule, TRUE, NextOccurrence(rule, 0, Never))
  BY DEF Init
<1>2. row[t].next = NextOccurrence(rule, 0, Never)
  BY <1>1 DEF Row
<1> QED  BY <1>2, NextInTime DEF Init

\* No step leaves an enabled task without an occurrence.
LEMMA ArmedStep ==
    ASSUME TypeOK, Control, EnabledIsArmed, [Next]_vars
    PROVE  EnabledIsArmed'
<1> SUFFICES ASSUME NEW t \in Tasks, row'[t].exists, row'[t].enabled
             PROVE  row'[t].next # Never
  BY DEF EnabledIsArmed
<1>1. CASE row'[t].next \in Nat
  BY <1>1, Instants
<1>2. CASE row[t].exists /\ row[t].enabled /\ row'[t].next = row[t].next
  BY <1>2 DEF EnabledIsArmed
<1> QED  BY <1>1, <1>2, RowSteps

\* What the loop has performed, and what it is performing, changes with a run of
\* the loop only.
LEMMA LoopRuns ==
    ASSUME TypeOK, [Next]_vars
    PROVE  \/ performed' = performed /\ run'["loop"] = run["loop"]
           \/ performed' = performed /\ RunEnds
           \/ performed' = [t \in Tasks |-> Never] /\ row' = row /\ now' = now
           \/ \E t \in Tasks : RunBegins(t)
<1>1. "loop" \in Runners /\ run["loop"] = run["loop"]
  BY Instants
<1>2. \A t \in Tasks : RunNow(t) => run'["loop"] = run["loop"]
  BY DEF RunNow, Loads, TypeOK
<1>3. RunNowEnds => run'["loop"] = run["loop"]
  BY DEF RunNowEnds, TypeOK
<1>4. \A t \in Tasks : Requests(t) => performed' = performed /\ run'["loop"] = run["loop"]
  BY <1>2 DEF Requests, Delete, Create, Update, RunNow, loopVars
<1> QED
  BY <1>3, <1>4 DEF Next, vars, loopVars, ClockTicks, TickWakes, RunEnds, RunNowEnds, MsmStops,
                    MsmStarts, RunSkipped

\* Time never goes back.
LEMMA TimeSteps ==
    ASSUME TypeOK, [Next]_vars
    PROVE  now' \in Nat /\ (now' = now \/ now' = now + 1)
<1>1. now' = now \/ now' = now + 1
  BY DEF Next, vars, ClockTicks, TickWakes, RunEnds, RunNowEnds, MsmStops, MsmStarts,
         RunBegins, RunSkipped, Requests, Delete, RunNow, Create, Update
<1> QED  BY <1>1, Instants

\* No step brings back an occurrence that was performed.
LEMMA PerformedStep ==
    ASSUME TypeOK, Control, EnabledIsArmed, PerformedIsPast, [Next]_vars
    PROVE  PerformedIsPast'
<1> SUFFICES ASSUME NEW t \in Tasks
             PROVE  /\ performed'[t] <= now'
                    /\ row'[t].exists /\ row'[t].enabled =>
                           row'[t].next > performed'[t] \/ BeingRun(t)'
  BY DEF PerformedIsPast
<1>0. now \in Nat /\ performed[t] \in Instant /\ performed[t] <= now
  BY Instants DEF TypeOK, PerformedIsPast
<1>1. now' \in Nat /\ now' >= now
  BY TimeSteps, Instants
<1>2. row'[t].exists /\ row'[t].enabled =>
          \/ row'[t].next \in Nat /\ row'[t].next > now
          \/ row[t].exists /\ row[t].enabled /\ row'[t].next = row[t].next /\ (RunEnds => ~BeingRun(t))
  BY RowSteps
<1>3. row[t].exists /\ row[t].enabled => row[t].next > performed[t] \/ BeingRun(t)
  BY DEF PerformedIsPast
<1>4. CASE performed' = performed /\ run'["loop"] = run["loop"]
  <2>1. BeingRun(t)' <=> BeingRun(t)
    BY <1>4 DEF BeingRun
  <2> QED  BY <1>0, <1>1, <1>2, <1>3, <1>4, <2>1, Instants DEF Instant
<1>5. CASE performed' = performed /\ RunEnds
  BY <1>0, <1>1, <1>2, <1>3, <1>5, Instants DEF Instant
<1>6. CASE performed' = [u \in Tasks |-> Never] /\ row' = row /\ now' = now
  <2>1. performed'[t] = Never
    BY <1>6
  <2>2. row[t].exists /\ row[t].enabled => row[t].next \in Nat
    BY RowTypes, FieldTypes DEF EnabledIsArmed, Instant
  <2> QED  BY <1>0, <1>6, <2>1, <2>2, Instants
<1>7. ASSUME NEW u \in Tasks, RunBegins(u)
      PROVE  /\ performed'[t] <= now'
             /\ row'[t].exists /\ row'[t].enabled =>
                    row'[t].next > performed'[t] \/ BeingRun(t)'
  <2>1. /\ ~run["loop"].busy /\ row[u].exists
        /\ row' = row /\ now' = now
        /\ performed' = IF Due(u) THEN [performed EXCEPT ![u] = row[u].next] ELSE performed
        /\ Loads("loop", u)
    BY <1>7 DEF RunBegins
  <2>2. ~BeingRun(t)
    BY <2>1 DEF BeingRun
  <2>3. CASE Due(u) /\ t = u
    <3>1. performed'[t] = row[t].next /\ row[t].next <= now
      BY <2>1, <2>3 DEF TypeOK, Due
    <3>2. run'["loop"] = [busy |-> TRUE, task |-> u, row |-> row[u], since |-> now]
      BY <2>1, LoadsTypes, Instants
    <3>3. BeingRun(t)'
      BY <3>2, <2>3 DEF BeingRun, Due
    <3> QED  BY <2>1, <3>1, <3>3
  <2>4. CASE ~(Due(u) /\ t = u)
    <3>1. performed'[t] = performed[t]
      BY <2>1, <2>4 DEF TypeOK
    <3> QED  BY <1>0, <1>3, <2>1, <2>2, <3>1
  <2> QED  BY <2>3, <2>4
<1> QED  BY <1>4, <1>5, <1>6, <1>7, LoopRuns

\* The loop performs an occurrence once, whatever is edited, suspended, deleted or run by
\* hand meanwhile, as long as MSM is not stopped between the action and its commit.
THEOREM NeverTwiceCorrect == Spec => NeverTwice
<1>1. TypeOK /\ Control /\ PerformedIsPast /\ [Next]_vars =>
          [\A t \in Tasks : RunBegins(t) /\ Due(t) => row[t].next > performed[t]]_vars
  BY DEF PerformedIsPast, RunBegins, BeingRun, Due
<1>2. Init => TypeOK /\ Control /\ EnabledIsArmed /\ PerformedIsPast
  BY InitControl, InitHistory
<1>3. TypeOK /\ Control /\ EnabledIsArmed /\ PerformedIsPast /\ [Next]_vars
          => (TypeOK /\ Control /\ EnabledIsArmed /\ PerformedIsPast)'
  BY NextControl, ArmedStep, PerformedStep
<1> QED  BY <1>1, <1>2, <1>3, PTL DEF Spec, NeverTwice

-----------------------------------------------------------------------------
(***************************************************************************)
(* How long a due task waits.                                              *)
(***************************************************************************)

\* The queue holds tasks, and never the one that is run.
LEMMA Counting ==
    ASSUME TypeOK, Control
    PROVE  /\ Cardinality(Tasks) \in Nat /\ Cardinality(queue) \in Nat
           /\ IsFiniteSet(queue)
           /\ Cardinality(queue) <= Cardinality(Tasks)
           /\ run["loop"].busy => Cardinality(queue) < Cardinality(Tasks)
           /\ \A t \in queue : Cardinality(queue \ {t}) = Cardinality(queue) - 1
           /\ Left \in 0 .. Cardinality(Tasks)
<1>1. IsFiniteSet(Tasks) /\ queue \subseteq Tasks
  BY RulesAssumption DEF TypeOK
<1>2. IsFiniteSet(queue) /\ Cardinality(queue) <= Cardinality(Tasks)
  BY <1>1, FS_Subset
<1>3. Cardinality(Tasks) \in Nat /\ Cardinality(queue) \in Nat
  BY <1>1, <1>2, FS_CardinalityType
<1>4. \A t \in queue : Cardinality(queue \ {t}) = Cardinality(queue) - 1
  BY <1>2, FS_RemoveElement
<1>5. run["loop"].busy => Cardinality(queue) < Cardinality(Tasks)
  <2> SUFFICES ASSUME run["loop"].busy PROVE Cardinality(queue) < Cardinality(Tasks)
    OBVIOUS
  <2>1. run["loop"].task \in Tasks \ queue
    BY RunTypes, Instants DEF Control
  <2>2. queue # Tasks
    BY <2>1
  <2> QED  BY <1>1, <1>3, <2>2, FS_Subset
<1> QED  BY <1>2, <1>3, <1>4, <1>5 DEF Left

\* Products of a number of runs and the longest run.
LEMMA Product ==
    ASSUME NEW n \in Nat, NEW k \in 0..n, NEW m \in Nat
    PROVE  k * m \in Nat /\ n * m \in Nat /\ (n - k) * m \in Nat
           /\ (n - k) * m + k * m = n * m
           /\ (k > 0 => (n - k) * m + m <= n * m)
<1>1. k * m \in Nat /\ n * m \in Nat /\ (n - k) * m \in Nat
  OBVIOUS
<1>2. (n - k) * m + k * m = n * m
  OBVIOUS
<1>3. k > 0 => k * m >= m
  OBVIOUS
<1> QED  BY <1>1, <1>2, <1>3

\* A tick lasts no longer than all its runs.
LEMMA ElapsedBounds ==
    ASSUME TypeOK, Control
    PROVE  /\ TickLasts \in Nat /\ Cost \in Nat /\ Behind \in Nat
           /\ Elapsed \in Nat /\ Elapsed <= TickLasts
           /\ Patience = Cost * unrecorded + Cost
           /\ Behind = Cost * unrecorded + TickLasts
           /\ Cost = Period + 2 * TickLasts
<1> DEFINE n == Cardinality(Tasks)
<1>1. n \in Nat /\ Left \in 0..n /\ MaxRun \in Nat /\ Period \in Nat /\ unrecorded \in Nat
  BY Counting, Instants DEF TypeOK
<1>2. n * MaxRun \in Nat /\ (n - Left) * MaxRun \in Nat
      /\ Left * MaxRun \in Nat /\ (n - Left) * MaxRun + Left * MaxRun = n * MaxRun
      /\ (Left > 0 => (n - Left) * MaxRun + MaxRun <= n * MaxRun)
  BY <1>1, Product
<1>3. TickLasts = n * MaxRun /\ Cost = Period + 2 * TickLasts
      /\ Behind = Cost * unrecorded + TickLasts
  BY DEF TickLasts, Cost, Behind
<1>4. TickLasts \in Nat /\ Cost \in Nat
  BY <1>1, <1>2, <1>3
<1>5. Cost * unrecorded \in Nat
  BY <1>1, <1>4
<1>6. Patience = Cost * unrecorded + Cost
  BY <1>1, <1>4 DEF Patience, Cost
<1> HIDE DEF n
<1>7. Elapsed \in Nat /\ Elapsed <= TickLasts
  <2>1. CASE run["loop"].busy
    <3>1. run["loop"].since \in Nat /\ run["loop"].since <= now /\ now <= run["loop"].since + MaxRun
          /\ now \in Nat
      BY <2>1, RunTypes, Instants DEF Control
    <3>2. Left > 0
      BY <2>1, Counting DEF Left
    <3>3. Elapsed = (n - Left) * MaxRun + (now - run["loop"].since)
      BY <2>1 DEF Elapsed, n
    <3> QED  BY <1>1, <1>2, <1>3, <3>1, <3>2, <3>3
  <2>2. CASE ~run["loop"].busy
    <3>1. Elapsed = (n - Left) * MaxRun + 0
      BY <2>2 DEF Elapsed, n
    <3> QED  BY <1>1, <1>2, <1>3, <3>1
  <2> QED  BY <2>1, <2>2
<1> QED  BY <1>3, <1>4, <1>5, <1>6, <1>7

\* A product grows with its factor.
LEMMA Scaled ==
    ASSUME NEW c \in Nat, NEW a \in Nat, NEW b \in Nat, a <= b
    PROVE  c * a \in Nat /\ c * b \in Nat /\ c * a <= c * b
<1>1. c * a \in Nat /\ c * b \in Nat
  OBVIOUS
<1>2. c * a <= c * b
  OBVIOUS
<1> QED  BY <1>1, <1>2

\* A task that is due after a step that takes no time was due before.
LEMMA StillDue ==
    ASSUME TypeOK, Control, [Next]_vars, now' = now, NEW t \in Tasks, Due(t)'
    PROVE  Due(t) /\ row'[t].next = row[t].next /\ (RunEnds => ~BeingRun(t))
<1>1. row'[t].exists /\ row'[t].enabled /\ row'[t].next # Never /\ row'[t].next <= now
  BY DEF Due
<1>2. \/ row'[t].next \in Nat /\ row'[t].next > now
      \/ row[t].exists /\ row[t].enabled /\ row'[t].next = row[t].next /\ (RunEnds => ~BeingRun(t))
  BY <1>1, RowSteps
<1> QED  BY <1>1, <1>2, Instants DEF Due

\* A due task has waited for a time.
LEMMA WaitedIs ==
    ASSUME TypeOK, Control, up # Never, NEW t \in Tasks, Due(t)
    PROVE  /\ Waited(t) \in Nat
           /\ row[t].next \in Nat /\ up \in Nat /\ up <= now /\ row[t].next <= now
           /\ row[t].exists
<1>1. row[t].exists /\ row[t].next # Never /\ row[t].next <= now
  BY DEF Due
<1>2. row[t].next \in Nat /\ up \in Nat /\ up <= now
  BY <1>1, RowTypes, FieldTypes, Instants DEF Instant, Control
<1> QED  BY <1>1, <1>2, Instants DEF Waited, Later

\* WaitsInTurn, for one task.
WaitsInTurnFor(t) ==
    /\ slept # Never => Waited(t) <= Behind + (now - slept)
    /\ slept = Never /\ Selected(t) => Waited(t) <= Behind + Period + Elapsed
    /\ slept = Never /\ ~Selected(t) => Waited(t) <= Elapsed

\* A request changes nothing the bounds are made of, except a later next run.
LEMMA QuietWait ==
    ASSUME TypeOK, Control, WaitsInTurn, [Next]_vars, NEW t \in Tasks,
           up' # Never, Due(t)', ~RunEnds,
           now' = now, up' = up, slept' = slept, queue' = queue, run'["loop"] = run["loop"],
           unrecorded' \in Nat, unrecorded' >= unrecorded
    PROVE  WaitsInTurnFor(t)'
<1>1. Due(t) /\ row'[t].next = row[t].next
  BY StillDue
<1>2. WaitsInTurnFor(t)
  BY <1>1 DEF WaitsInTurn, WaitsInTurnFor
<1>3. Waited(t)' = Waited(t) /\ Elapsed' = Elapsed /\ Selected(t)' = Selected(t)
  BY <1>1 DEF Waited, Elapsed, Left, Selected, BeingRun
<1>4. /\ Behind \in Nat /\ Cost \in Nat /\ TickLasts \in Nat /\ Elapsed \in Nat
      /\ Behind = Cost * unrecorded + TickLasts
  BY ElapsedBounds
<1>5. Behind' = Cost * unrecorded' + TickLasts
  BY DEF Behind, Cost, TickLasts
<1>6. Behind' \in Nat /\ Behind' >= Behind
  <2>1. unrecorded \in Nat
    BY DEF TypeOK
  <2>2. /\ Cost * unrecorded \in Nat /\ Cost * unrecorded' \in Nat
        /\ Cost * unrecorded <= Cost * unrecorded'
    BY <1>4, <2>1, Scaled
  <2> QED  BY <1>4, <1>5, <2>2
<1>7. Waited(t) \in Nat
  BY <1>1, WaitedIs
<1> HIDE DEF Selected
<1> QED  BY <1>2, <1>3, <1>4, <1>6, <1>7, Instants DEF WaitsInTurnFor

\* Time passes.
LEMMA ClockWait ==
    ASSUME TypeOK, Control, TypeOK', Control', WaitsInTurn, ClockTicks, NEW t \in Tasks,
           up' # Never, Due(t)'
    PROVE  WaitsInTurnFor(t)'
<1>1. /\ now' = now + 1 /\ row' = row /\ run' = run /\ up' = up /\ slept' = slept
      /\ queue' = queue /\ unrecorded' = unrecorded
      /\ slept = Never => run["loop"].busy
  BY DEF ClockTicks, loopVars
<1>2. /\ Behind' = Behind /\ Selected(t)' = Selected(t) /\ Behind \in Nat /\ Elapsed \in Nat
  BY <1>1, ElapsedBounds DEF Behind, Cost, TickLasts, Selected, BeingRun
<1>3. slept = Never => Elapsed' = Elapsed + 1
  <2> SUFFICES ASSUME slept = Never PROVE Elapsed' = Elapsed + 1
    OBVIOUS
  <2> DEFINE k == (Cardinality(Tasks) - Left) * MaxRun
  <2>1. Elapsed = k + (now - run["loop"].since) /\ Elapsed' = k + (now' - run["loop"].since)
    BY <1>1 DEF Elapsed, Left
  <2>2. k \in Int /\ now \in Nat /\ run["loop"].since \in Nat
    BY <1>1, RunTypes, Instants, Counting
  <2> HIDE DEF k
  <2> QED  BY <1>1, <2>1, <2>2
<1>4. CASE Due(t)
  <2>1. WaitsInTurnFor(t) /\ Waited(t) \in Nat
    BY <1>1, <1>4, WaitedIs DEF WaitsInTurn, WaitsInTurnFor
  <2>2. Waited(t)' = Waited(t) + 1
    BY <1>1, <1>4, WaitedIs, Instants DEF Waited, Later
  <2> HIDE DEF Selected
  <2> QED  BY <1>1, <1>2, <1>3, <2>1, <2>2, Instants DEF WaitsInTurnFor
<1>5. CASE ~Due(t)
  <2>1. row[t].next = now + 1
    <3>1. /\ row[t].exists /\ row[t].enabled /\ row[t].next # Never /\ row[t].next <= now + 1
      BY <1>1 DEF Due
    <3>2. row[t].next \in Nat
      BY <3>1, RowTypes, FieldTypes, Instants DEF Instant
    <3> QED  BY <1>5, <3>1, <3>2, Instants DEF Due
  <2>2. up \in Nat /\ up <= now
    BY <1>1, Instants DEF Control
  <2>3. Waited(t)' = 0
    BY <1>1, <2>1, <2>2, Instants DEF Waited, Later
  <2>4. slept # Never => slept \in Nat /\ slept <= now
    BY Instants DEF Control
  <2> HIDE DEF Selected
  <2> QED  BY <1>1, <1>2, <1>3, <2>3, <2>4, Instants DEF WaitsInTurnFor
<1> QED  BY <1>4, <1>5

\* A tick takes every task that is due.
LEMMA TickWait ==
    ASSUME TypeOK, Control, TypeOK', Control', WaitsInTurn, TickWakes, NEW t \in Tasks,
           up' # Never, Due(t)'
    PROVE  WaitsInTurnFor(t)'
<1> DEFINE due    == {u \in Tasks : Due(u)}
           missed == {u \in due : TooLate(u)}
<1>1. /\ slept # Never /\ now = slept + Period
      /\ row' = [u \in Tasks |->
                    IF u \in missed
                    THEN [row[u] EXCEPT !.status = "MISSED",
                                        !.next = NextOccurrence(row[u].rule, now, Never)]
                    ELSE row[u]]
      /\ IF due = missed THEN Sleeps ELSE slept' = Never /\ queue' = due \ missed
      /\ now' = now /\ up' = up /\ run' = run /\ unrecorded' = unrecorded
  BY DEF TickWakes
<1>2. [Next]_vars
  BY DEF Next
<1>3. Due(t) /\ row'[t].next = row[t].next
  BY <1>1, <1>2, StillDue
<1>4. t \notin missed
  <2> SUFFICES ASSUME t \in missed PROVE FALSE
    OBVIOUS
  <2>1. row[t] \in Rows
    BY <1>3, RowTypes DEF Due
  <2>2. row'[t].next = NextOccurrence(row[t].rule, now, Never)
    BY <1>1, <2>1 DEF Rows
  <2>3. row[t].rule \in Rules
    BY <2>1, FieldTypes
  <2>4. row'[t].next > now /\ row'[t].next \in Nat
    BY <2>2, <2>3, NextInTime, Instants
  <2> QED  BY <1>3, <2>4, WaitedIs, Instants DEF Due
<1>5. due # missed /\ t \in due \ missed
  BY <1>3, <1>4
<1> HIDE DEF due, missed
<1>6. slept' = Never /\ t \in queue'
  BY <1>1, <1>5
<1>7. Waited(t)' = Waited(t) /\ Behind' = Behind
  BY <1>1, <1>3 DEF Waited, Behind, Cost, TickLasts
<1>8. Waited(t) <= Behind + Period
  <2>1. Waited(t) <= Behind + (now - slept)
    BY <1>1, <1>3 DEF WaitsInTurn
  <2>2. now - slept = Period
    <3>1. now = slept + Period /\ slept # Never
      BY <1>1
    <3>2. slept \in Nat /\ Period \in Nat
      BY <3>1, Instants
    <3> QED  BY <3>1, <3>2
  <2> QED  BY <2>1, <2>2
<1>9. Elapsed' \in Nat
  <2>1. TypeOK' /\ Control' => (Elapsed \in Nat)'
    BY ElapsedBounds, PTL
  <2> QED  BY <2>1
<1>10. Behind \in Nat /\ Waited(t) \in Nat
  BY <1>1, <1>3, ElapsedBounds, WaitedIs
<1> QED  BY <1>6, <1>7, <1>8, <1>9, <1>10, Instants DEF WaitsInTurnFor, Selected

\* A run of the loop begins.
LEMMA BeginsWait ==
    ASSUME TypeOK, Control, TypeOK', Control', WaitsInTurn, NEW u \in Tasks, RunBegins(u),
           NEW t \in Tasks, Due(t)'
    PROVE  WaitsInTurnFor(t)'
<1>1. /\ slept = Never /\ up # Never /\ u \in queue /\ ~run["loop"].busy /\ row[u].exists
      /\ Loads("loop", u) /\ queue' = queue \ {u}
      /\ now' = now /\ row' = row /\ up' = up /\ slept' = slept /\ unrecorded' = unrecorded
  BY DEF RunBegins
<1>2. run'["loop"] = [busy |-> TRUE, task |-> u, row |-> row[u], since |-> now]
  BY <1>1, LoadsTypes, Instants
<1>3. Due(t) /\ Waited(t)' = Waited(t) /\ Behind' = Behind
  BY <1>1 DEF Due, Waited, Behind, Cost, TickLasts
<1>4. Selected(t)' <=> t \in queue
  <2>1. BeingRun(t)' <=> (t = u /\ row[u].enabled)
    BY <1>2 DEF BeingRun
  <2>2. row[t].enabled
    BY <1>3 DEF Due
  <2> QED  BY <1>1, <2>1, <2>2 DEF Selected
<1>5. Selected(t) <=> t \in queue
  BY <1>1 DEF Selected, BeingRun
<1>6. Elapsed' = Elapsed
  <2>1. Left = Cardinality(queue) + 0 /\ Left' = (Cardinality(queue) - 1) + 1
    BY <1>1, <1>2, Counting DEF Left
  <2>2. Left' = Left
    BY <2>1, Counting
  <2>3. Elapsed = (Cardinality(Tasks) - Left) * MaxRun + 0
    BY <1>1 DEF Elapsed
  <2>4. Elapsed' = (Cardinality(Tasks) - Left) * MaxRun + (now - now)
    BY <1>1, <1>2, <2>2 DEF Elapsed
  <2>5. now - now = 0
    BY Instants
  <2> QED  BY <2>3, <2>4, <2>5
<1> QED  BY <1>1, <1>3, <1>4, <1>5, <1>6 DEF WaitsInTurn, WaitsInTurnFor

\* One task less to run counts for the longest run.
LEMMA OneLess ==
    ASSUME TypeOK, Control, Left > 0
    PROVE  (Cardinality(Tasks) - (Left - 1)) * MaxRun
              = (Cardinality(Tasks) - Left) * MaxRun + MaxRun
<1>1. Left \in Nat /\ Cardinality(Tasks) \in Nat /\ MaxRun \in Nat
  BY Counting, Instants
<1> QED  BY <1>1

\* A deleted task is skipped.
LEMMA SkippedWait ==
    ASSUME TypeOK, Control, TypeOK', Control', WaitsInTurn, NEW u \in Tasks, RunSkipped(u),
           NEW t \in Tasks, Due(t)'
    PROVE  WaitsInTurnFor(t)'
<1>1. /\ slept = Never /\ up # Never /\ u \in queue /\ ~run["loop"].busy /\ ~row[u].exists
      /\ now' = now /\ row' = row /\ up' = up /\ run' = run /\ unrecorded' = unrecorded
      /\ IF queue = {u} THEN Sleeps ELSE queue' = queue \ {u} /\ UNCHANGED slept
  BY DEF RunSkipped
<1>2. Due(t) /\ Waited(t)' = Waited(t) /\ Behind' = Behind /\ t # u
  BY <1>1 DEF Due, Waited, Behind, Cost, TickLasts
<1>3. WaitsInTurnFor(t) /\ Waited(t) \in Nat
  BY <1>1, <1>2, WaitedIs DEF WaitsInTurn, WaitsInTurnFor
<1>4. Selected(t) <=> t \in queue
  BY <1>1 DEF Selected, BeingRun
<1>5. /\ Behind \in Nat /\ Elapsed \in Nat /\ Elapsed <= TickLasts /\ TickLasts \in Nat
      /\ Cost * unrecorded \in Nat /\ Behind = Cost * unrecorded + TickLasts
  <2>1. unrecorded \in Nat /\ Cost \in Nat
    BY ElapsedBounds DEF TypeOK
  <2>2. Cost * unrecorded \in Nat
    BY <2>1
  <2> QED  BY <2>2, ElapsedBounds
<1>6. CASE queue = {u}
  <2>1. slept' = now /\ t \notin queue
    BY <1>1, <1>2, <1>6 DEF Sleeps
  <2>2. Waited(t) <= Elapsed
    BY <1>1, <1>3, <1>4, <2>1 DEF WaitsInTurnFor
  <2>3. now' - slept' = 0 /\ slept' # Never
    BY <1>1, <2>1, Instants
  <2> QED  BY <1>2, <1>3, <1>5, <2>2, <2>3 DEF WaitsInTurnFor
<1>7. CASE queue # {u}
  <2>1. queue' = queue \ {u} /\ slept' = Never
    BY <1>1, <1>7
  <2>2. Selected(t)' <=> t \in queue
    BY <1>1, <1>2, <2>1 DEF Selected, BeingRun
  <2>3. Left = Cardinality(queue) /\ Left' = Cardinality(queue) - 1 /\ Left > 0
    <3>1. Cardinality(queue \ {u}) = Cardinality(queue) - 1 /\ Cardinality(queue) \in Nat
      BY <1>1, Counting
    <3>2. Cardinality(queue \ {u}) \in Nat
      BY Counting, FS_RemoveElement, FS_CardinalityType, FS_Subset
    <3>3. Left = Cardinality(queue) + 0 /\ Left' = Cardinality(queue \ {u}) + 0
      BY <1>1, <2>1 DEF Left
    <3> QED  BY <3>1, <3>2, <3>3
  <2>4. Elapsed' = (Cardinality(Tasks) - (Left - 1)) * MaxRun + 0
        /\ Elapsed = (Cardinality(Tasks) - Left) * MaxRun + 0
    BY <1>1, <2>1, <2>3 DEF Elapsed
  <2>5. Elapsed' = Elapsed + MaxRun
    <3>1. (Cardinality(Tasks) - Left) * MaxRun \in Int /\ MaxRun \in Nat
      BY Counting, Instants
    <3> QED  BY <2>3, <2>4, <3>1, OneLess
  <2>6. MaxRun \in Nat /\ Period \in Nat
    BY Instants
  <2> QED  BY <1>1, <1>2, <1>3, <1>4, <1>5, <2>1, <2>2, <2>5, <2>6 DEF WaitsInTurnFor
<1> QED  BY <1>6, <1>7

\* A run of the loop ends; when its outcome cannot be written, the tick is cut short.
LEMMA EndsWait ==
    ASSUME TypeOK, Control, TypeOK', Control', WaitsInTurn, RunEnds, NEW t \in Tasks, Due(t)'
    PROVE  WaitsInTurnFor(t)'
<1>1. /\ run["loop"].busy /\ run' = [run EXCEPT !["loop"] = Idle]
      /\ now' = now /\ up' = up
      /\ slept = Never /\ up # Never
  BY Instants DEF RunEnds, TypeOK, Control
<1>2. ~run'["loop"].busy
  BY <1>1, EndsTypes, Instants
<1>3. [Next]_vars
  BY DEF Next
<1>4. Due(t) /\ row'[t].next = row[t].next /\ ~BeingRun(t)
  BY <1>1, <1>3, StillDue
<1>5. Waited(t)' = Waited(t) /\ Waited(t) \in Nat
  BY <1>1, <1>4, WaitedIs DEF Waited
<1>6. WaitsInTurnFor(t)
  BY <1>1, <1>4 DEF WaitsInTurn, WaitsInTurnFor
<1>7. Selected(t) <=> t \in queue
  BY <1>4 DEF Selected
<1>8. /\ Behind \in Nat /\ Elapsed \in Nat /\ Elapsed <= TickLasts /\ TickLasts \in Nat
      /\ Cost * unrecorded \in Nat /\ Behind = Cost * unrecorded + TickLasts
      /\ Cost \in Nat /\ Cost = Period + 2 * TickLasts /\ Period \in Nat
      /\ unrecorded \in Nat
  <2>1. unrecorded \in Nat /\ Cost \in Nat
    BY ElapsedBounds DEF TypeOK
  <2>2. Cost * unrecorded \in Nat
    BY <2>1
  <2> QED  BY <2>1, <2>2, ElapsedBounds, Instants
<1>9. CASE NotRecorded("loop")
  <2>1. slept' = now /\ unrecorded' = unrecorded + 1
    <3>1. ~Recorded("loop")
      BY <1>9 DEF Recorded, NotRecorded
    <3> QED  BY <1>9, <3>1 DEF RunEnds, Sleeps, NotRecorded
  <2>2. now' - slept' = 0 /\ slept' # Never
    BY <1>1, <2>1, Instants
  <2>3. Behind' = Cost * (unrecorded + 1) + TickLasts
    BY <2>1 DEF Behind, Cost, TickLasts
  <2>4. Cost * (unrecorded + 1) = Cost * unrecorded + Cost
    BY <1>8
  <2>5. Waited(t) <= Behind + Period + Elapsed
    BY <1>1, <1>5, <1>6, <1>8 DEF WaitsInTurnFor
  <2>6. Waited(t) <= Behind'
    BY <1>5, <1>8, <2>3, <2>4, <2>5
  <2>7. Behind' + 0 = Behind'
    BY <1>8, <2>3, <2>4
  <2> QED  BY <1>5, <2>2, <2>6, <2>7 DEF WaitsInTurnFor
<1>10. CASE Recorded("loop")
  <2>1. unrecorded' = unrecorded /\ Behind' = Behind
    BY <1>10 DEF Recorded, Behind, Cost, TickLasts
  <2>2. IF queue = {} THEN Sleeps ELSE UNCHANGED <<slept, queue>>
    BY <1>10 DEF RunEnds, Recorded, NotRecorded
  <2>3. CASE queue = {}
    <3>1. slept' = now
      BY <2>2, <2>3 DEF Sleeps
    <3>2. now' - slept' = 0 /\ slept' # Never
      BY <1>1, <3>1, Instants
    <3>3. Waited(t) <= Elapsed
      BY <1>1, <1>6, <1>7, <2>3 DEF WaitsInTurnFor
    <3> QED  BY <1>5, <1>8, <2>1, <3>2, <3>3 DEF WaitsInTurnFor
  <2>4. CASE queue # {}
    <3>1. slept' = Never /\ queue' = queue
      BY <1>1, <2>2, <2>4
    <3>2. Selected(t)' <=> t \in queue
      BY <1>2, <3>1 DEF Selected, BeingRun
    <3> DEFINE k == (Cardinality(Tasks) - Left) * MaxRun
    <3>3. Left = Cardinality(queue) + 1 /\ Left' = Cardinality(queue) + 0
          /\ Cardinality(queue) \in Nat
      BY <1>1, <1>2, <3>1, Counting DEF Left
    <3>4. Elapsed = k + (now - run["loop"].since)
      BY <1>1 DEF Elapsed
    <3>5. Elapsed' = k + MaxRun
      <4>1. Elapsed' = (Cardinality(Tasks) - (Left - 1)) * MaxRun + 0
        BY <1>2, <3>3 DEF Elapsed
      <4>2. Left > 0
        BY <3>3
      <4>3. k \in Int /\ MaxRun \in Nat
        BY Counting, Instants
      <4> HIDE DEF k
      <4>4. (Cardinality(Tasks) - (Left - 1)) * MaxRun = k + MaxRun
        BY <4>2, OneLess DEF k
      <4> QED  BY <4>1, <4>3, <4>4
    <3>6. k \in Int /\ MaxRun \in Nat /\ now - run["loop"].since <= MaxRun
          /\ now - run["loop"].since \in Int
      BY <1>1, Counting, RunTypes, Instants DEF Control
    <3> HIDE DEF k
    <3>7. Elapsed' >= Elapsed /\ Elapsed' \in Int
      BY <3>4, <3>5, <3>6
    <3> QED  BY <1>1, <1>5, <1>6, <1>7, <1>8, <2>1, <3>1, <3>2, <3>7 DEF WaitsInTurnFor
  <2> QED  BY <2>3, <2>4
<1> QED  BY <1>9, <1>10 DEF RunEnds

\* Every step keeps the bounds of the waiting.
LEMMA WaitStep ==
    ASSUME TypeOK, Control, WaitsInTurn, [Next]_vars
    PROVE  WaitsInTurn'
<1> SUFFICES ASSUME NEW t \in Tasks, up' # Never, Due(t)' PROVE WaitsInTurnFor(t)'
  BY DEF WaitsInTurn, WaitsInTurnFor
<1>0. TypeOK' /\ Control'
  BY NextControl
<1>1. CASE ClockTicks
  BY <1>0, <1>1, ClockWait
<1>2. CASE TickWakes
  BY <1>0, <1>2, TickWait
<1>3. CASE RunEnds
  BY <1>0, <1>3, EndsWait
<1>4. ASSUME NEW u \in Tasks, RunBegins(u) PROVE WaitsInTurnFor(t)'
  BY <1>0, <1>4, BeginsWait
<1>5. ASSUME NEW u \in Tasks, RunSkipped(u) PROVE WaitsInTurnFor(t)'
  BY <1>0, <1>5, SkippedWait
<1>6. CASE RunNowEnds /\ ~RunEnds
  <2>1. run'["loop"] = run["loop"]
    BY <1>6 DEF RunNowEnds, TypeOK, Runners
  <2>2. unrecorded' \in Nat /\ unrecorded' >= unrecorded
    BY <1>6 DEF RunNowEnds, Recorded, NotRecorded, TypeOK
  <2> QED  BY <1>6, <2>1, <2>2, QuietWait DEF RunNowEnds, loopVars
<1>7. ASSUME NEW u \in Tasks, Requests(u), ~RunEnds PROVE WaitsInTurnFor(t)'
  <2>1. /\ now' = now /\ up' = up /\ slept' = slept /\ queue' = queue
        /\ unrecorded' = unrecorded
    BY <1>7 DEF Requests, Delete, RunNow, Create, Update, loopVars
  <2>2. run'["loop"] = run["loop"]
    BY <1>7 DEF Requests, Delete, RunNow, Create, Update, Loads, TypeOK, Runners
  <2>3. unrecorded' \in Nat /\ unrecorded' >= unrecorded
    BY <2>1 DEF TypeOK
  <2> QED  BY <1>7, <2>1, <2>2, <2>3, QuietWait
<1>8. CASE MsmStops
  BY <1>8 DEF MsmStops
<1>9. CASE MsmStarts
  <2>1. /\ up' = now /\ slept' = now /\ now' = now /\ row' = row /\ unrecorded' = unrecorded
    BY <1>9 DEF MsmStarts
  <2>2. Waited(t)' = 0
    <3>1. row[t].next <= now /\ row[t].next # Never /\ row[t].exists
      BY <2>1 DEF Due
    <3>2. row[t].next \in Nat
      BY <3>1, RowTypes, FieldTypes, Instants DEF Instant
    <3> QED  BY <2>1, <3>1, <3>2, Instants DEF Waited, Later
  <2>3. Behind' = Behind /\ Behind \in Nat
    BY <2>1, ElapsedBounds DEF Behind, Cost, TickLasts
  <2> QED  BY <2>1, <2>2, <2>3, Instants DEF WaitsInTurnFor
<1>10. CASE UNCHANGED vars /\ ~RunEnds
  <2>1. unrecorded' \in Nat /\ unrecorded' >= unrecorded
    BY <1>10 DEF vars, TypeOK
  <2> QED  BY <1>10, <2>1, QuietWait DEF vars
<1> QED  BY <1>1, <1>2, <1>3, <1>4, <1>5, <1>6, <1>7, <1>8, <1>9, <1>10 DEF Next

\* The bounds add up to the patience.
LEMMA WaitIsBounded ==
    ASSUME TypeOK, Control, WaitsInTurn
    PROVE  SettledSoon
<1> SUFFICES ASSUME NEW t \in Tasks, up # Never, Due(t)
             PROVE  Waited(t) <= Patience
  BY DEF SettledSoon, Waited
<1>1. WaitsInTurnFor(t) /\ Waited(t) \in Nat
  BY WaitedIs DEF WaitsInTurn, WaitsInTurnFor
<1>2. /\ Behind \in Nat /\ Elapsed \in Nat /\ Elapsed <= TickLasts /\ TickLasts \in Nat
      /\ Cost * unrecorded \in Nat /\ Behind = Cost * unrecorded + TickLasts
      /\ Cost = Period + 2 * TickLasts /\ Period \in Nat /\ Patience = Cost * unrecorded + Cost
  <2>1. unrecorded \in Nat /\ Cost \in Nat
    BY ElapsedBounds DEF TypeOK
  <2>2. Cost * unrecorded \in Nat
    BY <2>1
  <2> QED  BY <2>2, ElapsedBounds, Instants
<1> HIDE DEF Patience
<1>3. CASE slept # Never
  <2>1. now - slept <= Period /\ now - slept \in Int
    BY <1>3, Instants DEF Control
  <2> QED  BY <1>1, <1>2, <1>3, <2>1 DEF WaitsInTurnFor
<1>4. CASE slept = Never
  BY <1>1, <1>2, <1>4 DEF WaitsInTurnFor
<1> QED  BY <1>3, <1>4

\* Nothing is due in the first states.
LEMMA InitWaits == Init => WaitsInTurn
<1> SUFFICES ASSUME Init PROVE WaitsInTurn
  OBVIOUS
<1>1. \A t \in Tasks : row[t].next \in Nat /\ row[t].next > 0
  <2> SUFFICES ASSUME NEW t \in Tasks PROVE row[t].next \in Nat /\ row[t].next > 0
    OBVIOUS
  <2>1. PICK rule \in Rules : row[t] = Row(rule, TRUE, NextOccurrence(rule, 0, Never))
    BY DEF Init
  <2>2. row[t].next = NextOccurrence(rule, 0, Never)
    BY <2>1 DEF Row
  <2> QED  BY <2>2, NextInTime
<1>2. now = 0
  BY DEF Init
<1>3. \A t \in Tasks : ~Due(t)
  BY <1>1, <1>2 DEF Due
<1> QED  BY <1>3 DEF WaitsInTurn

\* An enabled task always has a next occurrence, and a task that is due is settled within
\* the tick under way and the next one, plus as much for each tick cut short.
THEOREM NothingForgottenCorrect == Spec => []NothingForgotten
<1>1. Init => TypeOK /\ Control /\ EnabledIsArmed /\ WaitsInTurn
  BY InitControl, InitHistory, InitWaits
<1>2. TypeOK /\ Control /\ EnabledIsArmed /\ WaitsInTurn /\ [Next]_vars
          => (TypeOK /\ Control /\ EnabledIsArmed /\ WaitsInTurn)'
  BY NextControl, ArmedStep, WaitStep
<1>3. TypeOK /\ Control /\ EnabledIsArmed /\ WaitsInTurn => NothingForgotten
  BY WaitIsBounded DEF NothingForgotten
<1> QED  BY <1>1, <1>2, <1>3, PTL DEF Spec

\* An occurrence is marked missed only if MSM was stopped when it was due, or if the
\* grace is shorter than what the ticks may last.
THEOREM MissedOnlyWhenDownCorrect == Spec => MissedOnlyWhenDown
<1>1. ASSUME TypeOK, Control, WaitsInTurn, TickWakes, NEW t \in Tasks, row'[t] # row[t]
      PROVE  up > row[t].next \/ Patience - TickLasts > Grace
  <2>1. Due(t) /\ TooLate(t) /\ slept # Never /\ now = slept + Period
    BY <1>1 DEF TickWakes
  <2>2. up # Never
    BY <1>1, <2>1 DEF Control
  <2>3. Waited(t) <= Behind + Period
    <3>1. Waited(t) <= Behind + (now - slept)
      BY <1>1, <2>1, <2>2 DEF WaitsInTurn
    <3>2. now - slept = Period
      <4>1. slept \in Nat /\ Period \in Nat
        BY <1>1, <2>1, Instants
      <4> QED  BY <2>1, <4>1
    <3> QED  BY <3>1, <3>2
  <2>4. Patience - TickLasts = Behind + Period /\ Behind + Period \in Nat
    <3>1. unrecorded \in Nat /\ Cost \in Nat
      BY <1>1, ElapsedBounds DEF TypeOK
    <3>2. Cost * unrecorded \in Nat /\ Period \in Nat
      BY <1>1, <3>1, Instants
    <3>3. /\ Patience = Cost * unrecorded + Cost /\ Behind = Cost * unrecorded + TickLasts
          /\ Cost = Period + 2 * TickLasts /\ TickLasts \in Nat
      BY <1>1, ElapsedBounds
    <3> HIDE DEF Patience
    <3> QED  BY <3>2, <3>3
  <2>5. /\ row[t].next \in Nat /\ up \in Nat /\ now \in Nat /\ Grace \in Nat
    BY <1>1, <2>1, <2>2, WaitedIs, Instants
  <2>6. now - row[t].next > Grace
    BY <2>1 DEF TooLate
  <2>7. up <= row[t].next => Waited(t) = now - row[t].next
    BY <2>5 DEF Waited, Later
  <2> HIDE DEF Patience
  <2> QED  BY <2>3, <2>4, <2>5, <2>6, <2>7
<1>2. TypeOK /\ Control /\ WaitsInTurn =>
          [\A t \in Tasks : TickWakes /\ row'[t] # row[t] =>
              up > row[t].next \/ Patience - TickLasts > Grace]_vars
  BY <1>1
<1>3. Init => TypeOK /\ Control /\ WaitsInTurn
  BY InitControl, InitWaits
<1>4. TypeOK /\ Control /\ WaitsInTurn /\ [Next]_vars => (TypeOK /\ Control /\ WaitsInTurn)'
  BY NextControl, WaitStep
<1> QED  BY <1>2, <1>3, <1>4, PTL DEF Spec, MissedOnlyWhenDown
=============================================================================
