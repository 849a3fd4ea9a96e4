----------------------------- MODULE Scheduler ------------------------------
(***************************************************************************)
(* Scheduled tasks: services/schedule_service.py.  The loop that wakes the *)
(* due tasks, a manual run beside it, the edits of the tasks, and the      *)
(* stops of MSM, in explicit time.                                         *)
(*                                                                         *)
(* A run loads its row, performs its action (which may take as long as a   *)
(* stop of a server) and commits the outcome and the next occurrence: what *)
(* happens in between is what is hard here.  Python and the event loop     *)
(* take no time: the loop wakes exactly scheduler_tick_s after it slept,   *)
(* and an action ends within MaxRun.  SUCCESS, FAILED and SKIPPED are one  *)
(* status, RAN, and last_run_at is left out: nothing reads them back.      *)
(***************************************************************************)
EXTENDS ScheduleRules, FiniteSets

CONSTANTS
    Tasks,
    Rules,         \* the rules a request may give a task
    Period,        \* scheduler_tick_s
    Grace,         \* scheduler_grace_minutes
    MaxRun,        \* the longest action
    Horizon,       \* bound: the last instant
    MaxRequests,   \* bound: edits and manual runs
    MaxStops       \* bound: stops of MSM

ASSUME RulesAssumption == IsFiniteSet(Tasks) /\ \A rule \in Rules : IsRule(rule)

ASSUME DurationsAssumption ==
    /\ Period \in Nat \ {0} /\ Grace \in Nat /\ MaxRun \in Nat
    /\ Horizon \in Nat /\ MaxRequests \in Nat /\ MaxStops \in Nat

NoRow == [exists |-> FALSE]
Idle  == [busy |-> FALSE]

Statuses == {"NEVER", "RAN", "MISSED"}
Runners  == {"loop", "request"}

VARIABLES
    now,
    row,        \* the table of schedules: NoRow, or a task's row
    up,         \* the instant MSM started, or Never while it is stopped
    slept,      \* the instant the loop went to sleep, or Never while it works
    queue,      \* the runnable tasks of the tick under way
    run,        \* what each runner executes: the task and its row as loaded
    requests,   \* requests made so far
    stops,      \* stops of MSM so far
    performed,  \* history: the last occurrence the loop performed since MSM started
    unrecorded  \* history: actions performed whose outcome was never written

vars == <<now, row, up, slept, queue, run, requests, stops, performed, unrecorded>>
loopVars == <<up, slept, queue, performed>>

Row(rule, enabled, next) ==
    [exists |-> TRUE, rule |-> rule, enabled |-> enabled, next |-> next, status |-> "NEVER"]

FirstNextKept(rule, enabled, old) == IF enabled THEN old ELSE Never

\* create and update: the next occurrence is computed again in any case.
FirstNext(rule, enabled, old) ==
    IF enabled THEN NextOccurrence(rule, now, Never) ELSE Never

Init ==
    /\ now = 0
    /\ row \in [Tasks -> {Row(r, TRUE, NextOccurrence(r, 0, Never)) : r \in Rules}]
    /\ up = 0 /\ slept = 0 /\ queue = {}
    /\ run = [r \in Runners |-> Idle]
    /\ requests = 0 /\ stops = 0
    /\ performed = [t \in Tasks |-> Never] /\ unrecorded = 0

Due(t) == row[t].exists /\ row[t].enabled /\ row[t].next # Never /\ row[t].next <= now

(***************************************************************************)
(* Time passes, but never beyond an instant at which something must happen.*)
(***************************************************************************)
ClockTicks ==
    /\ now < Horizon
    /\ slept # Never => now < slept + Period
    /\ slept = Never /\ up # Never => run["loop"].busy
    /\ \A r \in Runners : run[r].busy => now < run[r].since + MaxRun
    /\ now' = now + 1
    /\ UNCHANGED <<row, run, requests, stops, unrecorded, loopVars>>

(***************************************************************************)
(* The loop.                                                               *)
(***************************************************************************)
Sleeps == slept' = now /\ queue' = {}

TooLateAtOnce(t) == row[t].next < now

TooLate(t) == now - row[t].next > Grace

\* Scheduler.tick: what is too late is marked missed, the rest is run.
TickWakes ==
    LET due    == {t \in Tasks : Due(t)}
        missed == {t \in due : TooLate(t)}
    IN  /\ slept # Never /\ now = slept + Period
        /\ row' = [t \in Tasks |->
                      IF t \in missed
                      THEN [row[t] EXCEPT !.status = "MISSED",
                                          !.next = NextOccurrence(row[t].rule, now, Never)]
                      ELSE row[t]]
        /\ IF due = missed THEN Sleeps ELSE slept' = Never /\ queue' = due \ missed
        /\ UNCHANGED <<now, up, run, requests, stops, performed, unrecorded>>

\* run_schedule: the row is loaded, and the action performed.
Loads(r, t) ==
    run' = [run EXCEPT ![r] = [busy |-> TRUE, task |-> t, row |-> row[t], since |-> now]]

RunBegins(t) ==
    /\ slept = Never /\ up # Never /\ t \in queue /\ ~run["loop"].busy
    /\ row[t].exists
    /\ Loads("loop", t)
    /\ queue' = queue \ {t}
    /\ performed' = IF Due(t) THEN [performed EXCEPT ![t] = row[t].next] ELSE performed
    /\ UNCHANGED <<now, row, up, slept, requests, stops, unrecorded>>

\* The task was deleted since the tick selected it.
RunSkipped(t) ==
    /\ slept = Never /\ up # Never /\ t \in queue /\ ~run["loop"].busy
    /\ ~row[t].exists
    /\ IF queue = {t} THEN Sleeps ELSE queue' = queue \ {t} /\ UNCHANGED slept
    /\ UNCHANGED <<now, row, up, run, requests, stops, performed, unrecorded>>

NextAfterKept(loaded) == loaded.next

\* The occurrence written at the end of an automatic run: from the rule as
\* it was loaded, anchored on the end of the run.
NextAfter(loaded) == NextOccurrence(loaded.rule, now, now)

\* The commit of a run; a row deleted meanwhile makes it fail as a whole.
Recorded(r) ==
    LET t      == run[r].task
        loaded == run[r].row
    IN  /\ row[t].exists
        /\ row' = [row EXCEPT ![t].status = "RAN",
                              ![t].next = IF r = "loop" /\ loaded.enabled
                                          THEN NextAfter(loaded) ELSE row[t].next]
        /\ UNCHANGED unrecorded

NotRecorded(r) == ~row[run[r].task].exists /\ unrecorded' = unrecorded + 1 /\ UNCHANGED row

RunEnds ==
    /\ run["loop"].busy
    /\ run' = [run EXCEPT !["loop"] = Idle]
    /\ \/ /\ Recorded("loop")
          /\ IF queue = {} THEN Sleeps ELSE UNCHANGED <<slept, queue>>
       \/ NotRecorded("loop") /\ Sleeps    \* the exception ends the tick
    /\ UNCHANGED <<now, up, requests, stops, performed>>

(***************************************************************************)
(* Requests.                                                               *)
(***************************************************************************)
Request == up # Never /\ requests < MaxRequests /\ requests' = requests + 1

\* ScheduleService.create
Create(t, rule, enabled) ==
    /\ Request /\ ~row[t].exists
    /\ row' = [row EXCEPT ![t] = Row(rule, enabled, FirstNext(rule, enabled, Never))]
    /\ UNCHANGED <<now, run, stops, unrecorded, loopVars>>

\* ScheduleService.update
Update(t, rule, enabled) ==
    /\ Request /\ row[t].exists
    /\ row' = [row EXCEPT ![t].rule = rule, ![t].enabled = enabled,
                          ![t].next = FirstNext(rule, enabled, row[t].next)]
    /\ UNCHANGED <<now, run, stops, unrecorded, loopVars>>

\* ScheduleService.delete
Delete(t) ==
    /\ Request /\ row[t].exists
    /\ row' = [row EXCEPT ![t] = NoRow]
    /\ UNCHANGED <<now, run, stops, unrecorded, loopVars>>

\* ScheduleService.run_now
RunNow(t) ==
    /\ Request /\ row[t].exists /\ ~run["request"].busy
    /\ Loads("request", t)
    /\ UNCHANGED <<now, row, stops, unrecorded, loopVars>>

RunNowEnds ==
    /\ run["request"].busy
    /\ run' = [run EXCEPT !["request"] = Idle]
    /\ Recorded("request") \/ NotRecorded("request")
    /\ UNCHANGED <<now, requests, stops, loopVars>>

(***************************************************************************)
(* MSM stops, with or without warning, and starts again: what a run had    *)
(* not committed is gone, and the loop sleeps before its first tick.       *)
(***************************************************************************)
MsmStops ==
    /\ up # Never /\ stops < MaxStops /\ stops' = stops + 1
    /\ up' = Never /\ slept' = Never /\ queue' = {}
    /\ run' = [r \in Runners |-> Idle]
    /\ performed' = [t \in Tasks |-> Never]
    /\ UNCHANGED <<now, row, requests, unrecorded>>

MsmStarts ==
    /\ up = Never
    /\ up' = now /\ slept' = now
    /\ UNCHANGED <<now, row, queue, run, requests, stops, performed, unrecorded>>

\* The routes of the schedules of a server.
Requests(t) ==
    \/ Delete(t) \/ RunNow(t)
    \/ \E rule \in Rules, enabled \in BOOLEAN :
           Create(t, rule, enabled) \/ Update(t, rule, enabled)

Next ==
    \/ ClockTicks \/ TickWakes \/ RunEnds \/ RunNowEnds \/ MsmStops \/ MsmStarts
    \/ \E t \in Tasks : RunBegins(t) \/ RunSkipped(t) \/ Requests(t)

Spec == Init /\ [][Next]_vars

-----------------------------------------------------------------------------
Instant == Nat \cup {Never}

Rows == [exists : {TRUE}, rule : Rules, enabled : BOOLEAN, next : Instant,
         status : Statuses]

\* The types of the state; the queue is empty while the loop sleeps.
TypeOK ==
    /\ now \in 0..Horizon
    /\ row \in [Tasks -> Rows \cup {NoRow}]
    /\ up \in Instant /\ slept \in Instant
    /\ queue \subseteq Tasks
    /\ run \in [Runners -> {Idle} \cup
                    [busy : {TRUE}, task : Tasks, row : Rows, since : Nat]]
    /\ requests \in 0..MaxRequests /\ stops \in 0..MaxStops
    /\ performed \in [Tasks -> Instant]
    /\ unrecorded \in Nat
    /\ slept # Never => queue = {} /\ ~run["loop"].busy
    /\ up # Never /\ slept = Never => queue # {} \/ run["loop"].busy

\* The loop performs an occurrence once: only a stop of MSM between the
\* action and its commit makes it perform it again (at its next start).
NeverTwice ==
    [][\A t \in Tasks : RunBegins(t) /\ Due(t) => row[t].next > performed[t]]_vars

\* An enabled task always has a next occurrence: no order of runs, edits,
\* suspensions and stops leaves a task that looks active and never fires.
EnabledIsArmed == \A t \in Tasks : row[t].exists /\ row[t].enabled => row[t].next # Never

Later(a, b) == IF a > b THEN a ELSE b

\* The runs of one tick take no longer.
TickLasts == Cardinality(Tasks) * MaxRun

\* A task may fall due just after a tick selected the others.
Patience == (Period + 2 * TickLasts) * (1 + unrecorded)

\* While MSM is up a due task is run, or marked missed, within the tick under
\* way and the next one; a tick cut short by a deleted task costs as much again.
SettledSoon ==
    \A t \in Tasks : up # Never /\ Due(t) => now - Later(row[t].next, up) <= Patience

\* No task is forgotten, waiting or due.
NothingForgotten == EnabledIsArmed /\ SettledSoon

\* An occurrence is marked missed only if MSM was stopped when it was due:
\* "Exécution manquée pendant un arrêt de MSM"; or else the runs of the tick
\* before, and of the ticks cut short, took longer than the grace.
MissedOnlyWhenDown ==
    [][\A t \in Tasks : TickWakes /\ row'[t] # row[t] =>
          up > row[t].next \/ Patience - TickLasts > Grace]_vars
=============================================================================
