---------------------------- MODULE MCScheduler ----------------------------
(***************************************************************************)
(* A day of six instants in a zone that does not change, a daily task and  *)
(* one every four instants.                                                *)
(*                                                                         *)
(* The rules themselves are examined with days of six hours, in half       *)
(* hours: long enough for changes of the clock of an hour and of half an   *)
(* hour, at midnight and in the night.                                     *)
(***************************************************************************)
EXTENDS Scheduler

Utc      == [before |-> 0, after |-> 0, change |-> 0]
Daily    == [trigger |-> "DAILY", at |-> 2, zone |-> Utc]
Interval == [trigger |-> "INTERVAL", step |-> 4]

BothRules == {Daily, Interval}

Spring    == [before |-> 2, after |-> 4, change |-> 48 + 2]    \* 2 h becomes 3 h
Autumn    == [before |-> 4, after |-> 2, change |-> 48 + 2]    \* 3 h becomes 2 h
HalfHour  == [before |-> 1, after |-> 2, change |-> 48 + 3]
Midnight  == [before |-> -2, after |-> 0, change |-> 48 + 2]   \* 0 h becomes 1 h
MidFall   == [before |-> 0, after |-> -2, change |-> 48]       \* 0 h becomes 23 h

Zones == {Utc, Spring, Autumn, HalfHour, Midnight, MidFall}

ZoneRules ==
    [trigger : {"DAILY"}, at : 0..11, zone : Zones] \cup
    [trigger : {"WEEKLY"}, at : 0..11, zone : Zones, days : {{1}, {4}, {0, 3}, {3, 4, 5}}]

Reference ==
    INSTANCE RuleReference WITH Day <- 12, Hour <- 2, CalendarRules <- ZoneRules,
                                Steps <- 1..9, Instants <- 24..66

\* The rules of the calendar fall on the first instant allowed after the reference,
\* across both changes of the clock, and an interval catches up with its series.
\* The rules do not depend on the state: they are examined in the first ones.
RulesAreKept ==
    now = 0 /\ requests = 0 /\ stops = 0 => Reference!NextIsFirst /\ Reference!StepsAreKept
=============================================================================
