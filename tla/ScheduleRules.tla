--------------------------- MODULE ScheduleRules ---------------------------
(***************************************************************************)
(* When a scheduled task is due next: schedule/rules.py.                    *)
(*                                                                         *)
(* Instants and local times are integers, in units of any length: Day      *)
(* units make a day, Hour units an hour.  A zone is the offset of its      *)
(* local time before and after one change of the clock, and the instant of *)
(* the change; a zone that never changes has twice the same offset.  A     *)
(* rule is a record                                                        *)
(*   [trigger |-> "INTERVAL", step |-> units]                              *)
(*   [trigger |-> "DAILY",  at |-> units since local midnight, zone]       *)
(*   [trigger |-> "WEEKLY", at, zone, days |-> a set of weekdays]          *)
(***************************************************************************)
EXTENDS Integers, FiniteSetsExt

CONSTANTS Day, Hour

ASSUME UnitsAssumption == Day \in Nat \ {0} /\ Hour \in Nat \ {0}

Never == -1      \* a task without next or last run

Weekdays == 0..6

\* What parse_rule lets in.  A zone is never set back by more than a day.
IsZone(zone) ==
    /\ zone.before \in Int /\ zone.after \in Int /\ zone.change \in Int
    /\ zone.before - zone.after <= Day

IsRule(rule) ==
    \/ rule.trigger = "INTERVAL" /\ rule.step \in Nat \ {0}
    \/ /\ rule.trigger \in {"DAILY", "WEEKLY"}
       /\ rule.at \in 0 .. Day - 1 /\ IsZone(rule.zone)
       /\ rule.trigger = "WEEKLY" => rule.days # {} /\ rule.days \subseteq Weekdays

(***************************************************************************)
(* Local time (zoneinfo, with fold = 0).                                   *)
(***************************************************************************)
Local(zone, t) == t + (IF t < zone.change THEN zone.before ELSE zone.after)

ToUtcSecond(zone, local) ==
    IF local < zone.change + zone.before /\ local < zone.change + zone.after
    THEN local - zone.before ELSE local - zone.after

\* A local time read twice is the first of the two instants; one that is
\* skipped is read with the offset from before the change.
ToUtc(zone, local) ==
    IF \/ local < zone.change + zone.before
       \/ local < zone.change + zone.after
    THEN local - zone.before ELSE local - zone.after

Exists(zone, local) == Local(zone, ToUtc(zone, local)) = local

(***************************************************************************)
(* _at_local: the instant at which the rule falls on a local day.          *)
(***************************************************************************)
AtLocal(rule, day) ==
    LET naive == day * Day + rule.at
        later == {h \in 1..3 : Exists(rule.zone, naive + h * Hour)}
    IN  IF Exists(rule.zone, naive) \/ later = {}
        THEN ToUtc(rule.zone, naive)
        ELSE ToUtc(rule.zone, naive + Min(later) * Hour)

(***************************************************************************)
(* next_occurrence.                                                        *)
(***************************************************************************)
Allowed(rule) == IF rule.trigger = "WEEKLY" THEN rule.days ELSE Weekdays

\* The whole steps since the anchor, and one more.
NextStep(rule, reference, anchor) ==
    IF anchor + rule.step > reference
    THEN anchor + rule.step
    ELSE anchor + rule.step * (((reference - anchor) \div rule.step) + 1)

\* The days looked at: today and a week, and one day more.
DaysAhead == 0..8

NextDay(rule, reference) ==
    LET today == Local(rule.zone, reference) \div Day
        days  == {today + n : n \in DaysAhead}
        found == {d \in days : d % 7 \in Allowed(rule) /\ AtLocal(rule, d) > reference}
    IN  IF found = {} THEN Never ELSE AtLocal(rule, Min(found))

NextOccurrence(rule, reference, lastRun) ==
    IF rule.trigger = "INTERVAL"
    THEN NextStep(rule, reference, IF lastRun = Never THEN reference ELSE lastRun)
    ELSE NextDay(rule, reference)
=============================================================================
