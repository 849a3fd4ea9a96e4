--------------------------- MODULE RuleReference ---------------------------
(***************************************************************************)
(* The rules of ScheduleRules against what their documentation promises    *)
(* across the changes of the clock: the reference looks at the instants    *)
(* one by one.                                                             *)
(***************************************************************************)
EXTENDS ScheduleRules

CONSTANTS
    CalendarRules,  \* the daily and weekly rules examined
    Steps,          \* the steps of the intervals examined
    Instants        \* the references, and the last runs of the intervals

LocalDay(zone, t) == Local(zone, t) \div Day

\* The clock of the zone shows the time of the rule, on an allowed day, and
\* did not show that very date and time before.
OnTheClock(rule, t) ==
    /\ Local(rule.zone, t) % Day = rule.at
    /\ LocalDay(rule.zone, t) % 7 \in Allowed(rule)
    /\ \A u \in t - 2 * Hour .. t - 1 : Local(rule.zone, u) # Local(rule.zone, t)

\* The change of the clock skips the time of the rule on an allowed day.
SkippedDay(rule, d) ==
    /\ d % 7 \in Allowed(rule)
    /\ d * Day + rule.at >= rule.zone.change + rule.zone.before
    /\ d * Day + rule.at < rule.zone.change + rule.zone.after

Skipped(rule, t) ==
    /\ t >= rule.zone.change /\ t < rule.zone.change + Hour
    /\ SkippedDay(rule, LocalDay(rule.zone, t))

First(rule, now, due) ==
    /\ due > now
    /\ OnTheClock(rule, due) \/ Skipped(rule, due)
    /\ \A t \in now + 1 .. due - 1 : ~OnTheClock(rule, t)
    /\ \A d \in LocalDay(rule.zone, now) .. LocalDay(rule.zone, due) - 1 :
           SkippedDay(rule, d) => now >= rule.zone.change

\* A calendar rule falls on the first instant after the reference at which
\* the local clock shows its time, once when that time comes twice, and
\* within the hour after the change when it is skipped (schedule/rules.py):
\* "les deux anomalies annuelles sont traitées explicitement".
NextIsFirst ==
    \A rule \in CalendarRules, now \in Instants :
        First(rule, now, NextOccurrence(rule, now, Never))

\* An interval catches up with the first step of its series that is ahead,
\* and replays none of those that were missed.
StepsAreKept ==
    \A step \in Steps, now \in Instants, anchor \in Instants :
        anchor <= now =>
            LET due == NextOccurrence([trigger |-> "INTERVAL", step |-> step], now, anchor)
            IN  due > now /\ (due - anchor) % step = 0 /\ due - step <= now
=============================================================================
