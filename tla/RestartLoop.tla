---------------------------- MODULE RestartLoop ----------------------------
(***************************************************************************)
(* A server that ends again and again by itself, and the automatic restart *)
(* that starts it again: the part of _supervise and _restart_after that    *)
(* decides, for every policy in Policies, without the locks, requests and  *)
(* processes of ServerRuntime.                                             *)
(***************************************************************************)
EXTENDS Integers, RestartPolicy

CONSTANT Policies   \* records [mode, max, delay, factor, cap]

VARIABLES
    policy,    \* the policy of the server; never changes
    phase,     \* "young", "stable", "waiting" for a restart, or "over"
    crashes,   \* _consecutive_crashes
    delay      \* the last delay announced, 0 before the first

vars == <<policy, phase, crashes, delay>>

Init ==
    /\ policy \in Policies
    /\ phase = "young" /\ crashes = 0 /\ delay = 0

\* The server has been running for longer than stability_threshold_s.
BecomesStable ==
    /\ phase = "young" /\ phase' = "stable"
    /\ UNCHANGED <<policy, crashes, delay>>

\* Mutant: the count starts over at each exit.
CountNothing(stable, code) == IF code = "ok" THEN 0 ELSE 1

\* Mutant: a stable run does not reset it.
CountForever(stable, code) == crashes + (IF code = "ok" THEN 0 ELSE 1)

\* The counter after an exit: a stable run resets it, a crash counts.
CrashesAfter(stable, code) ==
    (IF stable THEN 0 ELSE crashes) + (IF code = "ok" THEN 0 ELSE 1)

\* _supervise: the server ended without being asked to.
ServerEnds(code) ==
    LET count == CrashesAfter(phase = "stable", code)
    IN  /\ phase \in {"young", "stable"}
        /\ crashes' = count
        /\ \/ /\ ShouldRestart(policy.mode, policy.max, FALSE, code, count)
              /\ phase' = "waiting"
              /\ delay' = ComputeDelay(policy.delay, policy.factor, policy.cap, count)
           \/ /\ ~ShouldRestart(policy.mode, policy.max, FALSE, code, count)
              /\ phase' = "over" /\ UNCHANGED delay
        /\ UNCHANGED policy

\* _restart_after: the server is started again.
StartsAgain ==
    /\ phase = "waiting" /\ phase' = "young"
    /\ UNCHANGED <<policy, crashes, delay>>

Next ==
    BecomesStable \/ StartsAgain \/ \E code \in ExitCodes : ServerEnds(code)

\* Every run of the server ends sooner or later: that is the server the policy
\* is written against.
Spec ==
    /\ Init /\ [][Next]_vars
    /\ WF_vars(StartsAgain) /\ WF_vars(\E code \in ExitCodes : ServerEnds(code))
-----------------------------------------------------------------------------
\* A server that stops reaching stability is eventually left alone: there is no
\* endless loop of restarts (docstring of core/restart_policy.py), unless the mode
\* is ALWAYS: then a clean exit is restarted too, and never counted.
GivesUp == policy.mode # ALWAYS /\ <>[](phase # "stable") => <>(phase = "over")

\* From one attempt to the next the delay never shrinks and stays under the cap;
\* after a stable run the policy forgets the past: the base delay again, whatever
\* the server went through before.
BackoffGrows ==
    [][phase' = "waiting" =>
          /\ delay' <= policy.cap
          /\ IF phase = "stable"
             THEN delay' = ComputeDelay(policy.delay, policy.factor, policy.cap, 0)
             ELSE delay' >= delay]_vars
=============================================================================
