--------------------------- MODULE RestartPolicy ---------------------------
(***************************************************************************)
(* The automatic restart policy (backend/msm/core/restart_policy.py).      *)
(* Exit codes are abstracted to what the policy tells apart: "ok" is code  *)
(* zero, "error" any other code.  Durations are integers: ComputeDelay     *)
(* takes an integer growth factor, as the default of 2.0 is.               *)
(***************************************************************************)
EXTENDS Naturals

NEVER    == "NEVER"
ON_CRASH == "ON_CRASH"
ALWAYS   == "ALWAYS"
Modes    == {NEVER, ON_CRASH, ALWAYS}

ExitCodes == {"ok", "error"}

\* Mutant: the stop that was requested is not looked at.
ShouldRestartAnyway(mode, max, stopRequested, code, crashes) ==
    mode # NEVER /\ (mode = ON_CRASH => code # "ok") /\ crashes < max

\* RestartPolicy.evaluate: is a server that just exited to be started again?
\* "crashes" already counts the crash that just happened.
ShouldRestart(mode, max, stopRequested, code, crashes) ==
    /\ ~stopRequested
    /\ mode # NEVER
    /\ mode = ON_CRASH => code # "ok"
    /\ crashes < max

\* delay * factor ^ max(0, crashes - 1)
GrownDelay(delay, factor, crashes) ==
    LET pow[n \in Nat] == IF n = 0 THEN 1 ELSE factor * pow[n - 1]
    IN  delay * pow[IF crashes = 0 THEN 0 ELSE crashes - 1]

\* RestartPolicy.compute_delay
ComputeDelay(delay, factor, cap, crashes) ==
    LET grown == GrownDelay(delay, factor, crashes)
    IN  IF grown > cap THEN cap ELSE grown
=============================================================================
