---------------------------- MODULE ServerState ----------------------------
(***************************************************************************)
(* The life-cycle states of a managed Minecraft server and the table of    *)
(* the state changes the panel may make (backend/msm/core/states.py).      *)
(***************************************************************************)

OFFLINE  == "OFFLINE"
STARTING == "STARTING"
ONLINE   == "ONLINE"
STOPPING == "STOPPING"
CRASHED  == "CRASHED"
UNKNOWN  == "UNKNOWN"    \* re-adopted after a restart of MSM: alive, pipes lost

States == {OFFLINE, STARTING, ONLINE, STOPPING, CRASHED, UNKNOWN}

\* The states in which a process is supposed to exist.
RunningStates == {STARTING, ONLINE, STOPPING, UNKNOWN}

IsRunning(s) == s \in RunningStates

AllowedTransitions ==
    [s \in States |->
        CASE s = OFFLINE  -> {STARTING, UNKNOWN}
          [] s = STARTING -> {ONLINE, STOPPING, CRASHED, OFFLINE, UNKNOWN}
          [] s = ONLINE   -> {STOPPING, CRASHED, OFFLINE, UNKNOWN}
          [] s = STOPPING -> {OFFLINE, CRASHED, UNKNOWN}
          [] s = CRASHED  -> {STARTING, OFFLINE}
          [] s = UNKNOWN  -> {OFFLINE, STARTING, ONLINE, STOPPING, CRASHED}]

CanTransition(current, target) ==
    current = target \/ target \in AllowedTransitions[current]

=============================================================================
