--------------------------- MODULE PanelContract ---------------------------
(***************************************************************************)
(* What the panel promises about one server, without locks, tasks, timers  *)
(* or signals: the world of the server is held by at most one process, a   *)
(* process appears only for a launch that somebody is entitled to, and the *)
(* panel's view of the server follows the process.                         *)
(***************************************************************************)

VARIABLES
    world,    \* "free", or "held" by a server process
    phase,    \* what the panel is doing: "down", "launching", "up"
    wanted    \* the last word of the user: "run" or "stop"

vars == <<world, phase, wanted>>

Init == world = "free" /\ phase = "down" /\ wanted = "run"

\* A user starts a server nobody runs.
UserLaunch ==
    /\ phase = "down" /\ world = "free"
    /\ phase' = "launching" /\ wanted' = "run"
    /\ UNCHANGED world

\* The panel starts it again by itself, unless the user asked for a stop.
AutoLaunch ==
    /\ phase = "down" /\ world = "free" /\ wanted = "run"
    /\ phase' = "launching"
    /\ UNCHANGED <<world, wanted>>

\* A process takes the world: it must be free.
Take ==
    /\ phase = "launching" /\ world = "free"
    /\ world' = "held"
    /\ UNCHANGED <<phase, wanted>>

\* The process ends.
Leave ==
    /\ world = "held" /\ world' = "free"
    /\ UNCHANGED <<phase, wanted>>

\* The launch succeeded, or failed, or the panel saw the end of the server.
Settled ==
    /\ phase # "down"
    /\ phase' \in {"up", "down"}
    /\ UNCHANGED <<world, wanted>>

\* The panel accepts a stop of the server it runs.
UserStop ==
    /\ phase = "up"
    /\ wanted' = "stop"
    /\ UNCHANGED <<world, phase>>

\* A panel that starts takes charge of a server that runs already.
Adopt ==
    /\ phase = "down" /\ world = "held"
    /\ phase' = "up"
    /\ UNCHANGED <<world, wanted>>

Next ==
    \/ UserLaunch \/ AutoLaunch \/ Take \/ Leave \/ Settled \/ UserStop \/ Adopt

Spec == Init /\ [][Next]_vars
=============================================================================
