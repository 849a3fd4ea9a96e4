--------------------------- MODULE ServerRuntime ---------------------------
(***************************************************************************)
(* One managed server: the ServerRuntime of                                *)
(* backend/msm/runtime/server_runtime.py, the ProcessHandle it drives and  *)
(* the processes of the operating system it starts.                        *)
(*                                                                         *)
(* The runtime lives on one asyncio event loop: the code between two       *)
(* awaits is one action, and every await is a place where the requests of  *)
(* clients, the automatic restart, the supervision task, the liveness poll,*)
(* the readiness timer, the log reader and the death of a process may      *)
(* interleave.  The asyncio.Lock is first in, first out.                   *)
(*                                                                         *)
(* Processes are numbered in the order in which they were created; 0 is    *)
(* "no process".  A process number stands for the Java virtual machine     *)
(* that holds the world together with the script that may have launched    *)
(* it: LauncherExits is that script ending while Java goes on.             *)
(*                                                                         *)
(* MaxSpawns, MaxRequests and MaxMsmStops bound the behaviours TLC visits. *)
(***************************************************************************)
EXTENDS Integers, Sequences, ServerState, RestartPolicy

CONSTANTS
    Clients,          \* tasks serving the requests of users
    Restarter,        \* the task of the automatic restart
    NoTask,           \* "nobody", for the lock
    Mode,             \* the auto-restart mode of the server
    MaxCrashes,       \* max_consecutive_crashes
    GracefulSignal,   \* backend.supports_graceful_signal: TRUE on POSIX
    MaxSpawns,        \* bound: processes created
    MaxRequests,      \* bound: client requests
    MaxMsmStops       \* bound: stops and crashes of MSM

Tasks == Clients \cup {Restarter}

ASSUME ConstantsAssumption ==
    /\ Restarter \notin Clients
    /\ NoTask \notin Tasks
    /\ Mode \in Modes
    /\ MaxCrashes \in Nat
    /\ GracefulSignal \in BOOLEAN
    /\ {MaxSpawns, MaxRequests, MaxMsmStops} \subseteq Nat

VARIABLES
    \* --- the operating system
    live,           \* processes alive in the folder of the server
    spawned,        \* number of processes created so far
    killed,         \* processes that received SIGKILL
    exit,           \* exit code of the last process MSM started (the leader of
                    \* its group), "none" while that leader lives
    \* --- the memory of the runtime; meaningless while MSM is down
    up,             \* is MSM running?
    state,          \* _state
    handle,         \* the process of _handle
    sup,            \* the _supervise task: "none", "waiting", "draining"
    adopted,        \* the process of _adopted
    viaLeader,      \* is _adopted the recorded leader, or the Java of the folder?
    watch,          \* the _watch_adopted task: "none", "polling", "released"
    readiness,      \* is the _watch_readiness task armed?
    stopRequested,  \* _stop_requested
    crashes,        \* _consecutive_crashes
    restart,        \* _restart_task: "none" or "sleeping"
    \* --- the tasks and the lock they share
    lock, waiters,  \* holder of _lock and the queue behind it
    pc, cmd, target,\* per task: where it is, what it does, the process it stops
    \* --- history, read by the properties and never by an action of the code
    intent,         \* "stop" after a stop the panel accepted, "run" after a start
    autoRuns,       \* automatic starts since the last client start or stable run
    requests, msmStops

os      == <<live, spawned, killed, exit>>
memory  == <<up, state, handle, sup, adopted, viaLeader, watch, readiness,
             stopRequested, crashes, restart>>
tasks   == <<lock, waiters, pc, cmd, target>>
history == <<intent, autoRuns, requests, msmStops>>
vars    == <<os, memory, tasks, history>>

Idle == "idle"

\* Where a task may be.  "lock": it waits for _lock, or has just been given it
\* and has not run yet; "scan": find_server_process runs in a thread;
\* "prestart", "spawn", "spawned": the phases of a start; "command", "term",
\* "postkill": the waits of ProcessHandle.stop; "aterm", "akill": those of
\* _stop_adopted; "settle": _wait_until_stopped.
Places == {Idle, "lock", "scan", "prestart", "spawn", "spawned",
           "command", "term", "postkill", "aterm", "akill", "settle"}

\* The places where a task holds the lock across an await.
HoldingPlaces == {"scan", "prestart", "spawn", "spawned", "aterm", "akill"}

\* A start passed all its checks and has not ended.
Launching == \E t \in Tasks : pc[t] \in {"prestart", "spawn", "spawned"}

\* ProcessHandle.running of _handle: MSM has not noticed its exit yet.
Running == handle # 0 /\ sup = "waiting"

\* The exit of the process task t captured as its handle has been noticed.
Gone(t) == handle # target[t] \/ sup # "waiting"

\* is_alive of an adopted process.  The recorded process is the leader, which a
\* launch script may be; the folder is searched for Java itself.
Alive(p) == p \in live /\ (viaLeader => exit = "none")

\* No task has been handed the lock without having run: the loop runs a woken
\* task within an iteration, while reading the end of the output and closing
\* the pipes of a dead process takes several.
Settled == \A t \in Tasks : lock = t => pc[t] \in HoldingPlaces

TypeOK ==
    /\ spawned \in Nat
    /\ live \subseteq 1..spawned
    /\ killed \subseteq 1..spawned
    /\ exit \in ExitCodes \cup {"none"}
    /\ up \in BOOLEAN
    /\ state \in States
    /\ handle \in 0..spawned
    /\ sup \in {"none", "waiting", "draining"}
    /\ adopted \in 0..spawned
    /\ viaLeader \in BOOLEAN
    /\ watch \in {"none", "polling", "released"}
    /\ readiness \in BOOLEAN
    /\ stopRequested \in BOOLEAN
    /\ crashes \in Nat
    /\ restart \in {"none", "sleeping"}
    /\ lock \in Tasks \cup {NoTask}
    /\ waiters \in Seq(Tasks)
    /\ pc \in [Tasks -> Places]
    /\ cmd \in [Tasks -> {"start", "stop", "kill", "restart"}]
    /\ target \in [Tasks -> 0..spawned]
    /\ intent \in {"run", "stop"}
    /\ autoRuns \in Nat
    /\ requests \in Nat
    /\ msmStops \in Nat
-----------------------------------------------------------------------------
\* The memory of a runtime that has just been registered.
FreshMemory ==
    /\ handle' = 0 /\ sup' = "none"
    /\ viaLeader' = FALSE /\ readiness' = FALSE /\ stopRequested' = FALSE
    /\ crashes' = 0 /\ restart' = "none"
    /\ lock' = NoTask /\ waiters' = <<>>
    /\ pc' = [t \in Tasks |-> Idle]
    /\ cmd' = [t \in Tasks |-> "start"]
    /\ target' = [t \in Tasks |-> 0]

Init ==
    /\ live = {} /\ spawned = 0 /\ killed = {} /\ exit = "none"
    /\ up = TRUE /\ state = OFFLINE
    /\ handle = 0 /\ sup = "none" /\ adopted = 0 /\ watch = "none"
    /\ viaLeader = FALSE /\ readiness = FALSE /\ stopRequested = FALSE /\ crashes = 0
    /\ restart = "none"
    /\ lock = NoTask /\ waiters = <<>>
    /\ pc = [t \in Tasks |-> Idle]
    /\ cmd = [t \in Tasks |-> "start"]
    /\ target = [t \in Tasks |-> 0]
    /\ intent = "run" /\ autoRuns = 0 /\ requests = 0 /\ msmStops = 0
-----------------------------------------------------------------------------
(* The lock *)

\* Task t, which does c, reaches "async with self._lock".
RequestLock(t, c) ==
    /\ pc' = [pc EXCEPT ![t] = "lock"]
    /\ cmd' = [cmd EXCEPT ![t] = c]
    /\ IF lock = NoTask
       THEN lock' = t /\ UNCHANGED waiters
       ELSE waiters' = Append(waiters, t) /\ UNCHANGED lock

KeepLock == UNCHANGED <<lock, waiters>>

\* The holder leaves the lock; the first waiter is woken.
Release ==
    IF waiters = <<>>
    THEN lock' = NoTask /\ UNCHANGED waiters
    ELSE lock' = Head(waiters) /\ waiters' = Tail(waiters)

\* _cancel_pending_restart: the sleeping task ends without starting anything.
CancelPendingRestart == restart' = "none"

Goto(t, place) == pc' = [pc EXCEPT ![t] = place]

\* Task t, which holds the lock, runs the first lines of its critical section.
Enters(t, commands) == lock = t /\ pc[t] = "lock" /\ cmd[t] \in commands

\* A stop that belongs to a restart goes on with _wait_until_stopped.
AfterStop(t) == IF cmd[t] = "restart" THEN "settle" ELSE Idle
-----------------------------------------------------------------------------
(* Requests of the clients *)

\* start(), stop(), kill(); restart() of a running server begins as a stop,
\* restart() of any other is a start.
Request(c) ==
    /\ up /\ pc[c] = Idle /\ requests < MaxRequests
    /\ \E kind \in {"start", "stop", "kill", "restart"} :
          RequestLock(c, IF kind = "restart" /\ ~IsRunning(state)
                         THEN "start" ELSE kind)
    /\ requests' = requests + 1
    /\ UNCHANGED <<os, memory, target, intent, autoRuns, msmStops>>

\* _wait_until_stopped is over: the server is seen stopped, or thirty seconds
\* have passed.  restart() calls start().
RestartResumes(c) ==
    /\ pc[c] = "settle"
    /\ RequestLock(c, "start")
    /\ UNCHANGED <<os, memory, target, history>>
-----------------------------------------------------------------------------
(* _start_locked *)

AlreadyRunning == Alive(adopted) \/ IsRunning(state)

StartRefused(t) ==
    /\ Enters(t, {"start"}) /\ AlreadyRunning
    /\ Goto(t, Idle) /\ Release
    /\ UNCHANGED <<os, memory, cmd, target, history>>

StartScans(t) ==
    /\ Enters(t, {"start"}) /\ ~AlreadyRunning
    /\ Goto(t, "scan")
    /\ UNCHANGED <<os, memory, lock, waiters, cmd, target, history>>

OrphanUnseen == FALSE

\* find_server_process: a process runs in the folder of the server.
OrphanInFolder == live # {}

\* MSM lost track of a process that still holds the world.
OrphanFound(t) ==
    /\ pc[t] = "scan" /\ OrphanInFolder
    /\ Goto(t, Idle) /\ Release
    /\ UNCHANGED <<os, memory, cmd, target, history>>

\* Nothing runs in the folder: the pending restart is cancelled, the state is
\* STARTING, and the pre-start hooks begin.
StartAccepted(t) ==
    /\ pc[t] = "scan" /\ ~OrphanInFolder
    /\ CancelPendingRestart /\ stopRequested' = FALSE /\ state' = STARTING
    /\ Goto(t, "prestart")
    /\ intent' = IF t = Restarter THEN intent ELSE "run"
    /\ autoRuns' = IF t = Restarter THEN autoRuns + 1 ELSE 0
    /\ UNCHANGED <<os, up, viaLeader, handle, sup, adopted, watch, readiness, crashes,
                   lock, waiters, cmd, target, requests, msmStops>>

\* The pre-start hooks are done, or failed and were ignored.
PreStartDone(t) ==
    /\ pc[t] = "prestart"
    /\ Goto(t, "spawn")
    /\ UNCHANGED <<os, memory, lock, waiters, cmd, target, history>>

\* _fail_start brings the state back.
FailStart == state' = OFFLINE

\* No launch command could be built, or the system refused to run it.
StartFails(t) ==
    /\ pc[t] \in {"prestart", "spawn"}
    /\ FailStart
    /\ Goto(t, Idle) /\ Release
    /\ UNCHANGED <<os, up, viaLeader, handle, sup, adopted, watch, readiness, crashes,
                   stopRequested, restart, cmd, target, history>>

\* The backend creates the process; handle.start has not returned yet.
SpawnProcess(t) ==
    /\ pc[t] = "spawn" /\ spawned < MaxSpawns
    /\ spawned' = spawned + 1
    /\ live' = live \cup {spawned + 1}
    /\ exit' = "none"
    /\ Goto(t, "spawned")
    /\ UNCHANGED <<killed, memory, lock, waiters, cmd, target, history>>

\* handle.start returned: the handle is installed and the tasks are created.
StartInstalls(t) ==
    /\ pc[t] = "spawned"
    /\ handle' = spawned /\ adopted' = 0
    /\ sup' = "waiting" /\ readiness' = TRUE
    /\ Goto(t, Idle) /\ Release
    /\ UNCHANGED <<os, up, viaLeader, state, watch, stopRequested, crashes, restart, cmd,
                   target, history>>
-----------------------------------------------------------------------------
(* stop, kill and restart of a process whose pipes MSM holds *)

StopRefused(t) ==
    /\ Enters(t, {"stop", "kill", "restart"})
    /\ adopted = 0 /\ ~Running
    /\ CancelPendingRestart
    /\ Goto(t, Idle) /\ Release
    /\ UNCHANGED <<os, up, viaLeader, state, handle, sup, adopted, watch, readiness,
                   stopRequested, crashes, cmd, target, history>>

SignalLost(p) == UNCHANGED killed

\* SIGKILL reaches the group of a process only while its leader is alive.
KillGroup(p) == killed' = IF p \in live /\ exit = "none"
                          THEN killed \cup {p} ELSE killed

\* The stop is accepted and the lock left.  kill() signals at once; stop()
\* writes the stop command and waits.
StopAccepted(t) ==
    /\ Enters(t, {"stop", "kill", "restart"})
    /\ adopted = 0 /\ Running
    /\ CancelPendingRestart /\ stopRequested' = TRUE /\ state' = STOPPING
    /\ target' = [target EXCEPT ![t] = handle]
    /\ Release
    /\ IF cmd[t] = "kill"
       THEN Goto(t, "postkill") /\ KillGroup(handle)
       ELSE Goto(t, "command") /\ UNCHANGED killed
    /\ intent' = "stop"
    /\ UNCHANGED <<live, spawned, exit, up, viaLeader, handle, sup, adopted, watch,
                   readiness, crashes, cmd, autoRuns, requests, msmStops>>

\* A wait of ProcessHandle.stop or kill_now ends with the process.
StopCompletes(t) ==
    /\ pc[t] \in {"command", "term", "postkill"} /\ Gone(t)
    /\ Goto(t, AfterStop(t))
    /\ UNCHANGED <<os, memory, lock, waiters, cmd, target, history>>

\* The stop command was not delivered or not obeyed in time: next is SIGTERM
\* where the system has it.  The process may obey it or not.
StopEscalates(t) ==
    /\ pc[t] = "command" /\ GracefulSignal /\ ~Gone(t)
    /\ Goto(t, "term")
    /\ UNCHANGED <<os, memory, lock, waiters, cmd, target, history>>

\* The last stage: SIGKILL to the group.
StopKills(t) ==
    /\ pc[t] = (IF GracefulSignal THEN "term" ELSE "command") /\ ~Gone(t)
    /\ Goto(t, "postkill") /\ KillGroup(target[t])
    /\ UNCHANGED <<live, spawned, exit, memory, lock, waiters, cmd, target,
                   history>>

\* Ten seconds after SIGKILL the caller is answered whatever happened.
StopGivesUp(t) ==
    /\ pc[t] = "postkill" /\ ~Gone(t)
    /\ Goto(t, AfterStop(t))
    /\ UNCHANGED <<os, memory, lock, waiters, cmd, target, history>>
-----------------------------------------------------------------------------
(* stop, kill and restart of an adopted process: the lock is kept throughout *)

StopAdopted(t) ==
    /\ Enters(t, {"stop", "kill", "restart"})
    /\ adopted # 0
    /\ CancelPendingRestart /\ state' = STOPPING
    /\ target' = [target EXCEPT ![t] = adopted]
    /\ IF GracefulSignal /\ cmd[t] # "kill"
       THEN Goto(t, "aterm") /\ UNCHANGED killed
       ELSE /\ Goto(t, "akill")
            /\ killed' = IF Alive(adopted) THEN killed \cup {adopted} ELSE killed
    /\ intent' = "stop"
    /\ UNCHANGED <<live, spawned, exit, up, viaLeader, handle, sup, adopted, watch,
                   readiness, stopRequested, crashes, lock, waiters, cmd,
                   autoRuns, requests, msmStops>>

AdoptedStopKills(t) ==
    /\ pc[t] = "aterm" /\ Alive(target[t])
    /\ Goto(t, "akill") /\ killed' = killed \cup {target[t]}
    /\ UNCHANGED <<live, spawned, exit, memory, lock, waiters, cmd, target,
                   history>>

\* _release_adopted forgets the process.
ReleaseAdopted == adopted' = 0

\* _finish_adopted_stop.  After "akill" it runs although the process may have
\* survived: the result of the last wait is not read.
AdoptedStopFinishes(t) ==
    /\ \/ pc[t] = "akill"
       \/ pc[t] = "aterm" /\ ~Alive(target[t])
    /\ ReleaseAdopted /\ watch' = "none" /\ state' = OFFLINE
    /\ Goto(t, AfterStop(t)) /\ Release
    /\ UNCHANGED <<os, up, viaLeader, handle, sup, readiness, stopRequested, crashes,
                   restart, cmd, target, history>>

\* The liveness poll finds the adopted process dead and lets go of it ...
WatchNoticesDeath ==
    /\ watch = "polling" /\ adopted # 0 /\ ~Alive(adopted)
    /\ ReleaseAdopted /\ watch' = "released"
    /\ UNCHANGED <<os, up, viaLeader, state, handle, sup, readiness, stopRequested,
                   crashes, restart, tasks, history>>

\* ... and, once the log tailer is stopped, shows the server offline.
WatchSetsOffline ==
    /\ watch = "released"
    /\ state' = OFFLINE /\ watch' = "none"
    /\ UNCHANGED <<os, up, viaLeader, handle, sup, adopted, readiness, stopRequested,
                   crashes, restart, tasks, history>>
-----------------------------------------------------------------------------
(* Background tasks *)

\* _supervise: the exit is noticed; the end of the output is read next.
SuperviseNoticesExit ==
    /\ sup = "waiting" /\ exit # "none"
    /\ sup' = "draining" /\ readiness' = FALSE
    /\ UNCHANGED <<os, up, viaLeader, state, handle, adopted, watch, stopRequested,
                   crashes, restart, tasks, history>>

\* The consecutive crashes once the exit of a server is counted.
CrashCount(stable, crashed) ==
    (IF stable THEN 0 ELSE crashes) + (IF crashed THEN 1 ELSE 0)

\* The rest of _supervise.  "stable": the server ran for longer than the
\* stability threshold.
SuperviseConcludes(stable) ==
    LET crashed == ~stopRequested /\ exit # "ok"
        count   == CrashCount(stable, crashed)
    IN  /\ sup = "draining" /\ Settled
        /\ sup' = "none"
        /\ crashes' = count
        /\ state' = IF crashed THEN CRASHED ELSE OFFLINE
        /\ restart' = IF ShouldRestart(Mode, MaxCrashes, stopRequested, exit, count)
                      THEN "sleeping" ELSE restart
        /\ autoRuns' = IF stable THEN 0 ELSE autoRuns
        /\ UNCHANGED <<os, up, viaLeader, handle, adopted, watch, readiness, stopRequested,
                       tasks, intent, requests, msmStops>>

\* _restart_after: the delay is over, the task is no longer "pending".
RestartTimerFires ==
    /\ restart = "sleeping" /\ pc[Restarter] = Idle
    /\ restart' = "none"
    /\ RequestLock(Restarter, "start")
    /\ UNCHANGED <<os, up, viaLeader, state, handle, sup, adopted, watch, readiness,
                   stopRequested, crashes, target, history>>

\* A start that says nothing is believed to be over.
AssumeOnline == IF state = STARTING /\ Running THEN ONLINE ELSE state

\* _watch_readiness: start_timeout_s passed without the "Done" line.
ReadinessTimesOut ==
    /\ readiness
    /\ readiness' = FALSE
    /\ state' = AssumeOnline
    /\ UNCHANGED <<os, up, viaLeader, handle, sup, adopted, watch, stopRequested, crashes,
                   restart, tasks, history>>

\* The "Done" line counts only for a server that is starting.
ReadyExpected == state = STARTING

\* The log reader delivers "Done (x.xxxs)!".
LogSaysReady ==
    /\ sup \in {"waiting", "draining"} /\ ReadyExpected
    /\ state' = ONLINE /\ readiness' = FALSE
    /\ UNCHANGED <<os, up, viaLeader, handle, sup, adopted, watch, stopRequested, crashes,
                   restart, tasks, history>>

\* The log reader delivers "Stopping the server": a /stop typed in the game.
LogSaysStopping ==
    /\ sup \in {"waiting", "draining"} /\ state = ONLINE
    /\ state' = STOPPING
    /\ UNCHANGED <<os, up, viaLeader, handle, sup, adopted, watch, readiness,
                   stopRequested, crashes, restart, tasks, history>>
-----------------------------------------------------------------------------
(* The processes, and MSM itself *)

\* A server process ends, whatever the reason.
ServerExits(p) ==
    /\ p \in live
    /\ live' = live \ {p}
    /\ exit' \in IF p = spawned /\ exit = "none" THEN ExitCodes ELSE {exit}
    /\ UNCHANGED <<spawned, killed, memory, tasks, history>>

\* The launch script ends and leaves Java behind it.
LauncherExits ==
    /\ exit = "none" /\ spawned \in live
    /\ exit' \in ExitCodes
    /\ UNCHANGED <<live, spawned, killed, memory, tasks, history>>

\* MSM stops (Supervisor.shutdown detaches every runtime and leaves the
\* processes alone) or crashes: its memory is lost either way.
MsmStops ==
    /\ up /\ msmStops < MaxMsmStops
    /\ up' = FALSE /\ state' = OFFLINE
    /\ adopted' = 0 /\ watch' = "none"
    /\ FreshMemory
    /\ autoRuns' = 0 /\ msmStops' = msmStops + 1
    /\ UNCHANGED <<os, intent, requests>>

\* MSM starts: register_all, then adopt_running re-adopts the process found
\* through the recorded identifier, if its leader lives and was recorded, or
\* through the folder.
MsmBoots ==
    /\ ~up /\ up' = TRUE
    /\ \/ /\ \E p \in live : adopted' = p
          /\ viaLeader' \in BOOLEAN /\ (viaLeader' => exit = "none")
          /\ state' = UNKNOWN /\ watch' = "polling"
       \/ live = {} /\ UNCHANGED <<adopted, viaLeader, state, watch>>
    /\ UNCHANGED <<os, handle, sup, readiness, stopRequested, crashes, restart,
                   tasks, history>>
-----------------------------------------------------------------------------
StartStep(t) ==
    \/ StartRefused(t) \/ StartScans(t) \/ OrphanFound(t) \/ StartAccepted(t)
    \/ PreStartDone(t) \/ StartFails(t) \/ SpawnProcess(t) \/ StartInstalls(t)

StopStep(t) ==
    \/ StopRefused(t) \/ StopAccepted(t) \/ StopCompletes(t)
    \/ StopEscalates(t) \/ StopKills(t) \/ StopGivesUp(t)
    \/ StopAdopted(t) \/ AdoptedStopKills(t) \/ AdoptedStopFinishes(t)
    \/ RestartResumes(t)

Background ==
    \/ WatchNoticesDeath \/ WatchSetsOffline
    \/ SuperviseNoticesExit \/ \E stable \in BOOLEAN : SuperviseConcludes(stable)
    \/ RestartTimerFires \/ ReadinessTimesOut

Environment ==
    \/ LogSaysReady \/ LogSaysStopping
    \/ \E p \in live : ServerExits(p)
    \/ LauncherExits \/ MsmStops \/ MsmBoots

Next ==
    \/ \E c \in Clients : Request(c)
    \/ \E t \in Tasks : StartStep(t) \/ StopStep(t)
    \/ Background
    \/ Environment

Spec == Init /\ [][Next]_vars
-----------------------------------------------------------------------------
(* Fairness: the event loop runs every task that can go on, every timer     *)
(* fires, and SIGKILL ends the process that received it.  Nothing obliges a *)
(* client to ask, a server to stop by itself or MSM to stop.                *)
Fairness ==
    /\ \A t \in Tasks : WF_vars(StartStep(t)) /\ WF_vars(StopStep(t))
    /\ WF_vars(WatchNoticesDeath) /\ WF_vars(WatchSetsOffline)
    /\ WF_vars(SuperviseNoticesExit)
    /\ WF_vars(\E stable \in BOOLEAN : SuperviseConcludes(stable))
    /\ WF_vars(RestartTimerFires) /\ WF_vars(ReadinessTimesOut)
    /\ WF_vars(\E p \in killed : ServerExits(p))

FairSpec == Spec /\ Fairness
-----------------------------------------------------------------------------
(* Properties *)

\* Two Java processes never share the folder of a server: the lock is held from
\* the scan for an orphan to the installation of the handle (_start_locked),
\* whatever stops gave up, scripts ended early or MSM restarts came before.
OneServerProcess == \A p, q \in live : p = q

\* A process MSM supervises is never shown as stopped, and a state that claims
\* a process has a task that will leave it: a start that holds the lock, the
\* supervision of a handle, or the watch of an adopted process.  In particular
\* the panel is never stuck in STARTING or STOPPING (_supervise, _fail_start,
\* _watch_adopted, _finish_adopted_stop).
StateHasAnOwner ==
    up => (IsRunning(state) <=> \/ sup # "none"
                                \/ adopted # 0
                                \/ watch = "released"
                                \/ Launching)

\* An adopted process and a handle exclude each other (comment of _adopted), and
\* UNKNOWN is shown only for a process whose pipes are lost.
AdoptionExcludesHandle ==
    /\ adopted # 0 => sup = "none" /\ watch = "polling"
    /\ state = UNKNOWN => adopted # 0 \/ watch = "released"

\* The table of core/states.py never refuses a change the runtime attempts:
\* assert_transition, called in the middle of these handlers, never raises.
LegalTransitions ==
    [][up /\ up' => CanTransition(state, state')]_<<up, state>>

\* Once the panel accepted a stop or a kill, no automatic restart begins before
\* a client asked for a start again (_stop_requested, _cancel_pending_restart).
PanelStopSticks ==
    [][pc[Restarter] = "scan" /\ pc'[Restarter] = "prestart" => intent = "run"]_vars

\* The automatic restart gives up: with a limit of n consecutive crashes, at
\* most n - 1 automatic starts follow one another without the server having
\* been stable or a client having started it (RestartPolicy.evaluate).
AutoRestartsBounded == autoRuns = 0 \/ autoRuns < MaxCrashes

\* A restart that is due is never lost because the previous one is still on its
\* way: _supervise overwrites _restart_task without looking.
OneAutoRestart == restart = "sleeping" => pc[Restarter] = Idle /\ sup = "none"

\* A stop or a kill that was accepted ends with a server shown stopped, even
\* when the server ignores the command and SIGTERM.
StopEndsTheServer ==
    (up /\ state = STOPPING /\ stopRequested) ~> (~up \/ ~IsRunning(state))

\* Every request is answered: nobody keeps the lock for ever, and every wait of
\* the stop sequence has an end.
RequestsAreAnswered == \A c \in Clients : (pc[c] # Idle) ~> (pc[c] = Idle)

\* The runtime implements what the panel promises about a server: the world is
\* taken only by a launch, when it is free, a launch is one somebody is entitled
\* to, and only a stop of a server the panel runs changes the user's last word.
Contract == INSTANCE PanelContract WITH
    world  <- IF live = {} THEN "free" ELSE "held",
    phase  <- IF Launching THEN "launching"
              ELSE IF up /\ IsRunning(state) THEN "up" ELSE "down",
    wanted <- intent

ImplementsContract == Contract!Spec
-----------------------------------------------------------------------------
(* Why the safety properties hold: an invariant every step preserves.       *)

StartPlaces  == {"scan", "prestart", "spawn", "spawned"}
AdoptedPlaces == {"aterm", "akill"}

\* Whoever is in a critical section has the lock; whoever wants it has it or is
\* in the queue; the lock is never free while somebody waits.
LockDiscipline ==
    /\ lock = NoTask => waiters = <<>>
    /\ \A t \in Tasks : pc[t] \in HoldingPlaces => lock = t
    /\ \A t \in Tasks : pc[t] = "lock" =>
          lock = t \/ \E i \in 1..Len(waiters) : waiters[i] = t

\* What the scan found stays true until the handle is installed.
FolderGuarded ==
    \A t \in Tasks :
        /\ pc[t] \in {"prestart", "spawn"} => live = {} /\ state = STARTING
        /\ pc[t] = "spawned" => live \subseteq {spawned} /\ state = STARTING
        /\ pc[t] \in StartPlaces => sup = "none" /\ watch = "none"
        /\ pc[t] \in AdoptedPlaces => sup = "none"
        /\ pc[t] \in StartPlaces \ {"scan"} => restart = "none"

\* The watch task and _adopted go together, without a handle, and MSM has
\* nothing to restart while it watches a process it did not start.
AdoptionQuiet ==
    /\ adopted # 0 <=> watch = "polling"
    /\ watch # "none" => sup = "none" /\ restart = "none" /\ pc[Restarter] = Idle
    /\ state = UNKNOWN => watch # "none"

\* Nothing of the memory of MSM survives it.
DownIsBlank ==
    ~up => /\ state = OFFLINE /\ sup = "none" /\ adopted = 0 /\ watch = "none"
           /\ restart = "none" /\ \A t \in Tasks : pc[t] = Idle

\* The automatic restart acts for the user: what it is about to start was not
\* stopped meanwhile, or the start will be refused because the server still runs.
AutoWanted ==
    /\ cmd[Restarter] = "start" /\ pc[Restarter] \in StartPlaces \cup {Idle, "lock"}
    /\ restart = "sleeping" => pc[Restarter] = Idle /\ sup = "none" /\ intent = "run"
    /\ pc[Restarter] = "scan" => intent = "run"
    /\ pc[Restarter] = "lock" => intent = "run" \/ sup # "none"
    /\ ~stopRequested /\ (sup # "none" \/ Launching) => intent = "run"

RestartPending == restart = "sleeping" \/ pc[Restarter] \in {"lock", "scan"}

\* Every automatic start was paid for by a crash of its own.
CrashesPay ==
    /\ autoRuns + (IF RestartPending THEN 1 ELSE 0) <= crashes
    /\ RestartPending => crashes < MaxCrashes

\* The inductive invariant behind OneServerProcess, StateHasAnOwner,
\* AdoptionExcludesHandle, OneAutoRestart, LegalTransitions and PanelStopSticks.
Ownership ==
    /\ LockDiscipline /\ FolderGuarded /\ AdoptionQuiet /\ DownIsBlank
    /\ StateHasAnOwner /\ OneServerProcess /\ AutoWanted
=============================================================================
