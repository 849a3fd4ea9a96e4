---------------------------- MODULE RuntimeProofs ----------------------------
(***************************************************************************)
(* Proofs about the two halves of a server's runtime: ServerRuntime, for   *)
(* any number of clients, any policy and any bound, and LogStream, for any *)
(* capacities and bounds.                                                  *)
(***************************************************************************)
EXTENDS ServerRuntime, LogStream, FiniteSetTheorems, TLAPS

\* The two operations on the lock keep its type.
LEMMA ReleaseType ==
    ASSUME TypeOK, Release
    PROVE  lock' \in Tasks \cup {NoTask} /\ waiters' \in Seq(Tasks)
<1>0. lock \in Tasks \cup {NoTask} /\ waiters \in Seq(Tasks)
  BY DEF TypeOK
<1>1. CASE waiters = <<>>
  BY <1>0, <1>1 DEF Release
<1>2. CASE waiters # <<>>
  <2>1. Head(waiters) \in Tasks /\ Tail(waiters) \in Seq(Tasks)
    BY <1>0, <1>2
  <2>2. QED  BY <2>1, <1>2 DEF Release
<1>3. QED  BY <1>1, <1>2

\* Asking for the lock keeps the type of the queue and of the places.
LEMMA RequestLockType ==
    ASSUME TypeOK, NEW t \in Tasks,
           NEW c \in {"start", "stop", "kill", "restart"}, RequestLock(t, c)
    PROVE  /\ lock' \in Tasks \cup {NoTask} /\ waiters' \in Seq(Tasks)
           /\ pc' \in [Tasks -> Places]
           /\ cmd' \in [Tasks -> {"start", "stop", "kill", "restart"}]
<1>0. /\ lock \in Tasks \cup {NoTask} /\ waiters \in Seq(Tasks)
      /\ pc \in [Tasks -> Places]
      /\ cmd \in [Tasks -> {"start", "stop", "kill", "restart"}]
  BY DEF TypeOK
<1>1. "lock" \in Places
  BY DEF Places
<1>2. Append(waiters, t) \in Seq(Tasks)
  BY <1>0
<1>3. QED  BY <1>0, <1>1, <1>2 DEF RequestLock

\* Every step of a start keeps the types.
LEMMA TypeStart ==
    ASSUME TypeOK, NEW t \in Tasks, StartStep(t)
    PROVE  TypeOK'
<1> USE DEF TypeOK, os, memory, tasks, history, Goto, Places, Idle
<1>1. CASE StartRefused(t)
  BY <1>1, ReleaseType DEF StartRefused, Enters
<1>2. CASE StartScans(t)
  BY <1>2 DEF StartScans, Enters
<1>3. CASE OrphanFound(t)
  BY <1>3, ReleaseType DEF OrphanFound
<1>4. CASE StartAccepted(t)
  <2>1. autoRuns' \in Nat /\ intent' \in {"run", "stop"}
    BY <1>4 DEF StartAccepted
  <2>2. /\ state' \in States /\ stopRequested' \in BOOLEAN
        /\ restart' \in {"none", "sleeping"} /\ pc' \in [Tasks -> Places]
    BY <1>4 DEF StartAccepted, CancelPendingRestart, States, STARTING
  <2>3. QED  BY <1>4, <2>1, <2>2 DEF StartAccepted
<1>5. CASE PreStartDone(t)
  BY <1>5 DEF PreStartDone
<1>6. CASE StartFails(t)
  BY <1>6, ReleaseType DEF StartFails, FailStart, States, STARTING, OFFLINE, ONLINE, STOPPING, UNKNOWN, CRASHED
<1>7. CASE SpawnProcess(t)
  BY <1>7 DEF SpawnProcess
<1>8. CASE StartInstalls(t)
  BY <1>8, ReleaseType DEF StartInstalls
<1>9. QED
  BY <1>1, <1>2, <1>3, <1>4, <1>5, <1>6, <1>7, <1>8 DEF StartStep

\* Every step of a stop, a kill or a restart keeps the types.
LEMMA TypeStop ==
    ASSUME TypeOK, NEW t \in Tasks, StopStep(t)
    PROVE  TypeOK'
<1> USE DEF TypeOK, os, memory, tasks, history, Goto, Places, Idle
<1>1. CASE StopRefused(t)
  BY <1>1, ReleaseType DEF StopRefused, Enters, CancelPendingRestart
<1>2. CASE StopAccepted(t)
  <2>1. killed' \subseteq 1..spawned
    BY <1>2 DEF StopAccepted, KillGroup
  <2>2. pc' \in [Tasks -> Places] /\ target' \in [Tasks -> 0..spawned]
    BY <1>2 DEF StopAccepted
  <2>3. /\ state' \in States /\ stopRequested' \in BOOLEAN
        /\ restart' \in {"none", "sleeping"}
    BY <1>2 DEF StopAccepted, CancelPendingRestart, States, STOPPING
  <2>4. QED
    BY <1>2, <2>1, <2>2, <2>3, ReleaseType DEF StopAccepted
<1>3. CASE StopCompletes(t)
  BY <1>3 DEF StopCompletes, AfterStop
<1>4. CASE StopEscalates(t)
  BY <1>4 DEF StopEscalates
<1>5. CASE StopKills(t)
  <2>1. killed' \subseteq 1..spawned
    BY <1>5 DEF StopKills, KillGroup
  <2>2. pc' \in [Tasks -> Places]
    BY <1>5 DEF StopKills
  <2>3. QED  BY <1>5, <2>1, <2>2 DEF StopKills
<1>6. CASE StopGivesUp(t)
  BY <1>6 DEF StopGivesUp, AfterStop
<1>7. CASE StopAdopted(t)
  <2>1. killed' \subseteq 1..spawned
    <3>1. adopted \in 1..spawned
      BY <1>7 DEF StopAdopted
    <3>2. killed' \in {killed, killed \cup {adopted}}
      BY <1>7 DEF StopAdopted
    <3>3. QED  BY <3>1, <3>2
  <2>2. QED
    BY <1>7, <2>1 DEF StopAdopted, Enters, CancelPendingRestart, States, STOPPING
<1>8. CASE AdoptedStopKills(t)
  <2>1. killed' \subseteq 1..spawned
    BY <1>8 DEF AdoptedStopKills, Alive
  <2>2. pc' \in [Tasks -> Places]
    BY <1>8 DEF AdoptedStopKills
  <2>3. QED  BY <1>8, <2>1, <2>2 DEF AdoptedStopKills
<1>9. CASE AdoptedStopFinishes(t)
  BY <1>9, ReleaseType DEF AdoptedStopFinishes, ReleaseAdopted, AfterStop, States, STARTING, OFFLINE, ONLINE, STOPPING, UNKNOWN, CRASHED
<1>10. CASE RestartResumes(t)
  BY <1>10, RequestLockType DEF RestartResumes
<1>11. QED
  BY <1>1, <1>2, <1>3, <1>4, <1>5, <1>6, <1>7, <1>8, <1>9, <1>10 DEF StopStep

\* Every step of the background tasks keeps the types.
LEMMA TypeBackground ==
    ASSUME TypeOK, Background
    PROVE  TypeOK'
<1> USE DEF TypeOK, os, memory, tasks, history, Goto, Places, Idle
<1>1. CASE WatchNoticesDeath
  BY <1>1 DEF WatchNoticesDeath, ReleaseAdopted
<1>2. CASE WatchSetsOffline
  BY <1>2 DEF WatchSetsOffline, States, STARTING, OFFLINE, ONLINE, STOPPING, UNKNOWN, CRASHED
<1>3. CASE SuperviseNoticesExit
  BY <1>3 DEF SuperviseNoticesExit
<1>4. CASE \E stable \in BOOLEAN : SuperviseConcludes(stable)
  BY <1>4 DEF SuperviseConcludes, CrashCount, States, STARTING, OFFLINE, ONLINE, STOPPING, UNKNOWN, CRASHED
<1>5. CASE RestartTimerFires
  BY <1>5, RequestLockType DEF RestartTimerFires, Tasks
<1>6. CASE ReadinessTimesOut
  <2>1. state' \in States /\ readiness' \in BOOLEAN
    BY <1>6 DEF ReadinessTimesOut, AssumeOnline, States, ONLINE
  <2>2. QED  BY <1>6, <2>1 DEF ReadinessTimesOut
<1>7. QED
  BY <1>1, <1>2, <1>3, <1>4, <1>5, <1>6 DEF Background

\* The processes, the clients and the end of MSM keep the types.
LEMMA TypeEnvironment ==
    ASSUME TypeOK, Environment
    PROVE  TypeOK'
<1> USE DEF TypeOK, os, memory, tasks, history, Goto, Places, Idle
<1>1. CASE LogSaysReady
  <2>1. state' \in States /\ readiness' \in BOOLEAN
    BY <1>1 DEF LogSaysReady, States, ONLINE
  <2>2. QED  BY <1>1, <2>1 DEF LogSaysReady
<1>2. CASE LogSaysStopping
  <2>1. state' \in States
    BY <1>2 DEF LogSaysStopping, States, STOPPING
  <2>2. QED  BY <1>2, <2>1 DEF LogSaysStopping
<1>3. CASE \E p \in live : ServerExits(p)
  BY <1>3 DEF ServerExits, ExitCodes
<1>4. CASE LauncherExits
  BY <1>4 DEF LauncherExits, ExitCodes
<1>5. CASE MsmStops
  <2>1. lock' \in Tasks \cup {NoTask} /\ waiters' \in Seq(Tasks)
    BY <1>5 DEF MsmStops, FreshMemory
  <2>2. /\ pc' \in [Tasks -> Places]
        /\ cmd' \in [Tasks -> {"start", "stop", "kill", "restart"}]
        /\ target' \in [Tasks -> 0..spawned']
    BY <1>5 DEF MsmStops, FreshMemory
  <2>3. /\ up' \in BOOLEAN /\ viaLeader' \in BOOLEAN /\ readiness' \in BOOLEAN
        /\ stopRequested' \in BOOLEAN
    BY <1>5, Zenon DEF MsmStops, FreshMemory
  <2>4. QED  BY <1>5, <2>1, <2>2, <2>3 DEF MsmStops, FreshMemory, States, OFFLINE
<1>6. CASE MsmBoots
  <2>1. viaLeader' \in BOOLEAN /\ up' \in BOOLEAN
    BY <1>6 DEF MsmBoots
  <2>2. adopted' \in 0..spawned /\ state' \in States
        /\ watch' \in {"none", "polling", "released"}
    <3>1. CASE live = {} /\ UNCHANGED <<adopted, viaLeader, state, watch>>
      BY <3>1
    <3>2. CASE (\E p \in live : adopted' = p) /\ state' = UNKNOWN /\ watch' = "polling"
      BY <3>2 DEF States
    <3>3. QED  BY <1>6, <3>1, <3>2, Zenon DEF MsmBoots
  <2>3. QED  BY <1>6, <2>1, <2>2 DEF MsmBoots
<1>7. QED
  BY <1>1, <1>2, <1>3, <1>4, <1>5, <1>6 DEF Environment

\* Every variable keeps its type.
THEOREM TypeCorrect == Spec => []TypeOK
<1>1. Init => TypeOK
  <2> SUFFICES ASSUME Init PROVE TypeOK
    OBVIOUS
  <2>1. lock \in Tasks \cup {NoTask} /\ waiters \in Seq(Tasks)
    BY DEF Init
  <2>2. /\ pc \in [Tasks -> Places]
        /\ cmd \in [Tasks -> {"start", "stop", "kill", "restart"}]
        /\ target \in [Tasks -> 0..spawned]
    BY DEF Init, Places, Idle
  <2>3. /\ up \in BOOLEAN /\ viaLeader \in BOOLEAN /\ readiness \in BOOLEAN
        /\ stopRequested \in BOOLEAN
    BY Zenon DEF Init
  <2>4. QED  BY <2>1, <2>2, <2>3 DEF Init, TypeOK, States, OFFLINE
<1>2. TypeOK /\ [Next]_vars => TypeOK'
  <2> SUFFICES ASSUME TypeOK, [Next]_vars PROVE TypeOK'
    OBVIOUS
  <2>1. ASSUME NEW c \in Clients, Request(c) PROVE TypeOK'
    <3>1. c \in Tasks
      BY DEF Tasks
    <3>2. PICK kind \in {"start", "stop", "kill", "restart"} :
            RequestLock(c, IF kind = "restart" /\ ~IsRunning(state)
                           THEN "start" ELSE kind)
      BY <2>1 DEF Request
    <3> DEFINE given == IF kind = "restart" /\ ~IsRunning(state)
                        THEN "start" ELSE kind
    <3>3. given \in {"start", "stop", "kill", "restart"}
      OBVIOUS
    <3> HIDE DEF given
    <3>4. /\ lock' \in Tasks \cup {NoTask} /\ waiters' \in Seq(Tasks)
          /\ pc' \in [Tasks -> Places]
          /\ cmd' \in [Tasks -> {"start", "stop", "kill", "restart"}]
      BY <3>1, <3>2, <3>3, RequestLockType DEF given
    <3>5. QED  BY <2>1, <3>4 DEF Request, TypeOK, os, memory
  <2>2. ASSUME NEW t \in Tasks, StartStep(t) \/ StopStep(t) PROVE TypeOK'
    BY <2>2, TypeStart, TypeStop
  <2>3. CASE Background
    BY <2>3, TypeBackground
  <2>4. CASE Environment
    BY <2>4, TypeEnvironment
  <2>5. CASE UNCHANGED vars
    BY <2>5 DEF TypeOK, vars, os, memory, tasks, history
  <2>6. QED  BY <2>1, <2>2, <2>3, <2>4, <2>5 DEF Next
<1>3. QED  BY <1>1, <1>2, PTL DEF Spec

-----------------------------------------------------------------------------
(* Ownership is inductive *)

\* The holder leaves its critical section: the head of the queue is the holder.
LEMMA QueueAfterRelease ==
    ASSUME TypeOK, LockDiscipline, NEW t \in Tasks, lock = t, Release,
           pc' \in [Tasks -> Places], pc'[t] \notin HoldingPlaces \cup {"lock"},
           \A u \in Tasks \ {t} : pc'[u] = pc[u]
    PROVE  LockDiscipline'
<1>0. waiters \in Seq(Tasks)
  BY DEF TypeOK
<1>1. ASSUME NEW u \in Tasks, pc'[u] \in HoldingPlaces PROVE lock' = u
  BY <1>1 DEF LockDiscipline
<1>2. ASSUME NEW u \in Tasks, pc'[u] = "lock"
      PROVE  lock' = u \/ \E i \in 1..Len(waiters') : waiters'[i] = u
  <2>1. PICK i \in 1..Len(waiters) : waiters[i] = u
    BY <1>2 DEF LockDiscipline
  <2>2. waiters # <<>> /\ lock' = Head(waiters) /\ waiters' = Tail(waiters)
    BY <1>0, <2>1 DEF Release
  <2>3. CASE i = 1
    BY <1>0, <2>1, <2>2, <2>3
  <2>4. CASE i # 1
    <3>1. i - 1 \in 1..Len(Tail(waiters)) /\ Tail(waiters)[i - 1] = waiters[i]
      BY <1>0, <2>1, <2>2, <2>4
    <3>2. QED  BY <2>1, <2>2, <3>1
  <2>5. QED  BY <2>3, <2>4
<1>3. lock' = NoTask => waiters' = <<>>
  <2>1. CASE waiters = <<>>
    BY <2>1 DEF Release
  <2>2. CASE waiters # <<>>
    BY <1>0, <2>2, ConstantsAssumption DEF Release, Tasks
  <2>3. QED  BY <2>1, <2>2
<1>4. QED  BY <1>1, <1>2, <1>3 DEF LockDiscipline

\* A task asks for the lock: it has it or is the last of the queue.
LEMMA QueueAfterRequest ==
    ASSUME TypeOK, LockDiscipline, NEW t \in Tasks, NEW c, RequestLock(t, c),
           pc[t] \notin HoldingPlaces
    PROVE  LockDiscipline'
<1>0. waiters \in Seq(Tasks) /\ pc \in [Tasks -> Places]
  BY DEF TypeOK
<1>1. "lock" \notin HoldingPlaces
  BY DEF HoldingPlaces
<1>2. CASE lock = NoTask
  <2>1. \A u \in Tasks : pc[u] \notin HoldingPlaces
    BY <1>2, ConstantsAssumption DEF LockDiscipline, Tasks
  <2>2. \A u \in Tasks : pc[u] # "lock"
    BY <1>0, <1>2, ConstantsAssumption DEF LockDiscipline, Tasks
  <2>3. lock' = t /\ pc' = [pc EXCEPT ![t] = "lock"] /\ t # NoTask
    BY <1>2, ConstantsAssumption DEF RequestLock, Tasks
  <2>4. QED  BY <1>0, <1>1, <2>1, <2>2, <2>3 DEF LockDiscipline
<1>3. CASE lock # NoTask
  <2>1. /\ waiters' = Append(waiters, t) /\ lock' = lock
        /\ pc' = [pc EXCEPT ![t] = "lock"]
    BY <1>3 DEF RequestLock
  <2>2. /\ Len(waiters') = Len(waiters) + 1 /\ Len(waiters) \in Nat
        /\ waiters'[Len(waiters) + 1] = t
        /\ \A i \in 1..Len(waiters) : waiters'[i] = waiters[i]
    BY <1>0, <2>1
  <2>3. ASSUME NEW u \in Tasks, pc'[u] \in HoldingPlaces PROVE lock' = u
    BY <1>0, <1>1, <2>1, <2>3 DEF LockDiscipline
  <2>4. ASSUME NEW u \in Tasks, pc'[u] = "lock"
        PROVE  lock' = u \/ \E i \in 1..Len(waiters') : waiters'[i] = u
    <3>1. CASE u = t
      BY <2>2, <3>1
    <3>2. CASE u # t
      BY <1>0, <2>1, <2>2, <2>4, <3>2 DEF LockDiscipline
    <3>3. QED  BY <3>1, <3>2
  <2>5. lock' # NoTask
    BY <1>3, <2>1
  <2>6. QED  BY <2>3, <2>4, <2>5 DEF LockDiscipline
<1>4. QED  BY <1>2, <1>3

\* The lock is held by whoever is in a critical section.
LEMMA LockDisciplineKept ==
    ASSUME TypeOK, TypeOK', LockDiscipline, AutoWanted, [Next]_vars
    PROVE  LockDiscipline'
<1> USE DEF HoldingPlaces, Goto, Idle
<1>1. ASSUME NEW c \in Clients, Request(c) PROVE LockDiscipline'
  <2>1. PICK kind : RequestLock(c, kind)
    BY <1>1 DEF Request
  <2>2. QED  BY <1>1, <2>1, QueueAfterRequest DEF Request, Tasks
<1>2. ASSUME NEW t \in Tasks, RestartResumes(t) PROVE LockDiscipline'
  BY <1>2, QueueAfterRequest DEF RestartResumes
<1>3. CASE RestartTimerFires
  BY <1>3, QueueAfterRequest DEF RestartTimerFires, Tasks
<1>4. ASSUME NEW t \in Tasks, StartRefused(t) PROVE LockDiscipline'
  <2>1. /\ lock = t /\ Release /\ pc'[t] \notin HoldingPlaces \cup {"lock"}
        /\ \A u \in Tasks \ {t} : pc'[u] = pc[u]
    BY <1>4 DEF StartRefused, Enters, TypeOK, LockDiscipline
  <2>2. QED  BY <2>1, QueueAfterRelease DEF TypeOK
<1>5. ASSUME NEW t \in Tasks, OrphanFound(t) PROVE LockDiscipline'
  <2>1. /\ lock = t /\ Release /\ pc'[t] \notin HoldingPlaces \cup {"lock"}
        /\ \A u \in Tasks \ {t} : pc'[u] = pc[u]
    BY <1>5 DEF OrphanFound, TypeOK, LockDiscipline
  <2>2. QED  BY <2>1, QueueAfterRelease DEF TypeOK
<1>6. ASSUME NEW t \in Tasks, StartFails(t) PROVE LockDiscipline'
  <2>1. /\ lock = t /\ Release /\ pc'[t] \notin HoldingPlaces \cup {"lock"}
        /\ \A u \in Tasks \ {t} : pc'[u] = pc[u]
    BY <1>6 DEF StartFails, TypeOK, LockDiscipline
  <2>2. QED  BY <2>1, QueueAfterRelease DEF TypeOK
<1>7. ASSUME NEW t \in Tasks, StartInstalls(t) PROVE LockDiscipline'
  <2>1. /\ lock = t /\ Release /\ pc'[t] \notin HoldingPlaces \cup {"lock"}
        /\ \A u \in Tasks \ {t} : pc'[u] = pc[u]
    BY <1>7 DEF StartInstalls, TypeOK, LockDiscipline
  <2>2. QED  BY <2>1, QueueAfterRelease DEF TypeOK
<1>8. ASSUME NEW t \in Tasks, StopRefused(t) PROVE LockDiscipline'
  <2>1. /\ lock = t /\ Release /\ pc'[t] \notin HoldingPlaces \cup {"lock"}
        /\ \A u \in Tasks \ {t} : pc'[u] = pc[u]
    BY <1>8 DEF StopRefused, Enters, TypeOK, LockDiscipline
  <2>2. QED  BY <2>1, QueueAfterRelease DEF TypeOK
<1>9. ASSUME NEW t \in Tasks, StopAccepted(t) PROVE LockDiscipline'
  <2>1. /\ lock = t /\ Release /\ pc'[t] \notin HoldingPlaces \cup {"lock"}
        /\ \A u \in Tasks \ {t} : pc'[u] = pc[u]
    BY <1>9 DEF StopAccepted, Enters, TypeOK, LockDiscipline
  <2>2. QED  BY <2>1, QueueAfterRelease DEF TypeOK
<1>10. ASSUME NEW t \in Tasks, AdoptedStopFinishes(t) PROVE LockDiscipline'
  <2>1. /\ lock = t /\ Release /\ pc'[t] \notin HoldingPlaces \cup {"lock"}
        /\ \A u \in Tasks \ {t} : pc'[u] = pc[u]
    BY <1>10 DEF AdoptedStopFinishes, AfterStop, TypeOK, LockDiscipline
  <2>2. QED  BY <2>1, QueueAfterRelease DEF TypeOK
<1>11. ASSUME NEW t \in Tasks, StartScans(t) PROVE LockDiscipline'
  BY <1>11 DEF StartScans, Enters, LockDiscipline, TypeOK
<1>12. ASSUME NEW t \in Tasks, StartAccepted(t) PROVE LockDiscipline'
  BY <1>12 DEF StartAccepted, LockDiscipline, TypeOK
<1>13. ASSUME NEW t \in Tasks, PreStartDone(t) PROVE LockDiscipline'
  BY <1>13 DEF PreStartDone, LockDiscipline, TypeOK
<1>14. ASSUME NEW t \in Tasks, SpawnProcess(t) PROVE LockDiscipline'
  BY <1>14 DEF SpawnProcess, LockDiscipline, TypeOK
<1>15. ASSUME NEW t \in Tasks, StopCompletes(t) PROVE LockDiscipline'
  BY <1>15 DEF StopCompletes, AfterStop, LockDiscipline, TypeOK
<1>16. ASSUME NEW t \in Tasks, StopEscalates(t) PROVE LockDiscipline'
  BY <1>16 DEF StopEscalates, LockDiscipline, TypeOK
<1>17. ASSUME NEW t \in Tasks, StopKills(t) PROVE LockDiscipline'
  BY <1>17 DEF StopKills, LockDiscipline, TypeOK
<1>18. ASSUME NEW t \in Tasks, StopGivesUp(t) PROVE LockDiscipline'
  BY <1>18 DEF StopGivesUp, AfterStop, LockDiscipline, TypeOK
<1>19. ASSUME NEW t \in Tasks, StopAdopted(t) PROVE LockDiscipline'
  BY <1>19 DEF StopAdopted, Enters, LockDiscipline, TypeOK
<1>20. ASSUME NEW t \in Tasks, AdoptedStopKills(t) PROVE LockDiscipline'
  BY <1>20 DEF AdoptedStopKills, LockDiscipline, TypeOK
<1>21. CASE Environment
  <2>1. CASE MsmStops
    BY <2>1 DEF MsmStops, FreshMemory, LockDiscipline
  <2>2. CASE UNCHANGED tasks
    BY <2>2 DEF tasks, LockDiscipline
  <2>3. QED
    BY <1>21, <2>1, <2>2 DEF Environment, LogSaysReady, LogSaysStopping,
       ServerExits, LauncherExits, MsmBoots
<1>22. CASE Background
  BY <1>22, <1>3 DEF Background, WatchNoticesDeath, WatchSetsOffline, SuperviseNoticesExit,
     SuperviseConcludes, ReadinessTimesOut, tasks, LockDiscipline
<1>23. CASE UNCHANGED vars
  BY <1>23 DEF vars, tasks, LockDiscipline
<1>24. QED
  BY <1>1, <1>2, <1>3, <1>4, <1>5, <1>6, <1>7, <1>8, <1>9, <1>10, <1>11, <1>12, <1>13, <1>14, <1>15, <1>16, <1>17, <1>18, <1>19, <1>20, <1>21, <1>22, <1>23
     DEF Next, StartStep, StopStep

\* Starting a server keeps it.
LEMMA OwnershipStart ==
    ASSUME TypeOK, TypeOK', Ownership, LockDiscipline',
           NEW t \in Tasks, StartStep(t)
    PROVE  Ownership'
<1> USE ConstantsAssumption
    DEF Ownership, LockDiscipline, FolderGuarded, AdoptionQuiet, DownIsBlank,
        StateHasAnOwner, OneServerProcess, AutoWanted, Launching, HoldingPlaces,
        StartPlaces, AdoptedPlaces, TypeOK, os, memory, tasks, history, Goto,
        Places, Idle, Tasks, IsRunning, RunningStates, States, STARTING, OFFLINE,
        ONLINE, STOPPING, UNKNOWN, CRASHED
<1>1. CASE StartRefused(t)
  BY <1>1 DEF StartRefused, Enters, Release
<1>2. CASE StartScans(t)
  BY <1>2 DEF StartScans, Enters, AlreadyRunning
<1>3. CASE OrphanFound(t)
  BY <1>3 DEF OrphanFound, Release
<1>4. CASE StartAccepted(t)
  BY <1>4 DEF StartAccepted, CancelPendingRestart, OrphanInFolder
<1>5. CASE PreStartDone(t)
  BY <1>5 DEF PreStartDone
<1>6. CASE StartFails(t)
  BY <1>6 DEF StartFails, FailStart, Release
<1>7. CASE SpawnProcess(t)
  BY <1>7 DEF SpawnProcess
<1>8. CASE StartInstalls(t)
  BY <1>8 DEF StartInstalls, Release
<1> HIDE DEF Ownership, TypeOK
<1>9. QED
  BY <1>1, <1>2, <1>3, <1>4, <1>5, <1>6, <1>7, <1>8 DEF StartStep

\* Stopping a server keeps it.
LEMMA OwnershipStop ==
    ASSUME TypeOK, TypeOK', Ownership, LockDiscipline',
           NEW t \in Tasks, StopStep(t)
    PROVE  Ownership'
<1> USE ConstantsAssumption
    DEF Ownership, LockDiscipline, FolderGuarded, AdoptionQuiet, DownIsBlank,
        StateHasAnOwner, OneServerProcess, AutoWanted, Launching, HoldingPlaces,
        StartPlaces, AdoptedPlaces, TypeOK, os, memory, tasks, history, Goto,
        Places, Idle, Tasks, IsRunning, RunningStates, States, STARTING, OFFLINE,
        ONLINE, STOPPING, UNKNOWN, CRASHED
<1>1. CASE StopRefused(t)
  BY <1>1 DEF StopRefused, Enters, CancelPendingRestart, Release
<1>2. CASE StopAccepted(t)
  BY <1>2 DEF StopAccepted, Enters, CancelPendingRestart, Release, KillGroup, Running
<1>3. CASE StopCompletes(t)
  BY <1>3 DEF StopCompletes, AfterStop
<1>4. CASE StopEscalates(t)
  BY <1>4 DEF StopEscalates
<1>5. CASE StopKills(t)
  BY <1>5 DEF StopKills, KillGroup
<1>6. CASE StopGivesUp(t)
  BY <1>6 DEF StopGivesUp, AfterStop
<1>7. CASE StopAdopted(t)
  BY <1>7 DEF StopAdopted, Enters, CancelPendingRestart
<1>8. CASE AdoptedStopKills(t)
  BY <1>8 DEF AdoptedStopKills
<1>9. CASE AdoptedStopFinishes(t)
  BY <1>9 DEF AdoptedStopFinishes, ReleaseAdopted, AfterStop, Release
<1>10. CASE RestartResumes(t)
  BY <1>10 DEF RestartResumes, RequestLock
<1> HIDE DEF Ownership, TypeOK
<1>11. QED
  BY <1>1, <1>2, <1>3, <1>4, <1>5, <1>6, <1>7, <1>8, <1>9, <1>10 DEF StopStep

\* When an exit is concluded nobody is on the way to the lock, so no automatic
\* restart is either.
LEMMA NoRestartDuringExit ==
    ASSUME TypeOK, LockDiscipline, FolderGuarded, AutoWanted, Settled,
           sup = "draining"
    PROVE  pc[Restarter] = Idle
<1>0. Restarter \in Tasks
  BY DEF Tasks
<1>1. lock \in Tasks \cup {NoTask}
  BY DEF TypeOK
<1>2. ASSUME lock = NoTask PROVE pc[Restarter] # "lock"
  <2>1. waiters = <<>>
    BY <1>2 DEF LockDiscipline
  <2>2. ~ \E i \in 1..Len(waiters) : waiters[i] = Restarter
    BY <2>1
  <2>3. lock # Restarter
    BY <1>0, <1>2, ConstantsAssumption
  <2>4. QED  BY <1>0, <2>2, <2>3 DEF LockDiscipline
<1>3. lock = NoTask
  <2>1. ASSUME lock \in Tasks PROVE FALSE
    <3>1. pc[lock] \in HoldingPlaces
      BY <2>1 DEF Settled
    <3>2. sup = "none"
      BY <2>1, <3>1 DEF FolderGuarded, HoldingPlaces, StartPlaces, AdoptedPlaces
    <3>3. QED  BY <3>2
  <2>2. QED  BY <1>1, <2>1
<1>4. pc[Restarter] \notin StartPlaces
  <2>1. pc[Restarter] \in StartPlaces => sup = "none"
    BY <1>0 DEF FolderGuarded
  <2>2. QED  BY <2>1
<1>5. pc[Restarter] \in StartPlaces \cup {Idle, "lock"}
  BY DEF AutoWanted
<1>6. QED  BY <1>2, <1>3, <1>4, <1>5

\* The background tasks keep it.
LEMMA OwnershipBackground ==
    ASSUME TypeOK, TypeOK', Ownership, LockDiscipline',
           Background
    PROVE  Ownership'
<1> USE ConstantsAssumption
    DEF Ownership, LockDiscipline, FolderGuarded, AdoptionQuiet, DownIsBlank,
        StateHasAnOwner, OneServerProcess, AutoWanted, Launching, HoldingPlaces,
        StartPlaces, AdoptedPlaces, TypeOK, os, memory, tasks, history, Goto,
        Places, Idle, Tasks, IsRunning, RunningStates, States, STARTING, OFFLINE,
        ONLINE, STOPPING, UNKNOWN, CRASHED
<1>1. CASE WatchNoticesDeath
  BY <1>1 DEF WatchNoticesDeath, ReleaseAdopted
<1>2. CASE WatchSetsOffline
  BY <1>2 DEF WatchSetsOffline
<1>3. CASE SuperviseNoticesExit
  BY <1>3 DEF SuperviseNoticesExit
<1>4. ASSUME NEW stable \in BOOLEAN, SuperviseConcludes(stable)
      PROVE  Ownership'
  <2>1. pc[Restarter] = Idle
    BY <1>4, NoRestartDuringExit DEF SuperviseConcludes
  <2>2. /\ sup = "draining" /\ sup' = "none" /\ restart = "none"
        /\ pc' = pc /\ cmd' = cmd /\ intent' = intent
        /\ stopRequested' = stopRequested /\ ~Launching'
    BY <1>4 DEF SuperviseConcludes
  <2>3. restart' = "sleeping" => intent = "run"
    BY <1>4, <2>2 DEF SuperviseConcludes, ShouldRestart
  <2>4. AutoWanted'
    <3>1. cmd'[Restarter] = "start" /\ pc'[Restarter] = Idle
      BY <2>1, <2>2
    <3>2. Idle \notin {"scan", "lock"}
      OBVIOUS
    <3>3. ~(sup' # "none" \/ Launching')
      BY <2>2
    <3>4. QED  BY <2>2, <2>3, <3>1, <3>2, <3>3
  <2>5. QED  BY <1>4, <2>1, <2>2, <2>4 DEF SuperviseConcludes
<1>5. CASE RestartTimerFires
  BY <1>5 DEF RestartTimerFires, RequestLock
<1>6. CASE ReadinessTimesOut
  BY <1>6 DEF ReadinessTimesOut, AssumeOnline, Running
<1> HIDE DEF Ownership, TypeOK
<1>7. QED
  BY <1>1, <1>2, <1>3, <1>4, <1>5, <1>6 DEF Background

\* MSM adopts a process that lives.
LEMMA BootAdopts == ASSUME MsmBoots, live # {} PROVE adopted' \in live
  BY Zenon DEF MsmBoots

\* The processes, the clients and the end of MSM keep it.
LEMMA OwnershipEnvironment ==
    ASSUME TypeOK, TypeOK', Ownership, LockDiscipline',
           (\E c \in Clients : Request(c)) \/ Environment
    PROVE  Ownership'
<1> USE ConstantsAssumption
    DEF Ownership, LockDiscipline, FolderGuarded, AdoptionQuiet, DownIsBlank,
        StateHasAnOwner, OneServerProcess, AutoWanted, Launching, HoldingPlaces,
        StartPlaces, AdoptedPlaces, TypeOK, os, memory, tasks, history, Goto,
        Places, Idle, Tasks, IsRunning, RunningStates, States, STARTING, OFFLINE,
        ONLINE, STOPPING, UNKNOWN, CRASHED
<1>1. CASE LogSaysReady
  BY <1>1 DEF LogSaysReady, ReadyExpected
<1>2. CASE LogSaysStopping
  BY <1>2 DEF LogSaysStopping
<1>3. ASSUME NEW p \in live, ServerExits(p) PROVE Ownership'
  BY <1>3 DEF ServerExits
<1>4. CASE LauncherExits
  BY <1>4 DEF LauncherExits, Running
<1>5. CASE MsmStops
  BY <1>5 DEF MsmStops, FreshMemory
<1>6. CASE MsmBoots
  <2>1. CASE live = {}
    BY <1>6, <2>1 DEF MsmBoots
  <2>2. CASE live # {}
    <3>1. state' = UNKNOWN /\ watch' = "polling"
      BY <1>6, <2>2 DEF MsmBoots
    <3>2. adopted' # 0
      <4>1. adopted' \in live
        BY <1>6, <2>2, BootAdopts
      <4>2. \A p \in live : p # 0
        OBVIOUS
      <4>3. QED  BY <4>1, <4>2
    <3>3. up' = TRUE /\ up = FALSE
      BY <1>6, Zenon DEF MsmBoots
    <3>4. /\ pc' = pc /\ cmd' = cmd /\ sup' = sup /\ live' = live /\ restart' = restart
          /\ intent' = intent /\ stopRequested' = stopRequested
      BY <1>6 DEF MsmBoots
    <3>5. ~Launching'
      BY <3>3, <3>4
    <3>6. /\ \A t \in Tasks : pc[t] = Idle
          /\ sup = "none" /\ restart = "none"
      BY <3>3
    <3>7. FolderGuarded' /\ DownIsBlank' /\ OneServerProcess'
      <4>1. \A t \in Tasks : pc'[t] = Idle
        BY <3>4, <3>6
      <4>2. FolderGuarded'
        BY <4>1
      <4>3. DownIsBlank'
        BY <3>3
      <4>4. OneServerProcess'
        BY <3>4
      <4>5. QED  BY <4>2, <4>3, <4>4
    <3>8. AdoptionQuiet'
      <4>1. pc'[Restarter] = Idle
        BY <3>4, <3>6
      <4>2. QED  BY <3>1, <3>2, <3>4, <3>6, <4>1
    <3>9. StateHasAnOwner'
      BY <3>1, <3>2
    <3>10. AutoWanted'
      BY <3>4, <3>5
    <3> HIDE DEF FolderGuarded, DownIsBlank, OneServerProcess, AdoptionQuiet,
        StateHasAnOwner, AutoWanted, LockDiscipline, TypeOK
    <3>11. QED  BY <3>7, <3>8, <3>9, <3>10
  <2>3. QED  BY <2>1, <2>2
<1>7. ASSUME NEW c \in Clients, Request(c) PROVE Ownership'
  BY <1>7 DEF Request, RequestLock
<1> HIDE DEF Ownership, TypeOK
<1>8. QED
  BY <1>1, <1>2, <1>3, <1>4, <1>5, <1>6, <1>7 DEF Environment

\* The lock, the folder, the supervision, the watch and the automatic restart
\* stay in step: every reachable state satisfies Ownership.
THEOREM OwnershipCorrect == Spec => []Ownership
<1>1. Init => Ownership
  <2> SUFFICES ASSUME Init PROVE Ownership
    OBVIOUS
  <2>1. Restarter \in Tasks /\ \A t \in Tasks : pc[t] = Idle /\ cmd[t] = "start"
    BY DEF Init, Tasks
  <2>2. LockDiscipline /\ FolderGuarded
    BY <2>1 DEF Init, LockDiscipline, FolderGuarded, HoldingPlaces, StartPlaces,
       AdoptedPlaces, Idle
  <2>3. AdoptionQuiet /\ DownIsBlank /\ OneServerProcess
    BY <2>1 DEF Init, AdoptionQuiet, DownIsBlank, OneServerProcess, OFFLINE, UNKNOWN
  <2>4. ~Launching
    BY <2>1 DEF Launching, Idle
  <2>5. StateHasAnOwner
    BY <2>4 DEF Init, StateHasAnOwner, IsRunning, RunningStates, OFFLINE, STARTING,
       ONLINE, STOPPING, UNKNOWN
  <2>6. AutoWanted
    BY <2>1, <2>4 DEF Init, AutoWanted, Idle
  <2>7. QED  BY <2>2, <2>3, <2>5, <2>6 DEF Ownership
<1>2. TypeOK /\ TypeOK' /\ Ownership /\ [Next]_vars => Ownership'
  <2> SUFFICES ASSUME TypeOK, TypeOK', Ownership, [Next]_vars PROVE Ownership'
    OBVIOUS
  <2>1. LockDiscipline'
    BY LockDisciplineKept DEF Ownership
  <2>2. ASSUME NEW t \in Tasks, StartStep(t) \/ StopStep(t) PROVE Ownership'
    BY <2>1, <2>2, OwnershipStart, OwnershipStop
  <2>3. CASE Background
    BY <2>1, <2>3, OwnershipBackground
  <2>4. CASE (\E c \in Clients : Request(c)) \/ Environment
    BY <2>1, <2>4, OwnershipEnvironment
  <2>5. CASE UNCHANGED vars
    BY <2>5 DEF vars, os, memory, tasks, history, Ownership, LockDiscipline,
       FolderGuarded, AdoptionQuiet, DownIsBlank, StateHasAnOwner,
       OneServerProcess, AutoWanted, Launching
  <2>6. QED  BY <2>2, <2>3, <2>4, <2>5 DEF Next
<1>3. QED  BY <1>1, <1>2, TypeCorrect, PTL DEF Spec

\* Two processes never hold the world of a server.
THEOREM OneServerProcessCorrect == Spec => []OneServerProcess
<1>1. Ownership => OneServerProcess
  BY DEF Ownership
<1>2. QED  BY <1>1, OwnershipCorrect, PTL

\* No process is shown as stopped while MSM is in charge of it, and no state
\* claims a process that nothing will take out of that state.
THEOREM StateHasAnOwnerCorrect == Spec => []StateHasAnOwner
<1>1. Ownership => StateHasAnOwner
  BY DEF Ownership
<1>2. QED  BY <1>1, OwnershipCorrect, PTL

\* An adopted process and a handle exclude each other.
THEOREM AdoptionExcludesHandleCorrect == Spec => []AdoptionExcludesHandle
<1>1. TypeOK /\ Ownership => AdoptionExcludesHandle
  <2> SUFFICES ASSUME TypeOK, Ownership PROVE AdoptionExcludesHandle
    OBVIOUS
  <2>1. adopted # 0 <=> watch = "polling"
    BY DEF Ownership, AdoptionQuiet
  <2>2. watch # "none" => sup = "none"
    BY DEF Ownership, AdoptionQuiet
  <2>3. state = UNKNOWN => watch \in {"polling", "released"}
    BY DEF Ownership, AdoptionQuiet, TypeOK
  <2>4. QED  BY <2>1, <2>2, <2>3 DEF AdoptionExcludesHandle
<1>2. QED  BY <1>1, TypeCorrect, OwnershipCorrect, PTL

\* There is at most one automatic restart, and none while a server runs.
THEOREM OneAutoRestartCorrect == Spec => []OneAutoRestart
<1>1. Ownership => OneAutoRestart
  BY DEF Ownership, AutoWanted, OneAutoRestart
<1>2. QED  BY <1>1, OwnershipCorrect, PTL

\* An automatic restart never begins after a stop the panel accepted.
THEOREM PanelStopSticksCorrect == Spec => PanelStopSticks
<1>1. Ownership => (pc[Restarter] = "scan" /\ pc'[Restarter] = "prestart" => intent = "run")
  BY DEF Ownership, AutoWanted
<1>2. QED  BY <1>1, OwnershipCorrect, PTL DEF PanelStopSticks

\* What the table of states allows, as far as the runtime needs it.
LEMMA TableAllows ==
    ASSUME NEW s \in States
    PROVE  /\ CanTransition(s, s) /\ CanTransition(s, OFFLINE)
           /\ s # OFFLINE => CanTransition(s, CRASHED)
           /\ s \in {OFFLINE, CRASHED} => CanTransition(s, STARTING)
           /\ s \in {STARTING, UNKNOWN} => CanTransition(s, ONLINE)
           /\ s \in RunningStates => CanTransition(s, STOPPING)
  BY DEF CanTransition, AllowedTransitions, States, RunningStates, OFFLINE, STARTING,
     ONLINE, STOPPING, CRASHED, UNKNOWN

\* assert_transition never raises in the middle of a handler.
THEOREM LegalTransitionsCorrect == Spec => LegalTransitions
<1> DEFINE Legal == up /\ up' => CanTransition(state, state')
<1>1. TypeOK /\ TypeOK' /\ Ownership /\ [Next]_vars => Legal
  <2> SUFFICES ASSUME TypeOK, TypeOK', Ownership, [Next]_vars, up, up'
               PROVE  CanTransition(state, state')
    OBVIOUS
  <2>0. state \in States /\ StateHasAnOwner
    BY DEF TypeOK, Ownership
  <2> HIDE DEF Legal
  <2>1. ASSUME NEW t \in Tasks, StartAccepted(t) PROVE CanTransition(state, state')
    <3>1. sup = "none" /\ watch = "none" /\ adopted = 0
      BY <2>1 DEF StartAccepted, Ownership, FolderGuarded, StartPlaces, AdoptionQuiet
    <3>2. ~Launching
      BY <2>1 DEF StartAccepted, Launching, Ownership, LockDiscipline, HoldingPlaces
    <3>3. state \in {OFFLINE, CRASHED}
      BY <2>0, <3>1, <3>2 DEF StateHasAnOwner, IsRunning, RunningStates, States
    <3>4. QED  BY <2>0, <2>1, <3>3, TableAllows DEF StartAccepted
  <2>2. ASSUME NEW t \in Tasks, StopAccepted(t) \/ StopAdopted(t)
        PROVE  CanTransition(state, state')
    <3>1. state \in RunningStates
      BY <2>0, <2>2 DEF StopAccepted, StopAdopted, Running, StateHasAnOwner, IsRunning
    <3>2. state' = STOPPING
      BY <2>2 DEF StopAccepted, StopAdopted
    <3>3. QED  BY <2>0, <3>1, <3>2, TableAllows
  <2>3. ASSUME NEW t \in Tasks, StartFails(t) \/ AdoptedStopFinishes(t)
        PROVE  CanTransition(state, state')
    BY <2>0, <2>3, TableAllows DEF StartFails, FailStart, AdoptedStopFinishes
  <2>4. CASE WatchSetsOffline
    BY <2>0, <2>4, TableAllows DEF WatchSetsOffline
  <2>5. ASSUME NEW stable \in BOOLEAN, SuperviseConcludes(stable)
        PROVE  CanTransition(state, state')
    <3>1. state # OFFLINE
      BY <2>0, <2>5 DEF SuperviseConcludes, StateHasAnOwner, IsRunning, RunningStates,
         OFFLINE, STARTING, ONLINE, STOPPING, UNKNOWN
    <3>2. state' \in {CRASHED, OFFLINE}
      BY <2>5 DEF SuperviseConcludes
    <3>3. QED  BY <2>0, <3>1, <3>2, TableAllows
  <2>6. CASE ReadinessTimesOut \/ LogSaysReady
    <3>1. state' \in {state, ONLINE} /\ (state' # state => state = STARTING)
      BY <2>6 DEF ReadinessTimesOut, AssumeOnline, LogSaysReady, ReadyExpected
    <3>2. QED  BY <2>0, <3>1, TableAllows
  <2>7. CASE LogSaysStopping
    BY <2>0, <2>7, TableAllows DEF LogSaysStopping, RunningStates
  <2>8. CASE MsmStops \/ MsmBoots
    BY <2>8 DEF MsmStops, MsmBoots
  <2>9. CASE UNCHANGED state
    BY <2>0, <2>9, TableAllows
  <2>10. QED
    BY <2>1, <2>2, <2>3, <2>4, <2>5, <2>6, <2>7, <2>8, <2>9
       DEF Next, Request, StartStep, StartRefused, StartScans, OrphanFound,
           PreStartDone, SpawnProcess, StartInstalls, StopStep, StopRefused,
           StopCompletes, StopEscalates, StopKills, StopGivesUp, AdoptedStopKills,
           RestartResumes, Background, WatchNoticesDeath, SuperviseNoticesExit,
           RestartTimerFires, Environment, ServerExits, LauncherExits, memory, vars
<1>2. Legal => [up /\ up' => CanTransition(state, state')]_<<up, state>>
  OBVIOUS
<1> HIDE DEF Legal
<1>3. QED
  BY <1>1, <1>2, TypeCorrect, OwnershipCorrect, PTL DEF LegalTransitions, Spec

\* The automatic restart gives up, unless it also answers clean exits: an exit
\* with code zero is not counted.
THEOREM AutoRestartsBoundedCorrect ==
    ASSUME Mode # ALWAYS
    PROVE  Spec => []AutoRestartsBounded
<1> DEFINE Paid == CrashesPay /\ AutoRestartsBounded
<1>1. Init => Paid
  BY ConstantsAssumption
     DEF Init, CrashesPay, AutoRestartsBounded, RestartPending, Tasks, Idle
<1>2. TypeOK /\ Ownership /\ Paid /\ [Next]_vars => Paid'
  <2> SUFFICES ASSUME TypeOK, Ownership, Paid, [Next]_vars PROVE Paid'
    OBVIOUS
  <2>0. /\ autoRuns \in Nat /\ crashes \in Nat /\ MaxCrashes \in Nat
        /\ pc \in [Tasks -> Places] /\ Restarter \in Tasks
        /\ restart \in {"none", "sleeping"} /\ OneAutoRestart
    BY ConstantsAssumption DEF TypeOK, Tasks, OneAutoRestart, Ownership, AutoWanted
  <2> USE <2>0 DEF CrashesPay, AutoRestartsBounded, RestartPending
  <2>1. ASSUME NEW t \in Tasks, StartAccepted(t) PROVE Paid'
    <3>1. CASE t = Restarter
      BY <2>1, <3>1 DEF StartAccepted, CancelPendingRestart, Goto
    <3>2. CASE t # Restarter
      <4>1. pc'[Restarter] = pc[Restarter] /\ restart' = "none"
        BY <2>1, <3>2 DEF StartAccepted, CancelPendingRestart, Goto
      <4>2. autoRuns' = 0 /\ crashes' = crashes
        BY <2>1, <3>2 DEF StartAccepted
      <4>3. QED  BY <4>1, <4>2
    <3>3. QED  BY <3>1, <3>2
  <2>2. ASSUME NEW stable \in BOOLEAN, SuperviseConcludes(stable) PROVE Paid'
    <3>1. pc[Restarter] = Idle
      BY <2>2, NoRestartDuringExit DEF SuperviseConcludes, Ownership
    <3>2. /\ sup = "draining" /\ restart = "none" /\ pc' = pc
          /\ crashes' = CrashCount(stable, ~stopRequested /\ exit # "ok")
          /\ autoRuns' = IF stable THEN 0 ELSE autoRuns
      BY <2>2 DEF SuperviseConcludes, OneAutoRestart, tasks
    <3>3. crashes' \in Nat /\ autoRuns' \in Nat /\ autoRuns' <= crashes'
      BY <3>2 DEF CrashCount
    <3>4. ~RestartPending
      BY <3>1, <3>2 DEF Idle
    <3>5. CASE restart' = "none"
      BY <3>1, <3>2, <3>3, <3>5 DEF Idle
    <3>6. CASE restart' # "none"
      <4>1. /\ ShouldRestart(Mode, MaxCrashes, stopRequested, exit, crashes')
            /\ restart' = "sleeping"
        BY <2>2, <3>2, <3>6 DEF SuperviseConcludes
      <4>2. ~stopRequested /\ exit # "ok" /\ crashes' < MaxCrashes
        BY <4>1, ConstantsAssumption DEF ShouldRestart, Modes
      <4>3. autoRuns' + 1 <= crashes'
        BY <3>2, <3>4, <4>2 DEF CrashCount
      <4>4. autoRuns' = 0 \/ autoRuns' < MaxCrashes
        BY <3>2
      <4>5. RestartPending'
        BY <4>1
      <4> HIDE DEF RestartPending
      <4>6. QED  BY <3>3, <4>2, <4>3, <4>4, <4>5
    <3>7. QED  BY <3>5, <3>6
  <2>3. CASE RestartTimerFires
    <3>1. RestartPending /\ UNCHANGED <<autoRuns, crashes>>
      BY <2>3 DEF RestartTimerFires, history
    <3>2. RestartPending'
      BY <2>3 DEF RestartTimerFires, RequestLock
    <3> HIDE DEF RestartPending
    <3>3. QED  BY <3>1, <3>2
  <2>4. CASE MsmStops
    BY <2>4 DEF MsmStops, FreshMemory, Idle
  <2>5. ASSUME NEW t \in Tasks,
               \/ StartRefused(t) \/ StartScans(t) \/ OrphanFound(t)
               \/ PreStartDone(t) \/ StartFails(t) \/ SpawnProcess(t)
               \/ StartInstalls(t)
        PROVE  Paid'
    <3>1. /\ pc'[Restarter] \in {"lock", "scan"} => pc[Restarter] \in {"lock", "scan"}
          /\ UNCHANGED <<restart, autoRuns, crashes>>
      BY <2>5 DEF StartRefused, StartScans, OrphanFound, PreStartDone, StartFails,
         SpawnProcess, StartInstalls, Goto, Enters, Idle, memory, history
    <3>2. QED  BY <3>1
  <2>6. ASSUME NEW t \in Tasks, StopStep(t) PROVE Paid'
    <3>1. t # Restarter
      BY <2>6 DEF StopStep, Ownership, AutoWanted, StartPlaces, Idle, StopRefused,
         StopAccepted, StopCompletes, StopEscalates, StopKills, StopGivesUp,
         StopAdopted, AdoptedStopKills, AdoptedStopFinishes, RestartResumes, Enters
    <3>2. /\ pc'[Restarter] = pc[Restarter] /\ restart' \in {restart, "none"}
          /\ UNCHANGED <<autoRuns, crashes>>
      BY <2>6, <3>1 DEF StopStep, StopRefused, StopAccepted, StopCompletes,
         StopEscalates, StopKills, StopGivesUp, StopAdopted, AdoptedStopKills,
         AdoptedStopFinishes, RestartResumes, RequestLock, Goto, memory, history,
         CancelPendingRestart
    <3>3. QED  BY <3>2
  <2>7. ASSUME NEW c \in Clients, Request(c) PROVE Paid'
    BY <2>7, ConstantsAssumption DEF Request, RequestLock, memory, Tasks
  <2>8. CASE UNCHANGED <<pc, restart, crashes, autoRuns>>
    BY <2>8
  <2> HIDE DEF Paid
  <2>9. QED
    BY <2>1, <2>2, <2>3, <2>4, <2>5, <2>6, <2>7, <2>8
       DEF Next, StartStep, Background, WatchNoticesDeath, WatchSetsOffline,
           SuperviseNoticesExit, ReadinessTimesOut, Environment, LogSaysReady,
           LogSaysStopping, ServerExits, LauncherExits, MsmBoots, memory, tasks,
           history, vars
<1>3. Paid => AutoRestartsBounded
  OBVIOUS
<1> HIDE DEF Paid
<1>4. QED  BY <1>1, <1>2, <1>3, TypeCorrect, OwnershipCorrect, PTL DEF Spec

\* A start in progress is the start of the holder of the lock.
LEMMA LaunchingIsHolder ==
    ASSUME LockDiscipline, NEW t \in Tasks, lock = t
    PROVE  Launching <=> pc[t] \in {"prestart", "spawn", "spawned"}
  BY DEF LockDiscipline, HoldingPlaces, Launching

\* The panel's view of a server, as a function of the state of the runtime.
World == IF live = {} THEN "free" ELSE "held"
Phase == IF Launching THEN "launching"
         ELSE IF up /\ IsRunning(state) THEN "up" ELSE "down"

\* A step of the contract in terms of that view.
ViewStep ==
    \/ World' = World /\ Phase' = Phase /\ intent' = intent
    \/ Phase = "down" /\ Phase' = "launching" /\ World = "free" /\ World' = World
       /\ intent' = "run"
    \/ Phase = "launching" /\ Phase' = Phase /\ World = "free" /\ World' = "held"
       /\ intent' = intent
    \/ World = "held" /\ World' = "free" /\ Phase' = Phase /\ intent' = intent
    \/ Phase # "down" /\ Phase' \in {"up", "down"} /\ World' = World
       /\ intent' = intent
    \/ Phase = "up" /\ Phase' = Phase /\ World' = World /\ intent' = "stop"
    \/ Phase = "down" /\ Phase' = "up" /\ World = "held" /\ World' = World
       /\ intent' = intent

\* The runtime, with its lock, tasks, timers and signals, implements the panel's
\* contract.
THEOREM ContractImplemented == Spec => ImplementsContract
<1>1. Init => Contract!Init
  BY DEF Init, Contract!Init, Launching, Idle, IsRunning, RunningStates, OFFLINE,
     STARTING, ONLINE, STOPPING, UNKNOWN
<1>2. TypeOK /\ TypeOK' /\ Ownership /\ Ownership' /\ [Next]_vars => ViewStep
  <2> SUFFICES ASSUME TypeOK, TypeOK', Ownership, Ownership', [Next]_vars
               PROVE  ViewStep
    OBVIOUS
  <2>0. /\ LockDiscipline /\ LockDiscipline' /\ FolderGuarded /\ StateHasAnOwner
        /\ OneServerProcess /\ AutoWanted /\ DownIsBlank /\ AdoptionQuiet
        /\ StateHasAnOwner' /\ pc \in [Tasks -> Places] /\ Restarter \in Tasks
    BY DEF Ownership, TypeOK, Tasks
  <2>a. ~up => ~Launching
    BY <2>0 DEF DownIsBlank, Launching, Idle
  <2> USE <2>0, <2>a DEF ViewStep, World, Phase, Goto
  <2>1. ASSUME NEW t \in Tasks, StartAccepted(t) PROVE ViewStep
    <3>1. lock = t /\ ~Launching /\ Launching' /\ live = {} /\ live' = {}
      BY <2>1, LaunchingIsHolder
         DEF StartAccepted, OrphanInFolder, os, LockDiscipline, HoldingPlaces, Launching
    <3>2. Phase = "down"
      BY <2>1, <3>1
         DEF StartAccepted, FolderGuarded, StartPlaces, AdoptionQuiet, StateHasAnOwner
    <3>3. intent' = "run"
      BY <2>1 DEF StartAccepted, AutoWanted
    <3>4. QED  BY <3>1, <3>2, <3>3
  <2>2. ASSUME NEW t \in Tasks, StartFails(t) \/ StartInstalls(t) PROVE ViewStep
    <3>1. Launching /\ ~Launching' /\ live' = live /\ intent' = intent
      BY <2>2 DEF StartFails, StartInstalls, LockDiscipline, HoldingPlaces, Launching,
         os, history, Idle
    <3>2. QED  BY <3>1
  <2>3. ASSUME NEW t \in Tasks, SpawnProcess(t) PROVE ViewStep
    <3>1. Launching /\ Launching' /\ live = {} /\ live' # {} /\ intent' = intent
      BY <2>3 DEF SpawnProcess, FolderGuarded, Launching, history
    <3>2. QED  BY <3>1
  <2>4. ASSUME NEW t \in Tasks, StopAccepted(t) \/ StopAdopted(t) PROVE ViewStep
    <3>1. ~Launching /\ ~Launching' /\ live' = live
      BY <2>4 DEF StopAccepted, StopAdopted, Enters, LockDiscipline, HoldingPlaces,
         Launching
    <3>2. up /\ up' /\ IsRunning(state) /\ IsRunning(state')
      BY <2>4, <2>0 DEF StopAccepted, StopAdopted, Running, StateHasAnOwner,
         DownIsBlank, IsRunning, RunningStates
    <3>3. intent' = "stop"
      BY <2>4 DEF StopAccepted, StopAdopted
    <3>4. QED  BY <3>1, <3>2, <3>3
  <2>5. ASSUME NEW t \in Tasks, AdoptedStopFinishes(t) PROVE ViewStep
    <3>1. ~Launching /\ ~Launching' /\ ~IsRunning(state')
      BY <2>5 DEF AdoptedStopFinishes, AfterStop, LockDiscipline, HoldingPlaces,
         Launching, Idle, IsRunning, RunningStates, OFFLINE, STARTING, ONLINE,
         STOPPING, UNKNOWN
    <3>2. QED  BY <2>5, <3>1 DEF AdoptedStopFinishes, os, history
  <2>6. CASE WatchSetsOffline \/ \E stable \in BOOLEAN : SuperviseConcludes(stable)
    <3>1. /\ Launching' <=> Launching
          /\ live' = live /\ intent' = intent /\ up' = up
      BY <2>6 DEF WatchSetsOffline, SuperviseConcludes, os, tasks, history, Launching
    <3>2. ~Launching
      BY <2>6 DEF WatchSetsOffline, SuperviseConcludes, FolderGuarded, Launching,
         StartPlaces
    <3>3. ~IsRunning(state')
      BY <2>6 DEF WatchSetsOffline, SuperviseConcludes, IsRunning, RunningStates,
         OFFLINE, CRASHED, STARTING, ONLINE, STOPPING, UNKNOWN
    <3>4. QED  BY <3>1, <3>2, <3>3
  <2>7. CASE ReadinessTimesOut \/ LogSaysReady \/ LogSaysStopping
    <3>1. /\ Launching' <=> Launching
          /\ live' = live /\ intent' = intent /\ up' = up
      BY <2>7 DEF ReadinessTimesOut, LogSaysReady, LogSaysStopping, os, tasks, history,
         Launching
    <3>2. IsRunning(state') <=> IsRunning(state)
      BY <2>7 DEF ReadinessTimesOut, AssumeOnline, LogSaysReady, ReadyExpected,
         LogSaysStopping, IsRunning, RunningStates
    <3>3. QED  BY <3>1, <3>2
  <2>8. ASSUME NEW p \in live, ServerExits(p) PROVE ViewStep
    <3>1. live' = {} /\ live # {}
      BY <2>8 DEF ServerExits, OneServerProcess
    <3>2. /\ Launching' <=> Launching
          /\ state' = state /\ intent' = intent /\ up' = up
      BY <2>8 DEF ServerExits, memory, tasks, history, Launching
    <3>3. QED  BY <3>1, <3>2
  <2>9. CASE MsmStops
    <3>1. ~Launching' /\ live' = live /\ intent' = intent /\ ~up'
      BY <2>9 DEF MsmStops, FreshMemory, os, Launching, Idle
    <3>2. QED  BY <3>1
  <2>10. CASE MsmBoots
    <3>1. /\ ~Launching /\ ~Launching' /\ ~up
          /\ live' = live /\ intent' = intent
      BY <2>10 DEF MsmBoots, os, history, tasks, Launching
    <3>2. CASE live = {}
      <4>1. state' = OFFLINE
        BY <2>10, <3>2 DEF MsmBoots, DownIsBlank
      <4>2. QED  BY <3>1, <4>1 DEF IsRunning, RunningStates, OFFLINE, STARTING,
                 ONLINE, STOPPING, UNKNOWN
    <3>3. CASE live # {}
      BY <3>1, <3>3
    <3>4. QED  BY <3>2, <3>3
  <2>11. CASE /\ Launching' <=> Launching
              /\ UNCHANGED <<live, up, state, intent>>
    BY <2>11
  <2>12. ASSUME NEW t \in Tasks,
                \/ StartRefused(t) \/ StartScans(t) \/ OrphanFound(t)
                \/ PreStartDone(t) \/ StopRefused(t) \/ StopCompletes(t)
                \/ StopEscalates(t) \/ StopKills(t) \/ StopGivesUp(t)
                \/ AdoptedStopKills(t) \/ RestartResumes(t)
         PROVE  ViewStep
    <3>1. \A u \in Tasks : pc'[u] \in {"prestart", "spawn", "spawned"}
                      <=> pc[u] \in {"prestart", "spawn", "spawned"}
      BY <2>12 DEF StartRefused, StartScans, OrphanFound, PreStartDone, StopRefused,
         StopCompletes, StopEscalates, StopKills, StopGivesUp, AdoptedStopKills,
         RestartResumes, RequestLock, Enters, AfterStop, Idle
    <3>2. Launching' <=> Launching
      BY <3>1 DEF Launching
    <3>3. UNCHANGED <<live, up, state, intent>>
      BY <2>12 DEF StartRefused, StartScans, OrphanFound, PreStartDone, StopRefused,
         StopCompletes, StopEscalates, StopKills, StopGivesUp, AdoptedStopKills,
         RestartResumes, os, memory, history
    <3>4. QED  BY <3>2, <3>3
  <2>13. CASE RestartTimerFires \/ \E c \in Clients : Request(c)
    <3>1. \A u \in Tasks : pc'[u] \in {"prestart", "spawn", "spawned"}
                      <=> pc[u] \in {"prestart", "spawn", "spawned"}
      BY <2>13 DEF RestartTimerFires, Request, RequestLock, Idle
    <3>2. Launching' <=> Launching
      BY <3>1 DEF Launching
    <3>3. UNCHANGED <<live, up, state, intent>>
      BY <2>13 DEF RestartTimerFires, Request, os, memory, history
    <3>4. QED  BY <3>2, <3>3
  <2>14. CASE WatchNoticesDeath \/ SuperviseNoticesExit \/ LauncherExits
              \/ UNCHANGED vars
    BY <2>14 DEF WatchNoticesDeath, SuperviseNoticesExit, LauncherExits, vars, os,
       memory, tasks, history, Launching
  <2> HIDE <2>0, <2>a DEF ViewStep
  <2>15. QED
    BY <2>1, <2>2, <2>3, <2>4, <2>5, <2>6, <2>7, <2>8, <2>9, <2>10, <2>12, <2>13,
       <2>14
       DEF Next, StartStep, StopStep, Background, Environment
<1>3. ViewStep => [Contract!Next]_Contract!vars
  BY DEF ViewStep, World, Phase, Contract!Next, Contract!vars, Contract!UserLaunch,
     Contract!AutoLaunch, Contract!Take, Contract!Leave, Contract!Settled,
     Contract!UserStop, Contract!Adopt
<1>4. QED
  BY <1>1, <1>2, <1>3, TypeCorrect, OwnershipCorrect, PTL
     DEF Spec, ImplementsContract, Contract!Spec

-----------------------------------------------------------------------------
(***************************************************************************)
(* LogStream: the lines of the console, from the pipeline to the page.     *)
(***************************************************************************)
(***************************************************************************)
(* The elements of a sequence at some places.                              *)
(***************************************************************************)
Rank(P, i) == Cardinality({j \in P : j <= i})

\* The ranks of a finite set of numbers are the numbers up to its cardinality, and
\* follow their order.
LEMMA Ranks ==
    ASSUME NEW P \in SUBSET Nat, IsFiniteSet(P)
    PROVE  /\ Cardinality(P) \in Nat
           /\ \A i \in P : Rank(P, i) \in 1..Cardinality(P)
           /\ \A i, j \in P : i < j => Rank(P, i) < Rank(P, j)
           /\ \A k \in 1..Cardinality(P) : \E i \in P : Rank(P, i) = k
<1> DEFINE Upto(i) == {j \in P : j <= i}
           rank == [i \in P |-> Rank(P, i)]
<1>1. Cardinality(P) \in Nat
  BY FS_CardinalityType
<1>2. \A i \in P : IsFiniteSet(Upto(i)) /\ Cardinality(Upto(i)) \in Nat
                   /\ Cardinality(Upto(i)) <= Cardinality(P)
  <2> SUFFICES ASSUME NEW i \in P
               PROVE  IsFiniteSet(Upto(i)) /\ Cardinality(Upto(i)) \in Nat
                      /\ Cardinality(Upto(i)) <= Cardinality(P)
    OBVIOUS
  <2>1. Upto(i) \in SUBSET P
    OBVIOUS
  <2> HIDE DEF Upto
  <2>2. QED  BY <2>1, FS_Subset, FS_CardinalityType
<1>3. \A i \in P : Cardinality(Upto(i)) # 0
  <2> SUFFICES ASSUME NEW i \in P, Cardinality(Upto(i)) = 0 PROVE FALSE
    OBVIOUS
  <2>1. i \in Upto(i)
    OBVIOUS
  <2> HIDE DEF Upto
  <2>2. QED  BY <1>2, <2>1, FS_EmptySet
<1>4. \A i \in P : Rank(P, i) \in 1..Cardinality(P)
  <2> SUFFICES ASSUME NEW i \in P PROVE Rank(P, i) \in 1..Cardinality(P)
    OBVIOUS
  <2>1. Rank(P, i) = Cardinality(Upto(i))
    BY DEF Rank
  <2> HIDE DEF Upto
  <2>2. QED  BY <1>1, <1>2, <1>3, <2>1
<1>5. \A i, j \in P : i < j => Rank(P, i) < Rank(P, j)
  <2> SUFFICES ASSUME NEW i \in P, NEW j \in P, i < j PROVE Rank(P, i) < Rank(P, j)
    OBVIOUS
  <2>1. Upto(i) \in SUBSET Upto(j) /\ Upto(i) # Upto(j)
    <3>1. j \in Upto(j) /\ j \notin Upto(i)
      OBVIOUS
    <3>2. \A k \in Upto(i) : k \in Upto(j)
      OBVIOUS
    <3> HIDE DEF Upto
    <3>3. QED  BY <3>1, <3>2
  <2>2. Rank(P, i) = Cardinality(Upto(i)) /\ Rank(P, j) = Cardinality(Upto(j))
    BY DEF Rank
  <2> HIDE DEF Upto
  <2>3. Cardinality(Upto(i)) <= Cardinality(Upto(j)) /\ Cardinality(Upto(i)) # Cardinality(Upto(j))
    BY <1>2, <2>1, FS_Subset
  <2>4. QED  BY <1>2, <2>2, <2>3
<1>6. \A k \in 1..Cardinality(P) : \E i \in P : Rank(P, i) = k
  <2>1. rank \in Injection(P, 1..Cardinality(P))
    <3>1. \A i, j \in P : rank[i] = rank[j] => i = j
      <4> SUFFICES ASSUME NEW i \in P, NEW j \in P, Rank(P, i) = Rank(P, j) PROVE i = j
        OBVIOUS
      <4>1. i \in Nat /\ j \in Nat /\ Rank(P, i) \in Nat
        BY <1>4
      <4>2. QED  BY <1>5, <4>1
    <3>2. rank \in [P -> 1..Cardinality(P)]
      BY <1>4
    <3> HIDE DEF rank
    <3>3. QED  BY <3>1, <3>2 DEF Injection, IsInjective
  <2>2. IsFiniteSet(1..Cardinality(P)) /\ Cardinality(1..Cardinality(P)) = Cardinality(P)
    <3>1. 1 \in Int /\ Cardinality(P) \in Int
      BY <1>1
    <3>2. QED  BY <1>1, <3>1, FS_Interval
  <2>3. rank \in Surjection(P, 1..Cardinality(P))
    <3> HIDE DEF rank
    <3>1. QED  BY <2>1, <2>2, FS_Injection
  <2>4. QED  BY <2>3 DEF Surjection
<1>7. QED  BY <1>1, <1>4, <1>5, <1>6

\* At takes elements in their order, those at the places and no other.
LEMMA AtPicks ==
    ASSUME NEW S, NEW s \in Seq(S), NEW P \in SUBSET DOMAIN s
    PROVE  \E f \in [1..Cardinality(P) -> P] :
              /\ Cardinality(P) \in Nat
              /\ \A i, j \in 1..Cardinality(P) : i < j => f[i] < f[j]
              /\ \A p \in P : \E i \in 1..Cardinality(P) : f[i] = p
              /\ At(s, P) \in Seq(S) /\ Len(At(s, P)) = Cardinality(P)
              /\ \A i \in 1..Cardinality(P) : At(s, P)[i] = s[f[i]]
<1> DEFINE f == [k \in 1..Cardinality(P) |-> CHOOSE i \in P : Rank(P, i) = k]
<1>1. IsFiniteSet(P) /\ P \in SUBSET Nat
  <2>1. Len(s) \in Nat /\ DOMAIN s = 1..Len(s)
    OBVIOUS
  <2>2. IsFiniteSet(1..Len(s))
    <3>1. 1 \in Int /\ Len(s) \in Int
      BY <2>1
    <3>2. QED  BY <3>1, FS_Interval
  <2>3. P \in SUBSET (1..Len(s))
    BY <2>1
  <2>4. IsFiniteSet(P)
    BY <2>2, <2>3, FS_Subset
  <2>5. QED  BY <2>3, <2>4
<1>2. \A k \in 1..Cardinality(P) : f[k] \in P /\ Rank(P, f[k]) = k
  <2> SUFFICES ASSUME NEW k \in 1..Cardinality(P) PROVE f[k] \in P /\ Rank(P, f[k]) = k
    OBVIOUS
  <2>1. \E i \in P : Rank(P, i) = k
    BY <1>1, Ranks
  <2>2. QED  BY <2>1
<1>3. f \in [1..Cardinality(P) -> P]
  BY <1>2
<1>4. \A i, j \in 1..Cardinality(P) : i < j => f[i] < f[j]
  <2> SUFFICES ASSUME NEW i \in 1..Cardinality(P), NEW j \in 1..Cardinality(P), i < j
               PROVE  f[i] < f[j]
    OBVIOUS
  <2> HIDE DEF f
  <2>1. f[i] \in P /\ f[j] \in P /\ Rank(P, f[i]) = i /\ Rank(P, f[j]) = j
    BY <1>2
  <2>2. ~(f[j] < f[i]) /\ f[j] # f[i] /\ f[i] \in Nat /\ f[j] \in Nat
    BY <1>1, <2>1, Ranks
  <2>3. QED  BY <2>2
<1>5. \A p \in P : \E i \in 1..Cardinality(P) : f[i] = p
  <2> SUFFICES ASSUME NEW p \in P PROVE \E i \in 1..Cardinality(P) : f[i] = p
    OBVIOUS
  <2> HIDE DEF f
  <2>1. Rank(P, p) \in 1..Cardinality(P)
    BY <1>1, Ranks
  <2>2. f[Rank(P, p)] \in P /\ Rank(P, f[Rank(P, p)]) = Rank(P, p)
    BY <1>2, <2>1
  <2>3. ~(f[Rank(P, p)] < p) /\ ~(p < f[Rank(P, p)]) /\ p \in Nat /\ f[Rank(P, p)] \in Nat
    BY <1>1, <2>1, <2>2, Ranks
  <2>4. QED  BY <2>1, <2>3
<1>6. Cardinality(P) \in Nat
  BY <1>1, Ranks
<1>7. At(s, P) = [k \in 1..Cardinality(P) |-> s[f[k]]]
  BY DEF At, Rank
<1> HIDE DEF f
<1>8. \A k \in 1..Cardinality(P) : s[f[k]] \in S
  BY <1>2
<1>9. At(s, P) \in Seq(S) /\ Len(At(s, P)) = Cardinality(P)
      /\ \A i \in 1..Cardinality(P) : At(s, P)[i] = s[f[i]]
  BY <1>6, <1>7, <1>8
<1>10. QED  BY <1>3, <1>4, <1>5, <1>6, <1>9

-----------------------------------------------------------------------------
(***************************************************************************)
(* Sequences of events and their lines.                                    *)
(***************************************************************************)
LinesOf(s) == Range(s) \ {Status}

Precedes(x, y) == x.life < y.life \/ (x.life = y.life /\ x.seq < y.seq)

\* The lines of s are in the order of their printing; those of s are before those of t.
Ordered(s) ==
    \A i, j \in DOMAIN s : i < j /\ s[i] # Status /\ s[j] # Status => Precedes(s[i], s[j])
Before(s, t) == \A x \in LinesOf(s), y \in LinesOf(t) : Precedes(x, y)

LEMMA LineType ==
    /\ Lives \subseteq Nat \ {0} /\ 1..MaxHappenings \subseteq Nat \ {0}
    /\ Status \notin Lines /\ Status \in Events /\ Status.seq = 0
    /\ \A x \in Lines : /\ x.life \in Nat \ {0} /\ x.seq \in Nat \ {0}
                        /\ x.life \in Lives /\ x.seq \in 1..MaxHappenings
                        /\ x = [life |-> x.life, seq |-> x.seq]
    /\ \A s \in Seq(Lines) : s \in Seq(Events)
<1>1. MaxHappenings \in Nat /\ MaxLives \in Nat
  BY CapacitiesArePositive
<1>2. Lives \subseteq Nat \ {0} /\ 1..MaxHappenings \subseteq Nat \ {0}
  BY <1>1 DEF Lives
<1>3. \A x \in Lines : x.life \in Lives /\ x.seq \in 1..MaxHappenings
                       /\ x = [life |-> x.life, seq |-> x.seq]
  BY DEF Lines
<1>4. Status \notin Lines /\ Status.seq = 0
  BY <1>2, <1>3 DEF Status
<1>5. QED  BY <1>2, <1>3, <1>4 DEF Events

\* The lines of what is made of sequences.
LEMMA LineSets ==
    ASSUME NEW s \in Seq(Events), NEW t \in Seq(Events), NEW e \in Events
    PROVE  /\ LinesOf(s) \subseteq Lines /\ LinesOf(<<>>) = {}
           /\ LinesOf(Append(s, e)) = LinesOf(s) \cup ({e} \ {Status})
           /\ LinesOf(s \o t) = LinesOf(s) \cup LinesOf(t)
           /\ s # <<>> => LinesOf(s) = LinesOf(Tail(s)) \cup ({Head(s)} \ {Status})
           /\ s # <<>> => Tail(s) \in Seq(Events) /\ Head(s) \in Events
           /\ s \in Seq(Lines) => \A i \in DOMAIN s : s[i] \in LinesOf(s)
<1>1. /\ Range(s) \subseteq Events
      /\ Range(<<>>) = {}
      /\ Range(Append(s, e)) = Range(s) \cup {e}
  <2>1. Range(Append(s, e)) = Range(s) \cup {e}
    <3>1. Append(s, e) \in Seq(Events) /\ DOMAIN s = 1..Len(s) /\ Len(s) \in Nat
          /\ DOMAIN Append(s, e) = 1..Len(s) + 1
      OBVIOUS
    <3>2. \A i \in 1..Len(s) : Append(s, e)[i] = s[i]
      OBVIOUS
    <3>3. Append(s, e)[Len(s) + 1] = e
      OBVIOUS
    <3>4. QED  BY <3>1, <3>2, <3>3 DEF Range
  <2>2. QED  BY <2>1 DEF Range
<1>2. Range(s \o t) = Range(s) \cup Range(t)
  <2>1. /\ s \o t \in Seq(Events) /\ DOMAIN s = 1..Len(s) /\ DOMAIN t = 1..Len(t)
        /\ Len(s) \in Nat /\ Len(t) \in Nat /\ DOMAIN (s \o t) = 1..Len(s) + Len(t)
    OBVIOUS
  <2>2. \A i \in 1..Len(s) : (s \o t)[i] = s[i]
    OBVIOUS
  <2>3. \A i \in 1..Len(t) : (s \o t)[Len(s) + i] = t[i]
    OBVIOUS
  <2>4. \A i \in 1..Len(s) + Len(t) : i \in 1..Len(s) \/ (i - Len(s) \in 1..Len(t) /\ Len(s) + (i - Len(s)) = i)
    BY <2>1
  <2>5. Range(s) \subseteq Range(s \o t) /\ Range(t) \subseteq Range(s \o t)
    <3>1. \A i \in 1..Len(s) : i \in 1..Len(s) + Len(t)
      BY <2>1
    <3>2. \A i \in 1..Len(t) : Len(s) + i \in 1..Len(s) + Len(t)
      BY <2>1
    <3>3. QED  BY <2>1, <2>2, <2>3, <3>1, <3>2 DEF Range
  <2>6. \A i \in 1..Len(s) + Len(t) : (s \o t)[i] \in Range(s) \cup Range(t)
    <3> SUFFICES ASSUME NEW i \in 1..Len(s) + Len(t)
                 PROVE  (s \o t)[i] \in Range(s) \cup Range(t)
      OBVIOUS
    <3>1. CASE i \in 1..Len(s)
      BY <2>1, <2>2, <3>1 DEF Range
    <3>2. CASE i \notin 1..Len(s)
      BY <2>1, <2>3, <2>4, <3>2 DEF Range
    <3>3. QED  BY <3>1, <3>2
  <2>7. QED  BY <2>1, <2>5, <2>6 DEF Range
<1>3. ASSUME s # <<>> PROVE Range(s) = Range(Tail(s)) \cup {Head(s)} /\ Head(s) \in Events /\ Tail(s) \in Seq(Events)
  <2>1. /\ Tail(s) \in Seq(Events) /\ DOMAIN s = 1..Len(s) /\ DOMAIN Tail(s) = 1..Len(s) - 1
        /\ Len(s) \in Nat \ {0} /\ Head(s) = s[1]
    BY <1>3
  <2>2. \A i \in 1..Len(s) - 1 : Tail(s)[i] = s[i + 1]
    BY <1>3
  <2>3. \A i \in 1..Len(s) : i = 1 \/ (i - 1 \in 1..Len(s) - 1 /\ (i - 1) + 1 = i)
    BY <2>1
  <2>4. \A i \in 1..Len(s) - 1 : i + 1 \in 1..Len(s)
    BY <2>1
  <2>5. 1 \in 1..Len(s)
    BY <2>1
  <2>6. Range(Tail(s)) \subseteq Range(s) /\ Head(s) \in Range(s)
    BY <2>1, <2>2, <2>4, <2>5 DEF Range
  <2>7. \A i \in 1..Len(s) : s[i] \in Range(Tail(s)) \cup {Head(s)}
    <3> SUFFICES ASSUME NEW i \in 1..Len(s), i # 1 PROVE s[i] \in Range(Tail(s))
      BY <2>1
    <3>1. i - 1 \in 1..Len(s) - 1 /\ (i - 1) + 1 = i
      BY <2>3
    <3>2. QED  BY <2>1, <2>2, <3>1 DEF Range
  <2>8. QED  BY <2>1, <2>6, <2>7 DEF Range
<1>4. s \in Seq(Lines) => \A i \in DOMAIN s : s[i] \in LinesOf(s)
  <2>1. s \in Seq(Lines) => \A i \in DOMAIN s : s[i] \in Lines
    OBVIOUS
  <2>2. QED  BY <2>1, LineType DEF LinesOf, Range
<1>5. QED  BY <1>1, <1>2, <1>3, <1>4 DEF LinesOf, Events

\* Their order.
LEMMA Orders ==
    ASSUME NEW s \in Seq(Events), NEW t \in Seq(Events), NEW e \in Events
    PROVE  /\ Ordered(<<>>)
           /\ Ordered(s) /\ (\A x \in LinesOf(s) : e # Status => Precedes(x, e))
                 => Ordered(Append(s, e))
           /\ Ordered(s) /\ Ordered(t) /\ Before(s, t) => Ordered(s \o t)
           /\ Ordered(s) /\ s # <<>> =>
                 /\ Ordered(Tail(s))
                 /\ Head(s) # Status => \A y \in LinesOf(Tail(s)) : Precedes(Head(s), y)
<1>0. \A u \in Seq(Events) : \A i \in DOMAIN u : u[i] # Status => u[i] \in LinesOf(u)
  BY DEF LinesOf, Range
<1>1. ASSUME Ordered(s), \A x \in LinesOf(s) : e # Status => Precedes(x, e)
      PROVE  Ordered(Append(s, e))
  <2>1. /\ DOMAIN s = 1..Len(s) /\ Len(s) \in Nat /\ DOMAIN Append(s, e) = 1..Len(s) + 1
        /\ Append(s, e)[Len(s) + 1] = e
    OBVIOUS
  <2>2. \A i \in 1..Len(s) : Append(s, e)[i] = s[i]
    OBVIOUS
  <2>3. \A i, j \in 1..Len(s) + 1 : i < j => i \in 1..Len(s) /\ (j \in 1..Len(s) \/ j = Len(s) + 1)
    BY <2>1
  <2>4. QED  BY <1>0, <1>1, <2>1, <2>2, <2>3 DEF Ordered
<1>2. ASSUME Ordered(s), Ordered(t), Before(s, t)
      PROVE  Ordered(s \o t)
  <2>1. /\ DOMAIN s = 1..Len(s) /\ DOMAIN t = 1..Len(t) /\ Len(s) \in Nat /\ Len(t) \in Nat
        /\ DOMAIN (s \o t) = 1..Len(s) + Len(t)
    OBVIOUS
  <2>2. \A i \in 1..Len(s) + Len(t) : /\ i <= Len(s) => i \in 1..Len(s) /\ (s \o t)[i] = s[i]
                                      /\ i > Len(s) => i - Len(s) \in 1..Len(t) /\ (s \o t)[i] = t[i - Len(s)]
    OBVIOUS
  <2> SUFFICES ASSUME NEW i \in 1..Len(s) + Len(t), NEW j \in 1..Len(s) + Len(t), i < j,
                      (s \o t)[i] # Status, (s \o t)[j] # Status
               PROVE  Precedes((s \o t)[i], (s \o t)[j])
    BY <2>1 DEF Ordered
  <2>3. CASE j <= Len(s)
    BY <1>2, <2>1, <2>2, <2>3 DEF Ordered
  <2>4. CASE i > Len(s)
    <3>1. i - Len(s) < j - Len(s) /\ j > Len(s)
      BY <2>1, <2>4
    <3>2. QED  BY <1>2, <2>1, <2>2, <2>4, <3>1 DEF Ordered
  <2>5. CASE i <= Len(s) /\ j > Len(s)
    BY <1>0, <1>2, <2>1, <2>2, <2>5 DEF Before
  <2>6. QED  BY <2>1, <2>3, <2>4, <2>5
<1>3. ASSUME Ordered(s), s # <<>>
      PROVE  /\ Ordered(Tail(s))
             /\ Head(s) # Status => \A y \in LinesOf(Tail(s)) : Precedes(Head(s), y)
  <2>1. /\ DOMAIN s = 1..Len(s) /\ DOMAIN Tail(s) = 1..Len(s) - 1
        /\ Len(s) \in Nat \ {0} /\ Head(s) = s[1] /\ 1 \in 1..Len(s)
    BY <1>3
  <2>2. \A i \in 1..Len(s) - 1 : Tail(s)[i] = s[i + 1] /\ i + 1 \in 1..Len(s) /\ 1 < i + 1
    BY <1>3
  <2>3. Ordered(Tail(s))
    BY <1>3, <2>1, <2>2 DEF Ordered
  <2>4. QED  BY <1>3, <2>1, <2>2, <2>3 DEF Ordered, LinesOf, Range
<1>4. Ordered(<<>>)
  BY DEF Ordered
<1>5. QED  BY <1>1, <1>2, <1>3, <1>4
-----------------------------------------------------------------------------
(***************************************************************************)
(* What is taken of a history, of a run of lines, of a message.            *)
(***************************************************************************)
LEMMA AtOrders ==
    ASSUME NEW s \in Seq(Events), NEW P \in SUBSET DOMAIN s
    PROVE  /\ At(s, P) \in Seq(Events)
           /\ LinesOf(At(s, P)) = {s[p] : p \in P} \ {Status}
           /\ Ordered(s) => Ordered(At(s, P))
           /\ (\A p \in P : s[p] \in Lines) => At(s, P) \in Seq(Lines)
<1>1. PICK f \in [1..Cardinality(P) -> P] :
         /\ Cardinality(P) \in Nat
         /\ \A i, j \in 1..Cardinality(P) : i < j => f[i] < f[j]
         /\ \A p \in P : \E i \in 1..Cardinality(P) : f[i] = p
         /\ At(s, P) \in Seq(Events) /\ Len(At(s, P)) = Cardinality(P)
         /\ \A i \in 1..Cardinality(P) : At(s, P)[i] = s[f[i]]
  BY AtPicks
<1>2. DOMAIN At(s, P) = 1..Cardinality(P)
  BY <1>1
<1>3. Range(At(s, P)) = {s[p] : p \in P}
  <2> DEFINE t == At(s, P)
  <2>1. \A i \in DOMAIN t : f[i] \in P /\ t[i] = s[f[i]]
    BY <1>1, <1>2
  <2>2. \A p \in P : \E i \in DOMAIN t : f[i] = p /\ t[i] = s[p]
    BY <1>1, <1>2
  <2> HIDE DEF t
  <2>3. Range(t) \subseteq {s[p] : p \in P}
    BY <2>1 DEF Range
  <2>4. \A p \in P : s[p] \in Range(t)
    BY <2>2 DEF Range
  <2>5. {s[p] : p \in P} \subseteq Range(t)
    BY <2>4
  <2>6. QED  BY <2>3, <2>5 DEF t
<1>4. Ordered(s) => Ordered(At(s, P))
  BY <1>1, <1>2 DEF Ordered
<1>5. (\A p \in P : s[p] \in Lines) => At(s, P) \in Seq(Lines)
  <2> DEFINE t == At(s, P)
  <2> SUFFICES ASSUME \A p \in P : s[p] \in Lines PROVE t \in Seq(Lines)
    OBVIOUS
  <2>1. \A i \in 1..Len(t) : t[i] \in Lines
    BY <1>1
  <2>2. t \in Seq(Events)
    BY <1>1
  <2> HIDE DEF t
  <2>3. QED  BY <2>1, <2>2
<1>6. QED  BY <1>1, <1>3, <1>4, <1>5 DEF LinesOf

Numbers == 1..MaxHappenings

Rising(s) == \A i, j \in DOMAIN s : i < j => s[i] < s[j]

\* Numbers that rise up to the last one printed.
IsHistory(s) == s \in Seq(Numbers) /\ Rising(s) /\ \A i \in DOMAIN s : s[i] <= seq

LEMMA PartsOfHistory ==
    ASSUME NEW s, IsHistory(s), NEW a \in Nat \ {0}, NEW b \in Nat, b <= Len(s)
    PROVE  IsHistory(SubSeq(s, a, b))
<1> DEFINE t == SubSeq(s, a, b)
<1>1. s \in Seq(Numbers) /\ Len(s) \in Nat /\ DOMAIN s = 1..Len(s)
  BY DEF IsHistory
<1>2. Len(t) \in Nat /\ DOMAIN t = 1..Len(t) /\ t = [i \in 1..Len(t) |-> s[a + i - 1]]
  BY <1>1
<1>3. \A i \in DOMAIN t : t[i] = s[a + i - 1] /\ a + i - 1 \in DOMAIN s
  BY <1>1
<1> HIDE DEF t
<1>4. Rising(t) /\ \A i \in DOMAIN t : t[i] <= seq
  BY <1>1, <1>2, <1>3 DEF IsHistory, Rising
<1>5. t \in Seq(Numbers)
  <2>1. \A i \in DOMAIN s : s[i] \in Numbers
    BY <1>1
  <2>2. \A i \in 1..Len(t) : t[i] \in Numbers
    BY <1>2, <1>3, <2>1
  <2>3. t \in [1..Len(t) -> Numbers]
    BY <1>2, <2>2
  <2>4. QED  BY <1>2, <2>3
<1>6. QED  BY <1>4, <1>5 DEF IsHistory, t

LEMMA HistoryIsSent ==
    ASSUME IsHistory(buffer), NEW n \in Int
    PROVE  IsHistory(LogsSince(n)) /\ (n > 0 => IsHistory(LogsTail(n)))
<1>1. buffer \in Seq(Numbers) /\ Len(buffer) \in Nat
  BY DEF IsHistory
<1>2. n > 0 => IsHistory(LogsTail(n))
  <2> SUFFICES ASSUME n > 0 PROVE IsHistory(LogsTail(n))
    OBVIOUS
  <2>1. (IF n < Len(buffer) THEN Len(buffer) - n + 1 ELSE 1) \in Nat \ {0}
    BY <1>1
  <2>2. QED  BY <1>1, <2>1, PartsOfHistory DEF LogsTail
<1>3. IsHistory(LogsSince(n))
  <2> DEFINE P == {i \in DOMAIN buffer : buffer[i] > n}
             after == At(buffer, P)
  <2>1. P \in SUBSET DOMAIN buffer
    OBVIOUS
  <2> HIDE DEF P
  <2>2. PICK f \in [1..Cardinality(P) -> P] :
           /\ Cardinality(P) \in Nat
           /\ \A i, j \in 1..Cardinality(P) : i < j => f[i] < f[j]
           /\ \A p \in P : \E i \in 1..Cardinality(P) : f[i] = p
           /\ after \in Seq(Numbers) /\ Len(after) = Cardinality(P)
           /\ \A i \in 1..Cardinality(P) : after[i] = buffer[f[i]]
    BY <1>1, <2>1, AtPicks
  <2>3. DOMAIN after = 1..Cardinality(P)
    BY <2>2
  <2> HIDE DEF after
  <2>4. IsHistory(after)
    BY <2>1, <2>2, <2>3 DEF IsHistory, Rising
  <2>5. LogsSince(n) = SubSeq(after, 1, IF MaxBacklog < Len(after) THEN MaxBacklog ELSE Len(after))
    BY DEF LogsSince, after, P
  <2>6. (IF MaxBacklog < Len(after) THEN MaxBacklog ELSE Len(after)) \in Nat
    BY <2>2, CapacitiesArePositive
  <2>7. MaxBacklog \in Nat /\ Len(after) \in Nat
    BY <2>2, CapacitiesArePositive
  <2>8. QED  BY <2>4, <2>5, <2>6, <2>7, PartsOfHistory
<1>4. QED  BY <1>2, <1>3

\* The store keeps the lines past the last one it has, in their order.
LEMMA FreshLines ==
    ASSUME NEW s \in Seq(Lines), lastSeq \in Int
    PROVE  /\ Fresh(s) \in Seq(Lines)
           /\ LinesOf(Fresh(s)) = {x \in LinesOf(s) : x.seq > lastSeq}
           /\ Ordered(s) => Ordered(Fresh(s))
<1> DEFINE P == {i \in DOMAIN s : s[i].seq > lastSeq}
<1>1. s \in Seq(Events) /\ P \in SUBSET DOMAIN s /\ \A p \in P : s[p] \in Lines
  BY LineType
<1>2. Fresh(s) = At(s, P)
  BY DEF Fresh
<1>3. {s[p] : p \in P} \ {Status} = {x \in LinesOf(s) : x.seq > lastSeq}
  BY DEF LinesOf, Range
<1> HIDE DEF P
<1>4. QED  BY <1>1, <1>2, <1>3, AtOrders

\* The writer keeps the lines past the cursor; when they are of one numbering it keeps
\* them all.
LEMMA LinesPastCursor ==
    ASSUME NEW s \in Seq(Events), Ordered(s), cursor \in 0..MaxHappenings
    PROVE  LET past == PastCursor(s)
           IN  /\ past.out \in Seq(Lines) /\ Ordered(past.out)
               /\ LinesOf(past.out) \subseteq LinesOf(s)
               /\ past.cursor \in 0..MaxHappenings
               /\ past.cursor = cursor \/ \E x \in LinesOf(s) : past.cursor = x.seq
               /\ (\A x, y \in LinesOf(s) : x.life = y.life) =>
                     \A x \in LinesOf(s) : x.seq <= cursor \/ x \in LinesOf(past.out)
<1> DEFINE P == {i \in DOMAIN s : /\ s[i].seq > cursor
                                  /\ \A j \in 1..i - 1 : s[j].seq < s[i].seq}
           out == At(s, P)
<1>0. MaxHappenings \in Nat /\ cursor \in Nat
  BY CapacitiesArePositive
<1>1. P \in SUBSET DOMAIN s
  OBVIOUS
<1>2. \A p \in P : s[p] \in Lines
  <2> SUFFICES ASSUME NEW p \in P PROVE s[p] \in Lines
    OBVIOUS
  <2>1. s[p] \in Events /\ s[p].seq > cursor
    OBVIOUS
  <2>2. s[p] # Status
    BY <1>0, <2>1, LineType
  <2>3. QED  BY <2>1, <2>2 DEF Events
<1>3. PastCursor(s) = [cursor |-> IF out = <<>> THEN cursor ELSE Last(out).seq, out |-> out]
  BY DEF PastCursor
<1>4. ASSUME \A x, y \in LinesOf(s) : x.life = y.life, NEW x \in LinesOf(s), x.seq > cursor
      PROVE  x \in {s[p] : p \in P}
  <2>1. PICK i \in DOMAIN s : s[i] = x
    BY DEF LinesOf, Range
  <2>2. ASSUME NEW j \in 1..i - 1 PROVE s[j].seq < s[i].seq
    <3>1. j \in DOMAIN s /\ j < i /\ s[j] \in Events
      OBVIOUS
    <3>2. CASE s[j] = Status
      BY <1>0, <1>4, <2>1, <3>2, LineType, LineSets
    <3>3. CASE s[j] # Status
      <4>1. s[j] \in LinesOf(s) /\ x # Status
        BY <3>1, <3>3 DEF LinesOf, Range
      <4>2. Precedes(s[j], s[i]) /\ s[j].life = s[i].life
        BY <1>4, <2>1, <3>1, <3>3, <4>1 DEF Ordered
      <4>3. s[j].life \in Nat /\ s[i].life \in Nat
        BY <2>1, <4>1, LineType, LineSets
      <4>4. QED  BY <4>2, <4>3 DEF Precedes
    <3>4. QED  BY <3>2, <3>3
  <2>3. i \in P
    BY <1>4, <2>1, <2>2
  <2>4. QED  BY <2>1, <2>3
<1> HIDE DEF P
<1>5. /\ out \in Seq(Lines) /\ Ordered(out)
      /\ LinesOf(out) = {s[p] : p \in P} \ {Status}
  BY <1>1, <1>2, AtOrders
<1> HIDE DEF out
<1>6. LinesOf(out) \subseteq LinesOf(s)
  BY <1>1, <1>5 DEF LinesOf, Range
<1>7. out # <<>> => Last(out) \in LinesOf(out)
  <2> SUFFICES ASSUME out # <<>> PROVE Last(out) \in LinesOf(out)
    OBVIOUS
  <2>1. Len(out) \in DOMAIN out
    BY <1>5
  <2>2. QED  BY <1>5, <2>1, LineSets, LineType DEF Last
<1>8. \A x \in LinesOf(s) : x.seq \in 0..MaxHappenings
  BY <1>0, LineType, LineSets
<1>9. \A x \in LinesOf(s) : x.seq \in Nat /\ x # Status
  BY LineType, LineSets
<1>10. (\A x, y \in LinesOf(s) : x.life = y.life) =>
          \A x \in LinesOf(s) : x.seq <= cursor \/ x \in LinesOf(out)
  BY <1>0, <1>4, <1>5, <1>9
<1>11. /\ PastCursor(s).out = out
       /\ PastCursor(s).cursor = IF out = <<>> THEN cursor ELSE Last(out).seq
  BY <1>3
<1>12. /\ PastCursor(s).cursor \in 0..MaxHappenings
       /\ PastCursor(s).cursor = cursor \/ \E x \in LinesOf(s) : PastCursor(s).cursor = x.seq
  BY <1>6, <1>7, <1>8, <1>11
<1>13. QED  BY <1>5, <1>6, <1>10, <1>11, <1>12
-----------------------------------------------------------------------------
(***************************************************************************)
(* Types.                                                                  *)
(***************************************************************************)
LEMMA Bounds ==
    /\ HistoryLines \in Nat \ {0} /\ QueueSize \in Nat \ {0} /\ FlushLines \in Nat \ {0}
    /\ DefaultBacklog \in Nat \ {0} /\ MaxBacklog \in Nat \ {0}
    /\ MaxHappenings \in Nat /\ MaxLives \in Nat \ {0}
  BY CapacitiesArePositive

\* A line of the current numbering.
LEMMA CurrentLine ==
    ASSUME life \in Lives, NEW n \in Numbers
    PROVE  Line(n) \in Lines /\ Line(n) \in Events /\ Line(n).life = life /\ Line(n).seq = n
  BY DEF Line, Lines, Events, Numbers

\* What a queue becomes.
LEMMA Delivery ==
    ASSUME StreamTypeOK, NEW e \in Events, Deliver(e)
    PROVE  /\ queue' \in Seq(Events) /\ Len(queue') <= QueueSize
           /\ dropped' \in Nat /\ evicted' \in Nat
           /\ Ordered(queue) /\ (\A x \in LinesOf(queue) : e # Status => Precedes(x, e))
                 => Ordered(queue')
           /\ \/ /\ evicted' = evicted
                 /\ LinesOf(queue') = LinesOf(queue) \cup ({e} \ {Status})
              \/ /\ evicted' = evicted + 1 /\ queue # <<>>
                 /\ LinesOf(queue') = LinesOf(Tail(queue)) \cup ({e} \ {Status})
                 /\ LinesOf(queue) = LinesOf(Tail(queue)) \cup ({Head(queue)} \ {Status})
<1>1. queue \in Seq(Events) /\ Len(queue) \in Nat /\ Len(queue) <= QueueSize
      /\ QueueSize \in Nat \ {0} /\ dropped \in Nat /\ evicted \in Nat
  BY Bounds DEF StreamTypeOK
<1>2. CASE Len(queue) < QueueSize
  <2>1. queue' = Append(queue, e) /\ dropped' = dropped /\ evicted' = evicted
    BY <1>2 DEF Deliver
  <2>2. queue' \in Seq(Events) /\ Len(queue') = Len(queue) + 1
    BY <1>1, <2>1
  <2>3. /\ LinesOf(queue') = LinesOf(queue) \cup ({e} \ {Status})
        /\ Ordered(queue) /\ (\A x \in LinesOf(queue) : e # Status => Precedes(x, e)) => Ordered(queue')
    BY <1>1, <2>1, LineSets, Orders
  <2>4. QED  BY <1>1, <1>2, <2>1, <2>2, <2>3
<1>3. CASE ~(Len(queue) < QueueSize)
  <2>1. queue' = Append(Tail(queue), e) /\ dropped' = dropped + 1 /\ evicted' = evicted + 1
    BY <1>3 DEF Deliver
  <2>2. queue # <<>> /\ Tail(queue) \in Seq(Events) /\ Len(Tail(queue)) = Len(queue) - 1
    BY <1>1, <1>3
  <2>3. queue' \in Seq(Events) /\ Len(queue') = Len(queue)
    BY <1>1, <2>1, <2>2
  <2>4. /\ LinesOf(queue') = LinesOf(Tail(queue)) \cup ({e} \ {Status})
        /\ LinesOf(queue) = LinesOf(Tail(queue)) \cup ({Head(queue)} \ {Status})
    BY <1>1, <2>1, <2>2, LineSets
  <2>5. Ordered(queue) /\ (\A x \in LinesOf(queue) : e # Status => Precedes(x, e)) => Ordered(queue')
    BY <1>1, <2>1, <2>2, <2>4, Orders
  <2>6. QED  BY <1>1, <2>1, <2>3, <2>4, <2>5
<1>4. QED  BY <1>2, <1>3

\* What a flush does of the batch: it is split at a status, if there is one.
LEMMA FlushParts ==
    ASSUME StreamTypeOK, Ordered(batch), Flush
    PROVE  \E s \in Seq(Events) :
              LET past == PastCursor(s)
              IN  /\ Ordered(s) /\ Ordered(batch') /\ Before(s, batch')
                  /\ batch' \in Seq(Events) /\ Len(batch') <= FlushLines
                  /\ LinesOf(batch) = LinesOf(s) \cup LinesOf(batch')
                  /\ cursor' = past.cursor
                  /\ \/ outgoing' = outgoing \o past.out /\ wire' = wire /\ writer' = writer
                     \/ /\ outgoing' = <<>> /\ batch' = <<>> /\ writer' = "report"
                        /\ wire' = IF outgoing \o past.out = <<>> THEN wire
                                   ELSE Append(wire, LinesMessage(outgoing \o past.out))
<1> DEFINE first == IF Statuses(batch) = {} THEN Len(batch) + 1
                    ELSE CHOOSE i \in Statuses(batch) : \A j \in Statuses(batch) : i <= j
           s == SubSeq(batch, 1, first - 1)
<1>0. batch \in Seq(Events) /\ Len(batch) \in Nat /\ Len(batch) <= FlushLines /\ FlushLines \in Nat
      /\ DOMAIN batch = 1..Len(batch)
  BY Bounds DEF StreamTypeOK
<1>1. \/ Statuses(batch) = {} /\ first = Len(batch) + 1
      \/ first \in DOMAIN batch /\ batch[first] = Status
  <2> SUFFICES ASSUME Statuses(batch) # {}
               PROVE  \E i \in Statuses(batch) : \A j \in Statuses(batch) : i <= j
    BY DEF Statuses
  <2> DEFINE P == Statuses(batch)
  <2>1. P \in SUBSET (1..Len(batch)) /\ P \in SUBSET Nat
    BY <1>0 DEF Statuses
  <2>2. IsFiniteSet(1..Len(batch))
    <3>1. 1 \in Int /\ Len(batch) \in Int
      BY <1>0
    <3>2. QED  BY <3>1, FS_Interval
  <2> HIDE DEF P
  <2>3. IsFiniteSet(P)
    BY <2>1, <2>2, FS_Subset
  <2>4. Cardinality(P) \in Nat /\ Cardinality(P) # 0
    BY <2>3, FS_CardinalityType, FS_EmptySet DEF P
  <2>5. 1 \in 1..Cardinality(P)
    BY <2>4
  <2>6. PICK i \in P : Rank(P, i) = 1
    BY <2>1, <2>3, <2>5, Ranks
  <2>7. \A j \in P : i <= j
    <3> SUFFICES ASSUME NEW j \in P, ~(i <= j) PROVE FALSE
      OBVIOUS
    <3>1. i \in Nat /\ j \in Nat /\ j < i
      BY <2>1
    <3>2. Rank(P, j) < 1 /\ Rank(P, j) \in 1..Cardinality(P)
      BY <2>1, <2>3, <2>6, <3>1, Ranks
    <3>3. QED  BY <2>4, <3>2
  <2>8. QED  BY <2>6, <2>7 DEF P
<1>2. LET kept == PastCursor(s)
          lines == outgoing \o kept.out
      IN  /\ cursor' = kept.cursor
          /\ IF first <= Len(batch)
             THEN /\ batch' = SubSeq(batch, first + 1, Len(batch))
                  /\ outgoing' = lines
                  /\ UNCHANGED <<writer, wire>>
             ELSE /\ batch' = <<>>
                  /\ outgoing' = <<>>
                  /\ writer' = "report"
                  /\ wire' = IF lines = <<>> THEN wire ELSE Append(wire, LinesMessage(lines))
  BY Zenon DEF Flush
<1> HIDE DEF first
<1>3. CASE first = Len(batch) + 1
  <2>1. s = batch
    BY <1>0, <1>3
  <2>2. ~(first <= Len(batch))
    BY <1>0, <1>3
  <2> HIDE DEF s
  <2>3. batch' = <<>>
    BY <1>2, <2>2
  <2>4. LinesOf(<<>>) = {} /\ Ordered(<<>>)
    BY DEF LinesOf, Range, Ordered
  <2>5. batch' \in Seq(Events) /\ Len(batch') = 0 /\ LinesOf(batch') = {} /\ Ordered(batch')
    BY <2>3, <2>4
  <2>6. QED  BY <1>0, <1>2, <2>1, <2>2, <2>5 DEF Before
<1>4. CASE first \in DOMAIN batch /\ batch[first] = Status
  <2> DEFINE t == SubSeq(batch, first + 1, Len(batch))
  <2>1. /\ s \in Seq(Events) /\ DOMAIN s = 1..first - 1 /\ first \in Nat /\ first <= Len(batch)
        /\ \A i \in 1..first - 1 : s[i] = batch[i] /\ i \in DOMAIN batch
    BY <1>0, <1>4
  <2>2. /\ t \in Seq(Events) /\ Len(t) = Len(batch) - first /\ DOMAIN t = 1..Len(batch) - first
        /\ \A i \in 1..Len(batch) - first : t[i] = batch[first + i] /\ first + i \in DOMAIN batch
    BY <1>0, <1>4
  <2> HIDE DEF s, t
  <2>3. Ordered(s) /\ Ordered(t)
    <3>1. Ordered(s)
      BY <2>1 DEF Ordered
    <3>2. ASSUME NEW i \in DOMAIN t, NEW j \in DOMAIN t, i < j, t[i] # Status, t[j] # Status
          PROVE  Precedes(t[i], t[j])
      <4>1. /\ first + i \in DOMAIN batch /\ t[i] = batch[first + i]
            /\ first + j \in DOMAIN batch /\ t[j] = batch[first + j]
        BY <2>2, <3>2
      <4>2. first + i < first + j
        BY <2>1, <2>2, <3>2
      <4>3. QED  BY <3>2, <4>1, <4>2 DEF Ordered
    <3>3. QED  BY <3>1, <3>2 DEF Ordered
  <2>4. Before(s, t)
    <3> SUFFICES ASSUME NEW x \in LinesOf(s), NEW y \in LinesOf(t) PROVE Precedes(x, y)
      BY DEF Before
    <3>1. PICK i \in 1..first - 1 : batch[i] = x /\ i \in DOMAIN batch
      BY <2>1 DEF LinesOf, Range
    <3>2. PICK j \in 1..Len(batch) - first : batch[first + j] = y /\ first + j \in DOMAIN batch
      BY <2>2 DEF LinesOf, Range
    <3>3. i < first + j /\ x # Status /\ y # Status
      BY <1>0, <2>1, <3>1, <3>2 DEF LinesOf
    <3>4. QED  BY <3>1, <3>2, <3>3 DEF Ordered
  <2>5. LinesOf(batch) = LinesOf(s) \cup LinesOf(t)
    <3>1. Range(s) \subseteq Range(batch) /\ Range(t) \subseteq Range(batch)
      BY <2>1, <2>2 DEF Range
    <3>2. \A i \in DOMAIN batch : batch[i] \in Range(s) \cup Range(t) \cup {Status}
      <4> SUFFICES ASSUME NEW i \in DOMAIN batch, i # first
                   PROVE  batch[i] \in Range(s) \cup Range(t)
        BY <1>4
      <4>1. CASE i < first
        <5>1. i \in DOMAIN s
          BY <1>0, <2>1, <4>1
        <5>2. QED  BY <2>1, <5>1 DEF Range
      <4>2. CASE i > first
        <5>1. i - first \in DOMAIN t /\ first + (i - first) = i
          BY <1>0, <2>1, <2>2, <4>2
        <5>2. QED  BY <2>2, <5>1 DEF Range
      <4>3. QED  BY <1>0, <2>1, <4>1, <4>2
    <3>3. QED  BY <3>1, <3>2 DEF LinesOf, Range
  <2>6. batch' = t
    BY <1>2, <2>1 DEF t
  <2>7. Len(t) <= FlushLines
    BY <1>0, <2>1, <2>2
  <2>8. QED  BY <1>2, <2>1, <2>2, <2>3, <2>4, <2>5, <2>6, <2>7
<1>5. QED  BY <1>1, <1>3, <1>4
\* The parts of StreamTypeOK that a step disturbs apart.
PipelineTypes ==
    /\ life \in Lives /\ seq \in 0..MaxHappenings /\ seq <= happenings
    /\ happenings \in 0..MaxHappenings /\ statuses \in Nat
    /\ buffer \in Seq(Numbers) /\ Len(buffer) <= HistoryLines
FlowTypes ==
    /\ queue \in Seq(Events) /\ Len(queue) <= QueueSize
    /\ batch \in Seq(Events) /\ Len(batch) <= FlushLines
    /\ outgoing \in Seq(Lines) /\ wire \in Seq(Messages)
    /\ writer \in {"collect", "flush", "report"}
    /\ cursor \in 0..MaxHappenings /\ dropped \in Nat /\ evicted \in Nat
HandlerTypes ==
    /\ following \in BOOLEAN
    /\ inbox \in Seq(Requests)
    /\ handler \in {"idle", "greeting", "counting"} /\ resume \in Nat \cup {NoSeq}
    /\ followedFrom \in Nat \cup {NoSeq}
BrowserTypes ==
    /\ socket \in {"open", "closed"} /\ mounted \in BOOLEAN
    /\ lastSeq \in Nat \cup {NoSeq} /\ missed \in Nat
    /\ shown \in Seq(Lines)

LEMMA TypesApart == StreamTypeOK <=> PipelineTypes /\ FlowTypes /\ HandlerTypes /\ BrowserTypes
  BY DEF StreamTypeOK, PipelineTypes, FlowTypes, HandlerTypes, BrowserTypes, Numbers

LEMMA LinesMessageType ==
    ASSUME NEW s \in Seq(Lines)
    PROVE  LinesMessage(s) \in Messages /\ LinesMessage(s).lines = s
  BY DEF LinesMessage, Messages

LEMMA NoticeType ==
    ASSUME NEW n \in Nat
    PROVE  /\ TruncatedMessage(n) \in Messages /\ TruncatedMessage(n).lines = <<>>
           /\ DroppedMessage(n) \in Messages /\ DroppedMessage(n).lines = <<>>
  BY DEF TruncatedMessage, DroppedMessage, Messages

\* The history that answers a subscription.
LEMMA BacklogType ==
    ASSUME IsHistory(buffer), NEW n \in Int,
           NEW s, s = LogsSince(n) \/ (n > 0 /\ s = LogsTail(n)), life \in Lives
    PROVE  LET lines == [i \in DOMAIN s |-> Line(s[i])]
           IN  /\ lines \in Seq(Lines) /\ Ordered(lines)
               /\ \A x \in LinesOf(lines) : x.life = life /\ x.seq <= seq
               /\ s # <<>> => Last(s) \in Numbers
<1> DEFINE lines == [i \in DOMAIN s |-> Line(s[i])]
<1>1. IsHistory(s)
  BY HistoryIsSent
<1>2. s \in Seq(Numbers) /\ DOMAIN s = 1..Len(s) /\ Len(s) \in Nat /\ Rising(s)
      /\ \A i \in DOMAIN s : s[i] \in Numbers /\ s[i] <= seq
  BY <1>1 DEF IsHistory
<1>3. \A i \in DOMAIN s : Line(s[i]) \in Lines /\ Line(s[i]).life = life /\ Line(s[i]).seq = s[i]
  BY <1>2, CurrentLine
<1>4. lines \in Seq(Lines) /\ DOMAIN lines = DOMAIN s /\ \A i \in DOMAIN s : lines[i] = Line(s[i])
  BY <1>2, <1>3
<1> HIDE DEF lines
<1>5. Ordered(lines)
  BY <1>2, <1>3, <1>4 DEF Ordered, Precedes, Rising
<1>6. \A x \in LinesOf(lines) : x.life = life /\ x.seq <= seq
  BY <1>2, <1>3, <1>4 DEF LinesOf, Range
<1>7. s # <<>> => Last(s) \in Numbers
  BY <1>2 DEF Last
<1>8. QED  BY <1>4, <1>5, <1>6, <1>7 DEF lines

LEMMA FreshConnectionType ==
    ASSUME FreshConnection
    PROVE  FlowTypes' /\ following' \in BOOLEAN /\ handler' \in {"idle", "greeting", "counting"}
           /\ resume' \in Nat \cup {NoSeq} /\ followedFrom' \in Nat \cup {NoSeq}
<1>1. <<>> \in Seq(Events) /\ <<>> \in Seq(Lines) /\ <<>> \in Seq(Messages) /\ Len(<<>>) = 0
  OBVIOUS
<1>2. /\ queue' = <<>> /\ batch' = <<>> /\ outgoing' = <<>> /\ wire' = <<>>
      /\ writer' = "collect" /\ cursor' = 0 /\ dropped' = 0 /\ evicted' = 0
      /\ following' = FALSE /\ handler' = "idle" /\ resume' = NoSeq /\ followedFrom' = NoSeq
  BY DEF FreshConnection
<1>3. FlowTypes'
  BY <1>1, <1>2, Bounds DEF FlowTypes
<1>4. QED  BY <1>2, <1>3

LEMMA SubscribeType ==
    ASSUME BrowserTypes
    PROVE  SubscribeMessage \in Requests /\ UnsubscribeMessage \in Requests
  BY DEF BrowserTypes, SubscribeMessage, UnsubscribeMessage, Requests

\* The parts of the invariant that hold the types and the history.
Base == StreamTypeOK /\ IsHistory(buffer) /\ Ordered(batch)

LEMMA TypeStep ==
    ASSUME Base, [StreamNext]_streamVars
    PROVE  StreamTypeOK'
<1>0. /\ PipelineTypes /\ FlowTypes /\ HandlerTypes /\ BrowserTypes
      /\ StreamTypeOK /\ IsHistory(buffer) /\ Ordered(batch)
  BY TypesApart DEF Base
<1> SUFFICES PipelineTypes' /\ FlowTypes' /\ HandlerTypes' /\ BrowserTypes'
  BY TypesApart DEF StreamTypeOK, PipelineTypes, FlowTypes, HandlerTypes, BrowserTypes, Numbers
<1> USE DEF pipeline, subscription, writerVars, handlerVars, browser, bounds, streamHistory
<1>1. CASE Ingest
  <2>1. seq + 1 \in Numbers
    BY <1>0, <1>1, Bounds DEF Ingest, PipelineTypes, Numbers, Happens
  <2>2. /\ following => Deliver(Line(seq + 1))
        /\ ~following => UNCHANGED <<queue, dropped, evicted>>
        /\ UNCHANGED <<following, life, cursor, writer, batch, outgoing, inbox, handler, resume, wire,
                       browser, statuses, shown, followedFrom>>
        /\ Happens /\ seq' = seq + 1 /\ buffer' = Appended(seq + 1)
    BY <1>0, <1>1 DEF Ingest, HandlerTypes, Happens
  <2>3. Line(seq + 1) \in Events
    BY <1>0, <2>1, CurrentLine DEF PipelineTypes
  <2>4. queue' \in Seq(Events) /\ Len(queue') <= QueueSize /\ dropped' \in Nat /\ evicted' \in Nat
    BY <1>0, <2>2, <2>3, Delivery DEF FlowTypes, HandlerTypes
  <2>5. buffer' \in Seq(Numbers) /\ Len(buffer') <= HistoryLines
    BY <1>0, <2>1, <2>2, Bounds DEF PipelineTypes, Appended
  <2>6. QED  BY <1>0, <2>1, <2>2, <2>4, <2>5, Bounds DEF PipelineTypes, FlowTypes, HandlerTypes, BrowserTypes, Numbers, Happens
<1>2. CASE PublishStatus
  <2>1. queue' \in Seq(Events) /\ Len(queue') <= QueueSize /\ dropped' \in Nat /\ evicted' \in Nat
    BY <1>0, <1>2, Delivery, LineType DEF PublishStatus, Happens
  <2>2. QED  BY <1>0, <1>2, <2>1, Bounds DEF PublishStatus, PipelineTypes, FlowTypes, HandlerTypes, BrowserTypes, Happens
<1>3. CASE Resync
  BY <1>0, <1>3, Bounds DEF Resync, PipelineTypes, FlowTypes, HandlerTypes, BrowserTypes, Lives, Happens
<1>4. CASE Connect
  BY <1>0, <1>4, Bounds, FreshConnectionType, SubscribeType DEF Connect, PipelineTypes, HandlerTypes, BrowserTypes
<1>5. CASE Disconnect
  BY <1>0, <1>5, Bounds, FreshConnectionType DEF Disconnect, PipelineTypes, HandlerTypes, BrowserTypes, Happens
<1>6. CASE MsmRestarts
  BY <1>0, <1>6, Bounds, FreshConnectionType DEF MsmRestarts, PipelineTypes, HandlerTypes, BrowserTypes, Lives, Happens
<1>7. CASE Mount
  BY <1>0, <1>7, Bounds, SubscribeType DEF Mount, PipelineTypes, FlowTypes, HandlerTypes, BrowserTypes, Happens
<1>8. CASE Unmount
  <2>1. UnsubscribeMessage \in Requests /\ inbox \in Seq(Requests)
    BY <1>0, SubscribeType DEF HandlerTypes
  <2>2. inbox' \in Seq(Requests) /\ mounted' = FALSE
        /\ UNCHANGED <<pipeline, subscription, cursor, writerVars, handler, resume, wire,
                       socket, lastSeq, missed, statuses, streamHistory>>
        /\ happenings < MaxHappenings /\ happenings' = happenings + 1
    BY <1>8, <2>1 DEF Unmount, Happens
  <2>3. PipelineTypes'
    BY <1>0, <2>2, Bounds DEF PipelineTypes
  <2>4. FlowTypes' /\ HandlerTypes' /\ BrowserTypes'
    BY <1>0, <2>2 DEF FlowTypes, HandlerTypes, BrowserTypes
  <2>5. QED  BY <2>3, <2>4
<1>9. CASE HandleSubscribe
  <2>1. Head(inbox) \in Requests /\ Tail(inbox) \in Seq(Requests)
    BY <1>0, <1>9 DEF HandleSubscribe, HandlerTypes
  <2>2. Head(inbox).resume \in Nat \cup {NoSeq}
    BY <2>1 DEF Requests
  <2>3. /\ following' = TRUE /\ resume' = Head(inbox).resume /\ inbox' = Tail(inbox)
        /\ handler' = "greeting"
        /\ UNCHANGED <<pipeline, queue, dropped, cursor, writerVars, wire, browser, bounds,
                       streamHistory>>
    BY <1>9 DEF HandleSubscribe
  <2>4. QED  BY <1>0, <2>1, <2>2, <2>3 DEF PipelineTypes, FlowTypes, HandlerTypes, BrowserTypes
<1>10. CASE SendBacklog
  <2> DEFINE s == IF resume >= 0 THEN LogsSince(resume) ELSE LogsTail(DefaultBacklog)
             lines == [i \in DOMAIN s |-> Line(s[i])]
  <2>1. lines \in Seq(Lines) /\ (s # <<>> => Last(s) \in Numbers)
    <3>1. resume \in Int /\ DefaultBacklog \in Int /\ DefaultBacklog > 0 /\ life \in Lives
      BY <1>0, Bounds DEF HandlerTypes, PipelineTypes, NoSeq
    <3>2. s = LogsSince(resume) \/ s = LogsTail(DefaultBacklog)
      OBVIOUS
    <3> HIDE DEF s
    <3>3. QED  BY <1>0, <3>1, <3>2, BacklogType
  <2>2. \/ s # <<>> /\ cursor' = Last(s) /\ wire' = Append(wire, LinesMessage(lines))
        \/ cursor' = seq /\ wire' = wire
    BY <1>10 DEF SendBacklog
  <2> HIDE DEF s, lines
  <2>3. cursor' \in 0..MaxHappenings /\ wire' \in Seq(Messages)
    <3>1. LinesMessage(lines) \in Messages
      BY <2>1, LinesMessageType
    <3>2. wire \in Seq(Messages) /\ seq \in 0..MaxHappenings /\ MaxHappenings \in Nat
      BY <1>0, Bounds DEF FlowTypes, PipelineTypes
    <3>3. wire' \in Seq(Messages)
      BY <2>2, <3>1, <3>2
    <3>4. cursor' \in 0..MaxHappenings
      BY <2>1, <2>2, <3>2 DEF Numbers
    <3>5. QED  BY <3>3, <3>4
  <2>4. /\ UNCHANGED <<pipeline, subscription, writerVars, inbox, resume, browser, bounds, shown, evicted>>
        /\ handler' = "counting" /\ followedFrom' = seq
    BY <1>10 DEF SendBacklog
  <2>5. QED  BY <1>0, <2>3, <2>4, Bounds DEF PipelineTypes, FlowTypes, HandlerTypes, BrowserTypes
<1>11. CASE TellTruncated
  <2> DEFINE first == LogsTail(1)
  <2>1. IsHistory(first)
    BY <1>0, HistoryIsSent
  <2>2. \/ /\ resume >= 0 /\ first # <<>> /\ first[1] > resume + 1
           /\ wire' = Append(wire, TruncatedMessage(first[1] - resume - 1))
        \/ wire' = wire
    BY <1>11 DEF TellTruncated
  <2> HIDE DEF first
  <2>3. first # <<>> => first[1] \in Nat
    <3>1. first \in Seq(Numbers)
      BY <2>1 DEF IsHistory
    <3>2. first # <<>> => first[1] \in Numbers
      BY <3>1
    <3>3. QED  BY <3>2, Bounds DEF Numbers
  <2>4. wire' \in Seq(Messages)
    <3>1. CASE resume >= 0 /\ first # <<>> /\ first[1] > resume + 1
               /\ wire' = Append(wire, TruncatedMessage(first[1] - resume - 1))
      <4>1. first[1] - resume - 1 \in Nat
        BY <1>0, <2>3, <3>1 DEF HandlerTypes, NoSeq
      <4>2. QED  BY <1>0, <3>1, <4>1, NoticeType DEF FlowTypes
    <3>2. QED  BY <1>0, <2>2, <3>1 DEF FlowTypes
  <2>5. QED  BY <1>0, <1>11, <2>4 DEF TellTruncated, PipelineTypes, FlowTypes, HandlerTypes, BrowserTypes
<1>12. CASE HandleUnsubscribe
  <2>1. Tail(inbox) \in Seq(Requests)
    BY <1>0, <1>12 DEF HandleUnsubscribe, HandlerTypes
  <2>2. /\ following' = FALSE /\ cursor' = 0 /\ inbox' = Tail(inbox) /\ followedFrom' = NoSeq
        /\ UNCHANGED <<pipeline, queue, dropped, writerVars, handler, resume, wire, browser,
                       bounds, shown, evicted>>
    BY <1>12 DEF HandleUnsubscribe
  <2>3. 0 \in 0..MaxHappenings
    BY Bounds
  <2>4. PipelineTypes' /\ BrowserTypes'
    BY <1>0, <2>2 DEF PipelineTypes, BrowserTypes
  <2>5. FlowTypes'
    BY <1>0, <2>2, <2>3 DEF FlowTypes
  <2>6. HandlerTypes'
    BY <1>0, <2>1, <2>2 DEF HandlerTypes
  <2>7. QED  BY <2>4, <2>5, <2>6
<1>13. CASE WriterTakes
  BY <1>0, <1>13, Bounds DEF WriterTakes, PipelineTypes, FlowTypes, HandlerTypes, BrowserTypes
<1>14. CASE WindowEnds
  BY <1>0, <1>14 DEF WindowEnds, PipelineTypes, FlowTypes, HandlerTypes, BrowserTypes
<1>15. CASE Flush
  <2>1. PICK s \in Seq(Events) :
           /\ Ordered(s) /\ batch' \in Seq(Events) /\ Len(batch') <= FlushLines
           /\ cursor' = PastCursor(s).cursor
           /\ \/ outgoing' = outgoing \o PastCursor(s).out /\ wire' = wire /\ writer' = writer
              \/ /\ outgoing' = <<>> /\ writer' = "report"
                 /\ wire' = IF outgoing \o PastCursor(s).out = <<>> THEN wire
                            ELSE Append(wire, LinesMessage(outgoing \o PastCursor(s).out))
    BY <1>0, <1>15, FlushParts
  <2>2. PastCursor(s).out \in Seq(Lines) /\ PastCursor(s).cursor \in 0..MaxHappenings
    BY <1>0, <2>1, LinesPastCursor DEF FlowTypes
  <2>3. outgoing \o PastCursor(s).out \in Seq(Lines)
    BY <1>0, <2>2 DEF FlowTypes
  <2>4. LinesMessage(outgoing \o PastCursor(s).out) \in Messages
    BY <2>3, LinesMessageType
  <2>5. UNCHANGED <<pipeline, subscription, handlerVars, browser, bounds, streamHistory>>
    BY <1>15 DEF Flush
  <2>6. wire' \in Seq(Messages) /\ outgoing' \in Seq(Lines) /\ writer' \in {"collect", "flush", "report"}
    <3>1. /\ wire \in Seq(Messages) /\ outgoing \in Seq(Lines)
          /\ writer \in {"collect", "flush", "report"} /\ <<>> \in Seq(Lines)
      BY <1>0 DEF FlowTypes
    <3>2. \A m \in Messages : Append(wire, m) \in Seq(Messages)
      BY <3>1
    <3>3. QED  BY <2>1, <2>3, <2>4, <3>1, <3>2
  <2>7. QED  BY <1>0, <2>1, <2>2, <2>5, <2>6 DEF PipelineTypes, FlowTypes, HandlerTypes, BrowserTypes
<1>16. CASE ReportDropped
  BY <1>0, <1>16, NoticeType DEF ReportDropped, PipelineTypes, FlowTypes, HandlerTypes, BrowserTypes
<1>17. CASE Receive
  <2> DEFINE fresh == Fresh(Head(wire).lines)
  <2>1. Head(wire) \in Messages /\ Tail(wire) \in Seq(Messages)
    BY <1>0, <1>17 DEF Receive, FlowTypes
  <2>2. Head(wire).lines \in Seq(Lines) /\ Head(wire).missed \in Nat
    BY <2>1 DEF Messages
  <2>3. fresh \in Seq(Lines)
    BY <1>0, <2>2, FreshLines DEF BrowserTypes, NoSeq
  <2>4. /\ wire' = Tail(wire) /\ shown' = shown \o fresh
        /\ lastSeq' = IF fresh = <<>> THEN lastSeq ELSE Last(fresh).seq
        /\ missed' = missed + Head(wire).missed \/ missed' = missed
        /\ UNCHANGED <<pipeline, subscription, cursor, writerVars, handlerVars, socket, mounted,
                       bounds, followedFrom, evicted>>
    BY <1>17 DEF Receive
  <2> HIDE DEF fresh
  <2>5. fresh # <<>> => Last(fresh).seq \in Nat
    <3>1. fresh # <<>> => Last(fresh) \in Lines
      BY <2>3 DEF Last
    <3>2. QED  BY <3>1, LineType
  <2>6. lastSeq' \in Nat \cup {NoSeq} /\ missed' \in Nat /\ shown' \in Seq(Lines)
    BY <1>0, <2>2, <2>3, <2>4, <2>5 DEF BrowserTypes
  <2>7. QED  BY <1>0, <2>1, <2>4, <2>6 DEF PipelineTypes, FlowTypes, HandlerTypes, BrowserTypes
<1>18. CASE UNCHANGED streamVars
  BY <1>0, <1>18 DEF streamVars, PipelineTypes, FlowTypes, HandlerTypes, BrowserTypes
<1>19. QED
  BY <1>1, <1>2, <1>3, <1>4, <1>5, <1>6, <1>7, <1>8, <1>9, <1>10, <1>11, <1>12, <1>13,
     <1>14, <1>15, <1>16, <1>17, <1>18 DEF StreamNext, Server, Network, Page, Handler, Writer-----------------------------------------------------------------------------
(***************************************************************************)
(* The order in which lines travel.                                        *)
(***************************************************************************)
\* Lines the connection holds, and lines printed up to now.
InFlow == LinesOf(queue) \cup LinesOf(batch) \cup LinesOf(outgoing)
Past(x) == x.life < life \/ (x.life = life /\ x.seq <= seq)

FlowIsOrdered ==
    /\ Ordered(queue) /\ Ordered(batch) /\ Ordered(outgoing)
    /\ Before(batch, queue) /\ Before(outgoing, batch) /\ Before(outgoing, queue)
    /\ \A x \in InFlow : Past(x)

MessagesAreOrdered ==
    \A m \in DOMAIN wire : /\ Ordered(wire[m].lines)
                           /\ \A x \in LinesOf(wire[m].lines) : Past(x)

\* No line of the numbering k is to come after the message m.
Closed(k, m) ==
    /\ k < life
    /\ \A x \in InFlow : x.life # k
    /\ \A n \in DOMAIN wire : n > m => \A x \in LinesOf(wire[n].lines) : x.life # k

\* A message with lines of two numberings is the last one with lines of the first.
MixedCloses ==
    \A m \in DOMAIN wire : \A x, y \in LinesOf(wire[m].lines) :
        x.life < y.life => Closed(x.life, m)

\* A line shown is not past the last number the store has, or its numbering is over.
ShownIsBehind ==
    \A i \in DOMAIN shown : shown[i].seq <= lastSeq \/ Closed(shown[i].life, 0)

OrderInv ==
    /\ StreamTypeOK /\ IsHistory(buffer) /\ FlowIsOrdered /\ MessagesAreOrdered
    /\ MixedCloses /\ ShownIsBehind /\ ShownInOrder

LEMMA FlowTyped ==
    ASSUME StreamTypeOK
    PROVE  /\ life \in Nat \ {0} /\ seq \in Nat /\ lastSeq \in Int
           /\ queue \in Seq(Events) /\ batch \in Seq(Events) /\ outgoing \in Seq(Events)
           /\ LinesOf(queue) \subseteq Lines /\ LinesOf(batch) \subseteq Lines
           /\ LinesOf(outgoing) \subseteq Lines /\ InFlow \subseteq Lines
           /\ \A m \in Messages : m.lines \in Seq(Lines) /\ m.lines \in Seq(Events)
                                  /\ LinesOf(m.lines) \subseteq Lines
           /\ wire \in Seq(Messages)
           /\ \A m \in DOMAIN wire : wire[m] \in Messages
           /\ \A i \in DOMAIN shown : shown[i] \in Lines
<1>1. queue \in Seq(Events) /\ batch \in Seq(Events) /\ outgoing \in Seq(Lines)
      /\ wire \in Seq(Messages) /\ shown \in Seq(Lines)
  BY DEF StreamTypeOK
<1>2. \A s \in Seq(Events) : LinesOf(s) \subseteq Lines
  BY DEF LinesOf, Range, Events
<1>3. outgoing \in Seq(Events) /\ InFlow \subseteq Lines
  BY <1>1, <1>2, LineType DEF InFlow
<1>4. \A m \in Messages : m.lines \in Seq(Lines)
  BY DEF Messages
<1>5. \A m \in Messages : m.lines \in Seq(Events) /\ LinesOf(m.lines) \subseteq Lines
  BY <1>2, <1>4, LineType
<1>6. life \in Nat \ {0} /\ seq \in Nat /\ lastSeq \in Int
  <2>1. life \in Lives /\ seq \in 0..MaxHappenings /\ lastSeq \in Nat \cup {NoSeq}
    BY DEF StreamTypeOK
  <2>2. Lives \subseteq Nat \ {0}
    BY LineType
  <2>3. QED  BY <2>1, <2>2, Bounds DEF NoSeq
<1>7. QED  BY <1>1, <1>2, <1>3, <1>4, <1>5, <1>6

\* A step that leaves the browser alone and sends at most one message keeps what is
\* said of the messages and of what is shown.
LEMMA MessageSent ==
    ASSUME OrderInv, StreamTypeOK', life <= life',
           \A x \in Lines : Past(x) => Past(x)',
           shown' = shown, lastSeq' = lastSeq,
           \A x \in InFlow' : x \in InFlow \/ x.life >= life,
           NEW M \in Messages,
           wire' = wire \/ wire' = Append(wire, M),
           Ordered(M.lines), \A x \in LinesOf(M.lines) : Past(x)',
           \A x \in LinesOf(M.lines) : x \in InFlow \/ x.life >= life,
           \A x, y \in LinesOf(M.lines) : x.life < y.life =>
               x.life < life' /\ \A z \in InFlow' : z.life # x.life
    PROVE  MessagesAreOrdered' /\ MixedCloses' /\ ShownIsBehind' /\ ShownInOrder'
<1>1. /\ StreamTypeOK /\ MessagesAreOrdered /\ MixedCloses /\ ShownIsBehind /\ ShownInOrder
  BY DEF OrderInv
<1>2. /\ life \in Nat \ {0} /\ life' \in Nat \ {0}
      /\ \A m \in DOMAIN wire : wire[m] \in Messages
      /\ \A m \in Messages : LinesOf(m.lines) \subseteq Lines
      /\ wire \in Seq(Messages) /\ Len(wire) \in Nat /\ DOMAIN wire = 1..Len(wire)
      /\ \A i \in DOMAIN shown : shown[i] \in Lines
  <2>1. life' \in Nat \ {0}
    <3>1. life' \in Lives
      BY DEF StreamTypeOK
    <3>2. QED  BY <3>1, LineType
  <2>2. wire \in Seq(Messages)
    BY <1>1, FlowTyped
  <2>3. Len(wire) \in Nat /\ DOMAIN wire = 1..Len(wire)
    BY <2>2
  <2>4. QED  BY <1>1, <2>1, <2>2, <2>3, FlowTyped
<1>3. /\ \A m \in DOMAIN wire : m \in DOMAIN wire' /\ wire'[m] = wire[m]
      /\ \A m \in DOMAIN wire' : \/ m \in DOMAIN wire /\ wire'[m] = wire[m]
                                 \/ m = Len(wire) + 1 /\ wire'[m] = M /\ \A n \in DOMAIN wire' : n <= m
  BY <1>2
<1>4. MessagesAreOrdered'
  <2> SUFFICES ASSUME NEW m \in DOMAIN wire'
               PROVE  Ordered(wire'[m].lines) /\ \A x \in LinesOf(wire'[m].lines) : Past(x)'
    BY DEF MessagesAreOrdered
  <2>1. CASE m \in DOMAIN wire /\ wire'[m] = wire[m]
    <3>1. Ordered(wire[m].lines) /\ \A x \in LinesOf(wire[m].lines) : x \in Lines /\ Past(x)
      BY <1>1, <1>2, <2>1 DEF MessagesAreOrdered
    <3>2. QED  BY <2>1, <3>1
  <2>2. CASE wire'[m] = M
    BY <2>2
  <2>3. QED  BY <1>3, <2>1, <2>2
<1>5. ASSUME NEW k \in Nat, NEW m \in Nat, Closed(k, m)
      PROVE  Closed(k, m)'
  <2>1. k < life /\ k < life'
    BY <1>2, <1>5 DEF Closed
  <2>2. ASSUME NEW x \in InFlow' PROVE x.life # k
    BY <1>2, <1>5, <2>1, <2>2 DEF Closed
  <2>3. ASSUME NEW n \in DOMAIN wire', n > m, NEW x \in LinesOf(wire'[n].lines)
        PROVE  x.life # k
    <3>1. CASE n \in DOMAIN wire /\ wire'[n] = wire[n]
      BY <1>5, <2>3, <3>1 DEF Closed
    <3>2. CASE wire'[n] = M
      BY <1>2, <1>5, <2>1, <2>3, <3>2 DEF Closed
    <3>3. QED  BY <1>3, <3>1, <3>2
  <2>4. QED  BY <2>1, <2>2, <2>3 DEF Closed
<1>6. MixedCloses'
  <2> SUFFICES ASSUME NEW m \in DOMAIN wire', NEW x \in LinesOf(wire'[m].lines),
                      NEW y \in LinesOf(wire'[m].lines), x.life < y.life
               PROVE  Closed(x.life, m)'
    BY DEF MixedCloses
  <2>1. CASE m \in DOMAIN wire /\ wire'[m] = wire[m]
    <3>1. Closed(x.life, m) /\ x \in Lines
      BY <1>1, <1>2, <2>1 DEF MixedCloses
    <3>2. x.life \in Nat /\ m \in Nat
      BY <1>2, <2>1, <3>1, LineType
    <3>3. QED  BY <1>5, <3>1, <3>2
  <2>2. CASE wire'[m] = M /\ m = Len(wire) + 1 /\ \A n \in DOMAIN wire' : n <= m
    <3>1. DOMAIN wire' \subseteq Nat
      BY <1>2, <1>3
    <3>2. \A n \in DOMAIN wire' : ~(n > m)
      BY <1>2, <2>2, <3>1
    <3>3. x.life < life' /\ \A z \in InFlow' : z.life # x.life
      BY <2>2
    <3>4. QED  BY <3>2, <3>3 DEF Closed
  <2>3. QED  BY <1>3, <2>1, <2>2
<1>7. ShownIsBehind'
  <2> SUFFICES ASSUME NEW i \in DOMAIN shown
               PROVE  shown[i].seq <= lastSeq \/ Closed(shown[i].life, 0)'
    BY DEF ShownIsBehind
  <2>1. shown[i].life \in Nat
    BY <1>2, LineType
  <2>2. shown[i].seq <= lastSeq \/ Closed(shown[i].life, 0)
    BY <1>1 DEF ShownIsBehind
  <2>3. QED  BY <1>5, <2>1, <2>2
<1>8. ShownInOrder'
  BY <1>1 DEF ShownInOrder
<1>9. QED  BY <1>4, <1>6, <1>7, <1>8

\* A step that sends nothing.
LEMMA NothingSent ==
    ASSUME OrderInv, StreamTypeOK', life <= life',
           \A x \in Lines : Past(x) => Past(x)',
           shown' = shown, lastSeq' = lastSeq,
           \A x \in InFlow' : x \in InFlow \/ x.life >= life,
           NEW M \in Messages, M.lines = <<>>,
           wire' = wire \/ wire' = Append(wire, M)
    PROVE  MessagesAreOrdered' /\ MixedCloses' /\ ShownIsBehind' /\ ShownInOrder'
<1>1. Ordered(M.lines) /\ LinesOf(M.lines) = {}
  BY DEF Ordered, LinesOf, Range
<1>2. QED  BY <1>1, MessageSent
\* A step that touches neither the lines held nor the numbering.
LEMMA QuietStep ==
    ASSUME OrderInv, StreamTypeOK',
           UNCHANGED <<life, seq, buffer, queue, batch, outgoing, shown, lastSeq>>,
           NEW M \in Messages, M.lines = <<>>,
           wire' = wire \/ wire' = Append(wire, M)
    PROVE  OrderInv'
<1>1. IsHistory(buffer) /\ FlowIsOrdered /\ life \in Nat
  BY FlowTyped DEF OrderInv
<1>2. InFlow' = InFlow
  BY DEF InFlow
<1>3. \A x : Past(x) => Past(x)'
  BY DEF Past
<1>4. IsHistory(buffer)'
  BY <1>1 DEF IsHistory
<1>5. FlowIsOrdered'
  BY <1>1, <1>2, <1>3 DEF FlowIsOrdered
<1>6. life <= life'
  BY <1>1
<1>7. MessagesAreOrdered' /\ MixedCloses' /\ ShownIsBehind' /\ ShownInOrder'
  BY <1>2, <1>3, <1>6, NothingSent
<1>8. QED  BY <1>4, <1>5, <1>7 DEF OrderInv

\* A new event enters the queue.
LEMMA QueueStep ==
    ASSUME OrderInv, StreamTypeOK', NEW e \in Events, Deliver(e) \/ UNCHANGED <<queue, evicted>>,
           IsHistory(buffer)',
           life' = life, seq <= seq', batch' = batch, outgoing' = outgoing, wire' = wire,
           shown' = shown, lastSeq' = lastSeq,
           e = Status \/ (e.life = life /\ e.seq > seq /\ e.seq <= seq')
    PROVE  OrderInv'
<1>1. StreamTypeOK /\ IsHistory(buffer) /\ FlowIsOrdered
  BY DEF OrderInv
<1>2. /\ life \in Nat \ {0} /\ seq \in Nat /\ seq' \in Nat
      /\ InFlow \subseteq Lines /\ LinesOf(queue) \subseteq InFlow
      /\ LinesOf(batch) \subseteq InFlow /\ LinesOf(outgoing) \subseteq InFlow
  <2>1. seq' \in 0..MaxHappenings
    BY DEF StreamTypeOK
  <2>2. QED  BY <1>1, <2>1, FlowTyped, Bounds DEF InFlow
<1>3. \A x \in Lines : Past(x) => Past(x)'
  <2>1. \A x \in Lines : x.seq \in Nat
    BY LineType
  <2>2. QED  BY <1>2, <2>1 DEF Past
<1>4. LinesOf(queue') \subseteq LinesOf(queue) \cup ({e} \ {Status})
  BY <1>1, Delivery DEF LinesOf
<1>5. \A x \in InFlow : e # Status => Precedes(x, e)
  <2> SUFFICES ASSUME NEW x \in InFlow, e # Status PROVE Precedes(x, e)
    OBVIOUS
  <2>1. Past(x) /\ x.seq \in Nat /\ x.life \in Nat
    BY <1>1, <1>2, LineType DEF FlowIsOrdered
  <2>2. e.seq \in Nat
    BY LineType DEF Events
  <2>3. QED  BY <1>2, <2>1, <2>2 DEF Past, Precedes
<1>6. Ordered(queue')
  <2>1. Ordered(queue) /\ \A x \in LinesOf(queue) : e # Status => Precedes(x, e)
    BY <1>1, <1>2, <1>5 DEF FlowIsOrdered
  <2>2. CASE Deliver(e)
    BY <1>1, <2>1, <2>2, Delivery
  <2>3. QED  BY <2>1, <2>2
<1>7. InFlow' \subseteq InFlow \cup ({e} \ {Status})
  BY <1>4 DEF InFlow
<1>8. e # Status => Past(e)' /\ e.life >= life
  BY <1>2 DEF Past
<1>9. FlowIsOrdered'
  <2>1. Ordered(batch') /\ Ordered(outgoing') /\ Before(outgoing', batch')
    BY <1>1 DEF FlowIsOrdered
  <2>2. Before(batch', queue') /\ Before(outgoing', queue')
    BY <1>1, <1>2, <1>4, <1>5 DEF FlowIsOrdered, Before
  <2>3. \A x \in InFlow' : Past(x)'
    BY <1>1, <1>2, <1>3, <1>7, <1>8 DEF FlowIsOrdered
  <2>4. QED  BY <1>6, <2>1, <2>2, <2>3 DEF FlowIsOrdered
<1>10. \A x \in InFlow' : x \in InFlow \/ x.life >= life
  BY <1>7, <1>8
<1>11. TruncatedMessage(0) \in Messages /\ TruncatedMessage(0).lines = <<>>
  BY NoticeType
<1>12. life <= life'
  BY <1>2
<1>13. MessagesAreOrdered' /\ MixedCloses' /\ ShownIsBehind' /\ ShownInOrder'
  BY <1>3, <1>10, <1>11, <1>12, NothingSent
<1>14. QED  BY <1>9, <1>13 DEF OrderInv

\* A new numbering; the connection keeps its lines, or is gone.
LEMMA LifeStep ==
    ASSUME OrderInv, StreamTypeOK',
           UNCHANGED <<life, seq, buffer>> \/ (life' = life + 1 /\ buffer' = <<>>),
           \/ UNCHANGED <<queue, batch, outgoing, wire>>
           \/ queue' = <<>> /\ batch' = <<>> /\ outgoing' = <<>> /\ wire' = <<>>,
           shown' = shown, lastSeq' = lastSeq
    PROVE  OrderInv'
<1>1. /\ StreamTypeOK /\ IsHistory(buffer) /\ FlowIsOrdered /\ MessagesAreOrdered
      /\ MixedCloses /\ ShownIsBehind /\ ShownInOrder
  BY DEF OrderInv
<1>2. life \in Nat \ {0} /\ life' \in Nat /\ life <= life' /\ InFlow \subseteq Lines
  BY <1>1, FlowTyped
<1>3. \A x \in Lines : Past(x) => Past(x)'
  <2>1. \A x \in Lines : x.life \in Nat
    BY LineType
  <2>2. QED  BY <1>2, <2>1 DEF Past
<1>4. IsHistory(buffer)'
  <2>1. <<>> \in Seq(Numbers) /\ DOMAIN <<>> = {}
    OBVIOUS
  <2>2. QED  BY <1>1, <2>1 DEF IsHistory, Rising
<1>5. CASE UNCHANGED <<queue, batch, outgoing, wire>>
  <2>1. InFlow' = InFlow
    BY <1>5 DEF InFlow
  <2>2. FlowIsOrdered'
    BY <1>1, <1>2, <1>3, <1>5, <2>1 DEF FlowIsOrdered
  <2>3. TruncatedMessage(0) \in Messages /\ TruncatedMessage(0).lines = <<>>
    BY NoticeType
  <2>4. MessagesAreOrdered' /\ MixedCloses' /\ ShownIsBehind' /\ ShownInOrder'
    BY <1>2, <1>3, <1>5, <2>1, <2>3, NothingSent
  <2>5. QED  BY <1>4, <2>2, <2>4 DEF OrderInv
<1>6. CASE queue' = <<>> /\ batch' = <<>> /\ outgoing' = <<>> /\ wire' = <<>>
  <2>1. DOMAIN <<>> = {} /\ Range(<<>>) = {} /\ Ordered(<<>>)
    BY DEF Range, Ordered
  <2>2. InFlow' = {} /\ LinesOf(queue') = {} /\ LinesOf(batch') = {} /\ LinesOf(outgoing') = {}
    BY <1>6, <2>1 DEF InFlow, LinesOf
  <2>3. FlowIsOrdered'
    BY <1>6, <2>1, <2>2 DEF FlowIsOrdered, Before
  <2>4. MessagesAreOrdered' /\ MixedCloses'
    BY <1>6, <2>1 DEF MessagesAreOrdered, MixedCloses
  <2>5. ShownIsBehind'
    <3> SUFFICES ASSUME NEW i \in DOMAIN shown
                 PROVE  shown[i].seq <= lastSeq \/ Closed(shown[i].life, 0)'
      BY DEF ShownIsBehind
    <3>1. shown[i].life \in Nat
      BY <1>1, FlowTyped, LineType
    <3>2. CASE Closed(shown[i].life, 0)
      <4>1. shown[i].life < life'
        BY <1>2, <3>1, <3>2 DEF Closed
      <4>2. DOMAIN wire' = {}
        BY <1>6, <2>1
      <4>3. QED  BY <2>2, <4>1, <4>2 DEF Closed
    <3>3. QED  BY <1>1, <3>2 DEF ShownIsBehind
  <2>6. ShownInOrder'
    BY <1>1 DEF ShownInOrder
  <2>7. QED  BY <1>4, <2>3, <2>4, <2>5, <2>6 DEF OrderInv
<1>7. QED  BY <1>5, <1>6
\* The history sent is of the current numbering, which nothing follows.
LEMMA BacklogStep ==
    ASSUME OrderInv, StreamTypeOK', SendBacklog
    PROVE  /\ OrderInv'
           /\ \/ wire' = wire
              \/ \E M \in Messages :
                    /\ wire' = Append(wire, M)
                    /\ \A x \in LinesOf(M.lines) : x.life = life /\ x.seq <= seq
           /\ cursor' <= seq
           /\ UNCHANGED <<queue, batch, outgoing, life, seq, lastSeq, shown, following, evicted>>
           /\ followedFrom' = seq /\ handler' = "counting" /\ handler = "greeting"
<1>1. StreamTypeOK /\ IsHistory(buffer) /\ FlowIsOrdered /\ life \in Nat
  BY FlowTyped DEF OrderInv
<1> DEFINE s == IF resume >= 0 THEN LogsSince(resume) ELSE LogsTail(DefaultBacklog)
           lines == [i \in DOMAIN s |-> Line(s[i])]
<1>2. /\ lines \in Seq(Lines) /\ Ordered(lines)
      /\ \A x \in LinesOf(lines) : x.life = life /\ x.seq <= seq
      /\ s # <<>> => Last(s) <= seq
  <2>1. resume \in Int /\ DefaultBacklog \in Int /\ DefaultBacklog > 0 /\ life \in Lives
    BY <1>1, Bounds DEF StreamTypeOK, NoSeq
  <2>2. s = LogsSince(resume) \/ s = LogsTail(DefaultBacklog)
    OBVIOUS
  <2> HIDE DEF s
  <2>3. IsHistory(s)
    BY <1>1, <2>1, <2>2, HistoryIsSent
  <2>4. s # <<>> => Last(s) <= seq
    BY <2>3 DEF Last, IsHistory
  <2>5. QED  BY <1>1, <2>1, <2>2, <2>4, BacklogType
<1>3. \/ s # <<>> /\ cursor' = Last(s) /\ wire' = Append(wire, LinesMessage(lines))
      \/ cursor' = seq /\ wire' = wire
  BY DEF SendBacklog
<1>4. /\ UNCHANGED <<queue, batch, outgoing, life, seq, buffer, lastSeq, shown, following, evicted>>
      /\ followedFrom' = seq /\ handler' = "counting" /\ handler = "greeting"
  BY DEF SendBacklog, pipeline, subscription, writerVars, browser
<1> HIDE DEF s, lines
<1>5. cursor' <= seq
  <2>1. seq \in Nat
    BY <1>1, FlowTyped
  <2>2. QED  BY <1>2, <1>3, <2>1
<1>6. PICK M \in Messages : /\ M.lines = lines
                            /\ wire' = wire \/ wire' = Append(wire, M)
  BY <1>2, <1>3, LinesMessageType
<1>7. InFlow' = InFlow
  BY <1>4 DEF InFlow
<1>8. \A x : Past(x) => Past(x)'
  BY <1>4 DEF Past
<1>9. FlowIsOrdered' /\ IsHistory(buffer)'
  <2>1. FlowIsOrdered'
    BY <1>1, <1>4, <1>7, <1>8 DEF FlowIsOrdered
  <2>2. QED  BY <1>1, <1>4, <2>1 DEF IsHistory
<1>10. \A x \in LinesOf(M.lines) : Past(x)' /\ x.life >= life /\ x.life = life /\ x.seq <= seq
  BY <1>1, <1>2, <1>4, <1>6 DEF Past
<1>11. \A x, y \in LinesOf(M.lines) : ~(x.life < y.life)
  BY <1>1, <1>10
<1>12. MessagesAreOrdered' /\ MixedCloses' /\ ShownIsBehind' /\ ShownInOrder'
  <2>1. Ordered(M.lines) /\ life <= life'
    BY <1>1, <1>2, <1>4, <1>6
  <2>2. QED  BY <1>4, <1>6, <1>7, <1>8, <1>10, <1>11, <2>1, MessageSent
<1>13. OrderInv'
  BY <1>9, <1>12 DEF OrderInv
<1>14. QED  BY <1>4, <1>5, <1>6, <1>10, <1>13

\* The writer takes the head of the queue.
LEMMA TakeStep ==
    ASSUME OrderInv, StreamTypeOK', WriterTakes
    PROVE  /\ OrderInv'
           /\ LinesOf(queue') \cup LinesOf(batch') = LinesOf(queue) \cup LinesOf(batch)
           /\ UNCHANGED <<cursor, outgoing, wire, life, seq, lastSeq, shown, followedFrom, evicted,
                          following, handler>>
<1>1. StreamTypeOK /\ IsHistory(buffer) /\ FlowIsOrdered /\ life \in Nat
  BY FlowTyped DEF OrderInv
<1>2. /\ queue # <<>> /\ batch' = Append(batch, Head(queue)) /\ queue' = Tail(queue)
      /\ UNCHANGED <<cursor, outgoing, wire, life, seq, buffer, lastSeq, shown, followedFrom,
                     evicted, following, handler>>
  BY DEF WriterTakes, pipeline, handlerVars, browser, streamHistory
<1> DEFINE e == Head(queue)
<1>3. queue \in Seq(Events) /\ batch \in Seq(Events)
  BY <1>1, FlowTyped
<1>4. /\ e \in Events
      /\ LinesOf(batch') = LinesOf(batch) \cup ({e} \ {Status})
      /\ LinesOf(queue) = LinesOf(queue') \cup ({e} \ {Status})
  <2>1. e \in Events
    BY <1>2, <1>3, LineSets, LineType
  <2>2. QED  BY <1>2, <1>3, <2>1, LineSets
<1> HIDE DEF e
<1>5. /\ Ordered(queue') /\ Ordered(batch')
      /\ e # Status => \A y \in LinesOf(queue') : Precedes(e, y)
  <2>1. Ordered(queue) /\ Ordered(batch) /\ Before(batch, queue)
    BY <1>1 DEF FlowIsOrdered
  <2>2. \A x \in LinesOf(batch) : e # Status => Precedes(x, e)
    BY <1>4, <2>1 DEF Before
  <2>3. Ordered(batch')
    BY <1>2, <1>3, <1>4, <2>1, <2>2, Orders DEF e
  <2>4. Ordered(queue') /\ (e # Status => \A y \in LinesOf(queue') : Precedes(e, y))
    BY <1>2, <1>3, <1>4, <2>1, Orders DEF e
  <2>5. QED  BY <2>3, <2>4
<1>6. LinesOf(queue') \cup LinesOf(batch') = LinesOf(queue) \cup LinesOf(batch)
  BY <1>4
<1>7. InFlow' = InFlow
  BY <1>2, <1>6 DEF InFlow
<1>8. \A x : Past(x) => Past(x)'
  BY <1>2 DEF Past
<1>9. FlowIsOrdered' /\ IsHistory(buffer)'
  <2>1. Before(batch', queue')
    BY <1>1, <1>4, <1>5 DEF FlowIsOrdered, Before
  <2>2. Before(outgoing', batch') /\ Before(outgoing', queue') /\ Ordered(outgoing')
    BY <1>1, <1>2, <1>4 DEF FlowIsOrdered, Before
  <2>3. FlowIsOrdered'
    BY <1>1, <1>5, <1>7, <1>8, <2>1, <2>2 DEF FlowIsOrdered
  <2>4. QED  BY <1>1, <1>2, <2>3 DEF IsHistory
<1>10. TruncatedMessage(0) \in Messages /\ TruncatedMessage(0).lines = <<>>
  BY NoticeType
<1>11. MessagesAreOrdered' /\ MixedCloses' /\ ShownIsBehind' /\ ShownInOrder'
  <2>1. life <= life'
    BY <1>1, <1>2
  <2>2. QED  BY <1>2, <1>7, <1>8, <1>10, <2>1, NothingSent
<1>12. QED  BY <1>2, <1>6, <1>9, <1>11 DEF OrderInv

\* The lines sent by a flush come before those that stay; when there is one numbering,
\* none of the batch past the cursor is left out.
LEMMA FlushStep ==
    ASSUME OrderInv, StreamTypeOK', Flush
    PROVE  /\ OrderInv'
           /\ UNCHANGED <<queue, life, seq, lastSeq, shown, followedFrom, evicted, following, handler>>
           /\ LinesOf(batch') \subseteq LinesOf(batch)
           /\ \E s \in Seq(Events) :
                 /\ LinesOf(s) \subseteq LinesOf(batch) /\ Before(s, batch')
                 /\ cursor' = cursor \/ \E x \in LinesOf(s) : cursor' = x.seq
                 /\ LinesOf(outgoing') \subseteq LinesOf(outgoing) \cup LinesOf(s)
                 /\ \/ /\ wire' = wire
                       /\ LinesOf(outgoing) \subseteq LinesOf(outgoing')
                       /\ (\A x, y \in LinesOf(batch) : x.life = y.life) =>
                             \A x \in LinesOf(batch) : \/ x.seq <= cursor
                                                       \/ x \in LinesOf(batch') \cup LinesOf(outgoing')
                    \/ \E M \in Messages :
                          /\ wire' = Append(wire, M)
                          /\ LinesOf(batch') = {} /\ LinesOf(outgoing') = {}
                          /\ LinesOf(outgoing) \subseteq LinesOf(M.lines)
                          /\ LinesOf(M.lines) \subseteq LinesOf(outgoing) \cup LinesOf(batch)
                          /\ (\A x, y \in LinesOf(batch) : x.life = y.life) =>
                                \A x \in LinesOf(batch) : x.seq <= cursor \/ x \in LinesOf(M.lines)
<1>1. /\ StreamTypeOK /\ IsHistory(buffer) /\ FlowIsOrdered /\ life \in Nat /\ Ordered(batch)
      /\ cursor \in 0..MaxHappenings
  BY FlowTyped DEF OrderInv, FlowIsOrdered, StreamTypeOK
<1>2. UNCHANGED <<queue, life, seq, buffer, lastSeq, shown, followedFrom, evicted, following, handler>>
  BY DEF Flush, pipeline, subscription, handlerVars, browser, streamHistory
<1>3. PICK s \in Seq(Events) :
         /\ Ordered(s) /\ Ordered(batch') /\ Before(s, batch')
         /\ batch' \in Seq(Events)
         /\ LinesOf(batch) = LinesOf(s) \cup LinesOf(batch')
         /\ cursor' = PastCursor(s).cursor
         /\ \/ outgoing' = outgoing \o PastCursor(s).out /\ wire' = wire /\ writer' = writer
            \/ /\ outgoing' = <<>> /\ batch' = <<>> /\ writer' = "report"
               /\ wire' = IF outgoing \o PastCursor(s).out = <<>> THEN wire
                          ELSE Append(wire, LinesMessage(outgoing \o PastCursor(s).out))
  BY <1>1, FlushParts
<1> DEFINE out == PastCursor(s).out
           lines == outgoing \o out
<1>4. /\ out \in Seq(Lines) /\ Ordered(out) /\ LinesOf(out) \subseteq LinesOf(s)
      /\ cursor' = cursor \/ \E x \in LinesOf(s) : cursor' = x.seq
      /\ (\A x, y \in LinesOf(s) : x.life = y.life) =>
            \A x \in LinesOf(s) : x.seq <= cursor \/ x \in LinesOf(out)
  BY <1>1, <1>3, LinesPastCursor
<1>5. \/ outgoing' = lines /\ wire' = wire
      \/ /\ outgoing' = <<>> /\ batch' = <<>>
         /\ wire' = IF lines = <<>> THEN wire ELSE Append(wire, LinesMessage(lines))
  BY <1>3
<1> HIDE DEF out
<1>6. outgoing \in Seq(Lines) /\ lines \in Seq(Lines)
  BY <1>1, <1>4 DEF StreamTypeOK
<1>7. LinesOf(lines) = LinesOf(outgoing) \cup LinesOf(out) /\ Ordered(lines)
  <2>1. outgoing \in Seq(Events) /\ out \in Seq(Events)
    BY <1>4, <1>6, LineType
  <2>2. Ordered(outgoing) /\ Before(outgoing, out)
    BY <1>1, <1>3, <1>4 DEF FlowIsOrdered, Before
  <2>3. QED  BY <1>4, <2>1, <2>2, LineSets, Orders, LineType
<1> HIDE DEF lines
<1>8. LinesMessage(lines) \in Messages /\ LinesMessage(lines).lines = lines
  BY <1>6, LinesMessageType
<1>9. LinesOf(<<>>) = {} /\ Ordered(<<>>)
  BY DEF LinesOf, Range, Ordered
<1>10. LinesOf(outgoing') \subseteq LinesOf(outgoing) \cup LinesOf(s)
  BY <1>4, <1>5, <1>7, <1>9
<1>11. InFlow' \subseteq InFlow
  BY <1>2, <1>3, <1>10 DEF InFlow
<1>12. \A x : Past(x) => Past(x)'
  BY <1>2 DEF Past
<1>13. FlowIsOrdered' /\ IsHistory(buffer)'
  <2>1. Ordered(outgoing') /\ Ordered(queue') /\ Ordered(batch')
    BY <1>1, <1>2, <1>3, <1>5, <1>7, <1>9 DEF FlowIsOrdered
  <2>2. Before(batch', queue')
    BY <1>1, <1>2, <1>3 DEF FlowIsOrdered, Before
  <2>3. Before(outgoing', batch') /\ Before(outgoing', queue')
    BY <1>1, <1>2, <1>3, <1>10 DEF FlowIsOrdered, Before
  <2>4. FlowIsOrdered'
    BY <1>1, <1>11, <1>12, <2>1, <2>2, <2>3 DEF FlowIsOrdered
  <2>5. QED  BY <1>1, <1>2, <2>4 DEF IsHistory
<1>14. MessagesAreOrdered' /\ MixedCloses' /\ ShownIsBehind' /\ ShownInOrder'
  <2>1. life <= life'
    BY <1>1, <1>2
  <2>2. CASE wire' = wire
    <3>1. TruncatedMessage(0) \in Messages /\ TruncatedMessage(0).lines = <<>>
      BY NoticeType
    <3>2. QED  BY <1>2, <1>11, <1>12, <2>1, <2>2, <3>1, NothingSent
  <2>3. CASE wire' = Append(wire, LinesMessage(lines)) /\ outgoing' = <<>> /\ batch' = <<>>
    <3>1. \A x \in LinesOf(lines) : x \in InFlow /\ Past(x)
      BY <1>1, <1>3, <1>4, <1>7 DEF FlowIsOrdered, InFlow
    <3>2. ASSUME NEW x \in LinesOf(lines), NEW y \in LinesOf(lines), x.life < y.life
          PROVE  x.life < life' /\ \A z \in InFlow' : z.life # x.life
      <4>1. x \in Lines /\ y \in Lines
        BY <1>1, <3>1, FlowTyped
      <4>2. x.life \in Nat /\ y.life \in Nat
        BY <4>1, LineType
      <4>3. x.life < life
        BY <1>1, <3>1, <3>2, <4>2 DEF Past
      <4>4. ASSUME NEW z \in InFlow' PROVE z.life # x.life
        <5>1. z \in LinesOf(queue) /\ z \in Lines
          BY <1>1, <1>2, <1>9, <2>3, FlowTyped DEF InFlow
        <5>2. z.life \in Nat
          BY <5>1, LineType
        <5>3. Precedes(y, z)
          BY <1>1, <1>3, <1>4, <1>7, <5>1 DEF FlowIsOrdered, Before
        <5>4. QED  BY <3>2, <4>2, <5>2, <5>3 DEF Precedes
      <4>5. QED  BY <1>2, <4>3, <4>4
    <3>3. QED  BY <1>2, <1>7, <1>8, <1>11, <1>12, <2>1, <2>3, <3>1, <3>2, MessageSent
  <2>4. QED  BY <1>5, <2>2, <2>3
<1>15. (\A x, y \in LinesOf(batch) : x.life = y.life) =>
          \A x \in LinesOf(batch) : x.seq <= cursor \/ x \in LinesOf(batch') \/ x \in LinesOf(out)
  BY <1>3, <1>4
<1>16. OrderInv'
  BY <1>13, <1>14 DEF OrderInv
<1>17. LinesOf(batch') \subseteq LinesOf(batch) /\ LinesOf(s) \subseteq LinesOf(batch)
  BY <1>3
<1>18. CASE outgoing' = lines /\ wire' = wire
  BY <1>2, <1>3, <1>4, <1>7, <1>10, <1>15, <1>16, <1>17, <1>18
<1>19. CASE outgoing' = <<>> /\ batch' = <<>> /\ wire' = Append(wire, LinesMessage(lines))
  <2>1. LinesOf(LinesMessage(lines).lines) = LinesOf(outgoing) \cup LinesOf(out)
    BY <1>7, <1>8
  <2>2. LinesOf(batch') = {} /\ LinesOf(outgoing') = {}
    BY <1>9, <1>19
  <2>3. QED  BY <1>2, <1>3, <1>4, <1>8, <1>10, <1>15, <1>16, <1>17, <1>19, <2>1, <2>2
<1>20. CASE outgoing' = <<>> /\ batch' = <<>> /\ wire' = wire /\ lines = <<>>
  <2>1. LinesOf(outgoing) = {} /\ LinesOf(out) = {}
    BY <1>7, <1>9, <1>20
  <2>2. LinesOf(batch') = {} /\ LinesOf(outgoing') = {}
    BY <1>9, <1>20
  <2>3. QED  BY <1>2, <1>3, <1>4, <1>10, <1>15, <1>16, <1>17, <1>20, <2>1, <2>2
<1>21. QED  BY <1>5, <1>18, <1>19, <1>20
\* The store takes the lines of the first message past the last number it has.
LEMMA ReceiveStep ==
    ASSUME OrderInv, StreamTypeOK', Receive
    PROVE  /\ OrderInv'
           /\ UNCHANGED <<queue, batch, outgoing, life, seq, cursor, followedFrom, evicted,
                          following, handler>>
           /\ lastSeq' = lastSeq \/ \E x \in LinesOf(wire[1].lines) : lastSeq' = x.seq
           /\ Range(shown) \subseteq Range(shown')
           /\ \A x \in LinesOf(wire[1].lines) : x.seq <= lastSeq \/ x \in Range(shown')
           /\ \A m \in DOMAIN wire' : m + 1 \in DOMAIN wire /\ wire'[m] = wire[m + 1]
           /\ \A m \in DOMAIN wire : m = 1 \/ (m - 1 \in DOMAIN wire' /\ wire'[m - 1] = wire[m])
           /\ 1 \in DOMAIN wire
<1>1. /\ StreamTypeOK /\ IsHistory(buffer) /\ FlowIsOrdered /\ MessagesAreOrdered
      /\ MixedCloses /\ ShownIsBehind /\ ShownInOrder
  BY DEF OrderInv
<1>2. /\ wire \in Seq(Messages) /\ lastSeq \in Int /\ life \in Nat
      /\ \A m \in DOMAIN wire : wire[m] \in Messages
      /\ \A m \in Messages : m.lines \in Seq(Lines) /\ LinesOf(m.lines) \subseteq Lines
      /\ shown \in Seq(Lines) /\ \A i \in DOMAIN shown : shown[i] \in Lines
  BY <1>1, FlowTyped DEF StreamTypeOK
<1> DEFINE fresh == Fresh(wire[1].lines)
<1>3. /\ wire # <<>> /\ wire' = Tail(wire) /\ shown' = shown \o fresh
      /\ lastSeq' = IF fresh = <<>> THEN lastSeq ELSE Last(fresh).seq
      /\ UNCHANGED <<queue, batch, outgoing, life, seq, buffer, cursor, followedFrom, evicted,
                     following, handler>>
  <2>1. wire # <<>> /\ Head(wire) = wire[1]
    BY <1>2 DEF Receive
  <2>2. QED  BY <2>1 DEF Receive, pipeline, subscription, writerVars, handlerVars
<1>4. /\ 1 \in DOMAIN wire /\ DOMAIN wire \subseteq Nat \ {0} /\ DOMAIN wire' \subseteq Nat \ {0}
      /\ \A m \in DOMAIN wire' : m + 1 \in DOMAIN wire /\ wire'[m] = wire[m + 1]
      /\ \A m \in DOMAIN wire : m = 1 \/ (m - 1 \in DOMAIN wire' /\ wire'[m - 1] = wire[m])
  BY <1>2, <1>3
<1>5. /\ fresh \in Seq(Lines) /\ Ordered(fresh)
      /\ LinesOf(fresh) = {x \in LinesOf(wire[1].lines) : x.seq > lastSeq}
  <2>1. wire[1].lines \in Seq(Lines) /\ Ordered(wire[1].lines)
    BY <1>1, <1>2, <1>4 DEF MessagesAreOrdered
  <2>2. QED  BY <1>2, <2>1, FreshLines
<1> HIDE DEF fresh
<1>6. /\ \A j \in DOMAIN fresh : fresh[j] \in LinesOf(fresh) /\ fresh[j] \in Lines
                                 /\ fresh[j].seq \in Nat /\ fresh[j].life \in Nat
      /\ DOMAIN fresh = 1..Len(fresh) /\ Len(fresh) \in Nat
      /\ DOMAIN shown = 1..Len(shown) /\ Len(shown) \in Nat
  <2>1. \A j \in DOMAIN fresh : fresh[j] \in Lines /\ fresh[j] # Status
    BY <1>5, LineType
  <2>2. \A j \in DOMAIN fresh : fresh[j] \in LinesOf(fresh)
    BY <2>1 DEF LinesOf, Range
  <2>3. \A j \in DOMAIN fresh : fresh[j].seq \in Nat /\ fresh[j].life \in Nat
    BY <2>1, LineType
  <2>4. QED  BY <1>2, <1>5, <2>1, <2>2, <2>3
<1>7. /\ fresh # <<>> => Len(fresh) \in DOMAIN fresh /\ Last(fresh) = fresh[Len(fresh)]
                         /\ lastSeq' = fresh[Len(fresh)].seq
      /\ fresh = <<>> => lastSeq' = lastSeq /\ DOMAIN fresh = {}
  BY <1>3, <1>5 DEF Last
<1>8. lastSeq <= lastSeq' /\ lastSeq' \in Int
  <2>1. CASE fresh = <<>>
    BY <1>2, <1>7, <2>1
  <2>2. CASE fresh # <<>>
    <3>1. fresh[Len(fresh)] \in LinesOf(fresh) /\ fresh[Len(fresh)].seq \in Nat
      BY <1>6, <1>7, <2>2
    <3>2. QED  BY <1>2, <1>5, <1>7, <2>2, <3>1
  <2>3. QED  BY <2>1, <2>2
<1>9. \A j \in DOMAIN fresh : fresh[j].seq <= lastSeq' \/ fresh[j].life < fresh[Len(fresh)].life
  <2> SUFFICES ASSUME NEW j \in DOMAIN fresh
               PROVE  fresh[j].seq <= lastSeq' \/ fresh[j].life < fresh[Len(fresh)].life
    OBVIOUS
  <2>1. fresh # <<>> /\ Len(fresh) \in DOMAIN fresh /\ lastSeq' = fresh[Len(fresh)].seq
    BY <1>7
  <2>2. j = Len(fresh) \/ j < Len(fresh)
    BY <1>6
  <2>3. j < Len(fresh) => Precedes(fresh[j], fresh[Len(fresh)])
    <3>1. fresh[j] # Status /\ fresh[Len(fresh)] # Status
      BY <1>6, <2>1 DEF LinesOf
    <3>2. QED  BY <1>5, <2>1, <3>1 DEF Ordered
  <2>4. fresh[j].seq \in Nat /\ fresh[Len(fresh)].seq \in Nat
    BY <1>6, <2>1
  <2>5. QED  BY <2>1, <2>2, <2>3, <2>4 DEF Precedes
<1>10. InFlow' = InFlow
  BY <1>3 DEF InFlow
<1>11. ASSUME NEW k \in Nat, NEW m \in Nat, Closed(k, m + 1) \/ (m = 0 /\ Closed(k, 0))
       PROVE  Closed(k, m)'
  <2>1. k < life' /\ \A x \in InFlow' : x.life # k
    BY <1>3, <1>10, <1>11 DEF Closed
  <2>2. ASSUME NEW n \in DOMAIN wire', n > m, NEW x \in LinesOf(wire'[n].lines)
        PROVE  x.life # k
    <3>1. n + 1 \in DOMAIN wire /\ wire'[n] = wire[n + 1] /\ n \in Nat
      BY <1>4
    <3>2. n + 1 > m + 1 /\ (m = 0 => n + 1 > 0)
      BY <2>2, <3>1
    <3>3. QED  BY <1>11, <2>2, <3>1, <3>2 DEF Closed
  <2>3. QED  BY <2>1, <2>2 DEF Closed
<1>12. \A i \in DOMAIN shown' : \/ i \in DOMAIN shown /\ shown'[i] = shown[i]
                                \/ i > Len(shown) /\ i - Len(shown) \in DOMAIN fresh
                                   /\ shown'[i] = fresh[i - Len(shown)]
  BY <1>2, <1>3, <1>5, <1>6
<1>13. ShownIsBehind'
  <2> SUFFICES ASSUME NEW i \in DOMAIN shown'
               PROVE  \E k \in Nat : /\ k = shown'[i].life
                                     /\ shown'[i].seq <= lastSeq' \/ Closed(k, 0)'
    BY DEF ShownIsBehind, Closed
  <2>1. CASE i \in DOMAIN shown /\ shown'[i] = shown[i]
    <3>1. shown[i].life \in Nat /\ shown[i].seq \in Nat
      BY <1>2, <2>1, LineType
    <3>2. CASE shown[i].seq <= lastSeq
      BY <1>2, <1>8, <2>1, <3>1, <3>2
    <3>3. CASE Closed(shown[i].life, 0)
      <4>1. PICK k \in Nat : k = shown[i].life
        BY <3>1
      <4>2. Closed(k, 0)
        BY <3>3, <4>1
      <4>3. 0 \in Nat
        OBVIOUS
      <4>4. Closed(k, 0)'
        BY <1>11, <4>2, <4>3
      <4>5. QED  BY <2>1, <4>1, <4>4
    <3>4. QED  BY <1>1, <2>1, <3>2, <3>3 DEF ShownIsBehind
  <2>2. CASE i - Len(shown) \in DOMAIN fresh /\ shown'[i] = fresh[i - Len(shown)]
    <3>0. PICK j \in DOMAIN fresh : shown'[i] = fresh[j]
      BY <2>2
    <3>1. CASE fresh[j].seq <= lastSeq'
      BY <1>6, <3>0, <3>1
    <3>2. CASE fresh[j].life < fresh[Len(fresh)].life
      <4>1. Len(fresh) \in DOMAIN fresh
        BY <1>7
      <4>2. fresh[j] \in LinesOf(wire[1].lines) /\ fresh[Len(fresh)] \in LinesOf(wire[1].lines)
        BY <1>5, <1>6, <4>1
      <4>3. Closed(fresh[j].life, 1)
        BY <1>1, <1>4, <3>2, <4>2 DEF MixedCloses
      <4>4. PICK k \in Nat : k = fresh[j].life
        BY <1>6
      <4>5. Closed(k, 0 + 1) /\ 0 \in Nat
        BY <4>3, <4>4
      <4>6. Closed(k, 0)'
        BY <1>11, <4>5
      <4>7. QED  BY <3>0, <4>4, <4>6
    <3>3. QED  BY <1>9, <3>1, <3>2
  <2>3. QED  BY <1>12, <2>1, <2>2
<1>14. MessagesAreOrdered'
  BY <1>1, <1>3, <1>4 DEF MessagesAreOrdered, Past
<1>15. MixedCloses'
  <2> SUFFICES ASSUME NEW m \in DOMAIN wire', NEW x \in LinesOf(wire'[m].lines),
                      NEW y \in LinesOf(wire'[m].lines), x.life < y.life
               PROVE  Closed(x.life, m)'
    BY DEF MixedCloses
  <2>1. m + 1 \in DOMAIN wire /\ wire'[m] = wire[m + 1] /\ m \in Nat
    BY <1>4
  <2>2. Closed(x.life, m + 1) /\ x \in Lines
    BY <1>1, <1>2, <2>1 DEF MixedCloses
  <2>3. QED  BY <1>11, <2>1, <2>2, LineType
<1>16. ShownInOrder'
  <2> SUFFICES ASSUME NEW i \in DOMAIN shown', NEW j \in DOMAIN shown',
                      i < j, shown'[i].life = shown'[j].life
               PROVE  shown'[i].seq < shown'[j].seq
    BY DEF ShownInOrder
  <2>1. CASE j \in DOMAIN shown /\ shown'[j] = shown[j]
    <3>1. i \in DOMAIN shown /\ shown'[i] = shown[i]
      <4>1. DOMAIN shown' \subseteq Nat
        <5>1. shown' \in Seq(Lines)
          BY DEF StreamTypeOK
        <5>2. QED  BY <5>1
      <4>2. ~(i > Len(shown))
        BY <1>6, <2>1, <4>1
      <4>3. QED  BY <1>12, <4>2
    <3>2. QED  BY <1>1, <2>1, <3>1 DEF ShownInOrder
  <2>2. CASE j > Len(shown) /\ j - Len(shown) \in DOMAIN fresh /\ shown'[j] = fresh[j - Len(shown)]
    <3>1. /\ shown'[j] \in LinesOf(wire[1].lines) /\ shown'[j].seq > lastSeq
          /\ shown'[j].seq \in Nat
      BY <1>5, <1>6, <2>2
    <3>2. CASE i \in DOMAIN shown /\ shown'[i] = shown[i]
      <4>1. shown[i].seq \in Nat
        BY <1>2, <3>2, LineType
      <4>2. ~Closed(shown[i].life, 0)
        BY <1>4, <3>1, <3>2 DEF Closed
      <4>3. shown[i].seq <= lastSeq
        BY <1>1, <3>2, <4>2 DEF ShownIsBehind
      <4>4. QED  BY <1>2, <3>1, <3>2, <4>1, <4>3
    <3>3. CASE i > Len(shown) /\ i - Len(shown) \in DOMAIN fresh /\ shown'[i] = fresh[i - Len(shown)]
      <4>1. i - Len(shown) < j - Len(shown)
        BY <1>6, <2>2, <3>3
      <4>2. shown'[i] # Status /\ shown'[j] # Status
        BY <1>6, <2>2, <3>3 DEF LinesOf
      <4>3. Precedes(shown'[i], shown'[j])
        BY <1>5, <2>2, <3>3, <4>1, <4>2 DEF Ordered
      <4>4. shown'[i].life \in Nat
        BY <1>6, <3>3
      <4>5. QED  BY <4>3, <4>4 DEF Precedes
    <3>4. QED  BY <1>12, <3>2, <3>3
  <2>3. QED  BY <1>12, <2>1, <2>2
<1>17. FlowIsOrdered' /\ IsHistory(buffer)'
  BY <1>1, <1>3, <1>10 DEF FlowIsOrdered, IsHistory, Past
<1>18. lastSeq' = lastSeq \/ \E x \in LinesOf(wire[1].lines) : lastSeq' = x.seq
  <2>1. fresh # <<>> => fresh[Len(fresh)] \in LinesOf(wire[1].lines)
    BY <1>5, <1>6, <1>7
  <2>2. QED  BY <1>7, <2>1
<1>19. /\ Range(shown) \subseteq Range(shown')
       /\ \A x \in LinesOf(wire[1].lines) : x.seq <= lastSeq \/ x \in Range(shown')
  <2>1. Range(shown') = Range(shown) \cup Range(fresh)
    <3>1. shown \in Seq(Events) /\ fresh \in Seq(Events)
      BY <1>2, <1>5, LineType
    <3>2. LinesOf(shown') = LinesOf(shown) \cup LinesOf(fresh)
      BY <1>3, <3>1, LineSets, LineType
    <3>3. Range(shown) \subseteq Lines /\ Range(fresh) \subseteq Lines /\ shown' \in Seq(Lines)
      <4>1. shown' \in Seq(Lines)
        BY DEF StreamTypeOK
      <4>2. \A u \in Seq(Lines) : Range(u) \subseteq Lines
        BY DEF Range
      <4>3. QED  BY <1>2, <1>5, <4>1, <4>2
    <3>4. Range(shown') \subseteq Lines
      BY <3>3 DEF Range
    <3>5. QED  BY <3>2, <3>3, <3>4, LineType DEF LinesOf
  <2>2. \A x \in LinesOf(wire[1].lines) : x.seq \in Nat
    BY <1>2, <1>4, LineType
  <2>3. QED  BY <1>2, <1>5, <2>1, <2>2 DEF LinesOf
<1>20. QED  BY <1>3, <1>4, <1>13, <1>14, <1>15, <1>16, <1>17, <1>18, <1>19 DEF OrderInv
LEMMA HistoryGrows ==
    ASSUME StreamTypeOK, IsHistory(buffer), Ingest
    PROVE  IsHistory(buffer)'
<1>1. buffer \in Seq(Numbers) /\ Rising(buffer) /\ \A i \in DOMAIN buffer : buffer[i] <= seq
  BY DEF IsHistory
<1>2. seq' = seq + 1 /\ seq \in Nat /\ seq + 1 \in Numbers /\ buffer' = Appended(seq + 1)
  BY Bounds DEF Ingest, StreamTypeOK, Numbers, Happens
<1>3. ASSUME NEW s \in Seq(Numbers), Rising(s), \A i \in DOMAIN s : s[i] <= seq
      PROVE  /\ Append(s, seq + 1) \in Seq(Numbers) /\ Rising(Append(s, seq + 1))
             /\ \A i \in DOMAIN Append(s, seq + 1) : Append(s, seq + 1)[i] <= seq + 1
  <2>1. /\ Append(s, seq + 1) \in Seq(Numbers) /\ Len(s) \in Nat /\ DOMAIN s = 1..Len(s)
        /\ DOMAIN Append(s, seq + 1) = 1..Len(s) + 1 /\ Append(s, seq + 1)[Len(s) + 1] = seq + 1
        /\ \A i \in 1..Len(s) : Append(s, seq + 1)[i] = s[i]
    BY <1>2, <1>3
  <2>2. \A i \in DOMAIN s : s[i] \in Nat
    BY <1>3, Bounds DEF Numbers
  <2>3. \A i \in 1..Len(s) + 1 : i \in 1..Len(s) \/ i = Len(s) + 1
    BY <2>1
  <2>4. \A i \in DOMAIN Append(s, seq + 1) : Append(s, seq + 1)[i] <= seq + 1
    BY <1>2, <1>3, <2>1, <2>2, <2>3
  <2>5. Rising(Append(s, seq + 1))
    <3> SUFFICES ASSUME NEW i \in 1..Len(s) + 1, NEW j \in 1..Len(s) + 1, i < j
                 PROVE  Append(s, seq + 1)[i] < Append(s, seq + 1)[j]
      BY <2>1 DEF Rising
    <3>1. i \in 1..Len(s)
      BY <2>1
    <3>2. QED  BY <1>2, <1>3, <2>1, <2>2, <2>3, <3>1 DEF Rising
  <2>6. QED  BY <2>1, <2>4, <2>5
<1>4. CASE buffer' = Append(buffer, seq + 1)
  BY <1>1, <1>2, <1>3, <1>4 DEF IsHistory
<1>5. CASE Len(buffer) = HistoryLines /\ buffer' = Append(Tail(buffer), seq + 1)
  <2>1. Len(buffer) \in Nat \ {0}
    BY <1>5, Bounds
  <2>2. /\ Tail(buffer) \in Seq(Numbers) /\ DOMAIN Tail(buffer) = 1..Len(buffer) - 1
        /\ \A i \in 1..Len(buffer) - 1 : Tail(buffer)[i] = buffer[i + 1] /\ i + 1 \in DOMAIN buffer
    BY <1>1, <2>1
  <2>3. Rising(Tail(buffer)) /\ \A i \in DOMAIN Tail(buffer) : Tail(buffer)[i] <= seq
    BY <1>1, <2>2 DEF Rising
  <2>4. QED  BY <1>2, <1>3, <1>5, <2>2, <2>3 DEF IsHistory
<1>6. QED  BY <1>2, <1>4, <1>5 DEF Appended

LEMMA OrderStep ==
    ASSUME OrderInv, [StreamNext]_streamVars
    PROVE  OrderInv'
<1>1. StreamTypeOK /\ IsHistory(buffer) /\ Ordered(batch) /\ wire \in Seq(Messages)
  BY FlowTyped DEF OrderInv, FlowIsOrdered
<1>2. StreamTypeOK'
  BY <1>1, TypeStep DEF Base
<1>3. TruncatedMessage(0) \in Messages /\ TruncatedMessage(0).lines = <<>>
  BY NoticeType
<1> USE DEF pipeline, subscription, writerVars, handlerVars, browser, bounds, streamHistory
<1>4. CASE Ingest
  <2>1. IsHistory(buffer)'
    BY <1>1, <1>4, HistoryGrows
  <2>2. /\ following => Deliver(Line(seq + 1))
        /\ ~following => UNCHANGED <<queue, evicted>>
        /\ UNCHANGED <<life, batch, outgoing, wire, shown, lastSeq>> /\ seq' = seq + 1
    BY <1>4 DEF Ingest, Happens
  <2>3. /\ following \in BOOLEAN /\ seq \in Nat /\ seq + 1 \in Numbers /\ life \in Lives
    BY <1>1, <1>4, Bounds DEF StreamTypeOK, Ingest, Numbers, Happens
  <2>4. Line(seq + 1) \in Events /\ Line(seq + 1).life = life /\ Line(seq + 1).seq = seq + 1
    BY <2>3, CurrentLine
  <2> DEFINE e == Line(seq + 1)
  <2>5. e \in Events /\ e.life = life /\ e.seq > seq /\ e.seq <= seq' /\ seq <= seq'
    BY <2>2, <2>3, <2>4
  <2>6. Deliver(e) \/ UNCHANGED <<queue, evicted>>
    BY <2>2, <2>3
  <2> HIDE DEF e
  <2>7. QED  BY <1>2, <2>1, <2>2, <2>5, <2>6, QueueStep
<1>5. CASE PublishStatus
  <2>1. /\ Deliver(Status)
        /\ UNCHANGED <<life, seq, buffer, batch, outgoing, wire, shown, lastSeq>>
    BY <1>5 DEF PublishStatus
  <2>2. seq <= seq' /\ IsHistory(buffer)'
    BY <1>1, <2>1, FlowTyped DEF IsHistory
  <2>3. Status \in Events
    BY LineType
  <2>4. QED  BY <1>2, <2>1, <2>2, <2>3, QueueStep
<1>6. CASE Resync
  BY <1>2, <1>6, LifeStep DEF Resync
<1>7. CASE Connect \/ Disconnect \/ MsmRestarts
  <2>1. /\ UNCHANGED <<life, seq, buffer>> \/ (life' = life + 1 /\ buffer' = <<>>)
        /\ FreshConnection /\ shown' = shown /\ lastSeq' = lastSeq
    BY <1>7 DEF Connect, Disconnect, MsmRestarts
  <2>2. QED  BY <1>2, <2>1, LifeStep DEF FreshConnection
<1>8. CASE Mount \/ Unmount \/ HandleSubscribe \/ HandleUnsubscribe \/ WindowEnds \/ UNCHANGED streamVars
  <2>1. UNCHANGED <<life, seq, buffer, queue, batch, outgoing, shown, lastSeq, wire>>
    BY <1>8 DEF Mount, Unmount, HandleSubscribe, HandleUnsubscribe, WindowEnds, streamVars
  <2>2. QED  BY <1>2, <1>3, <2>1, QuietStep
<1>9. CASE SendBacklog
  BY <1>2, <1>9, BacklogStep
<1>10. CASE TellTruncated
  <2>1. \/ wire' = wire
        \/ LogsTail(1) # <<>> /\ LogsTail(1)[1] > resume + 1 /\ resume >= 0
           /\ wire' = Append(wire, TruncatedMessage(LogsTail(1)[1] - resume - 1))
    BY <1>10 DEF TellTruncated
  <2>2. UNCHANGED <<life, seq, buffer, queue, batch, outgoing, shown, lastSeq>>
    BY <1>10 DEF TellTruncated
  <2>3. LogsTail(1) # <<>> => LogsTail(1)[1] \in Nat
    <3>1. LogsTail(1) \in Seq(Numbers)
      BY <1>1, HistoryIsSent DEF IsHistory
    <3> DEFINE t == LogsTail(1)
    <3> HIDE DEF t
    <3>2. t \in Seq(Numbers)
      BY <3>1 DEF t
    <3>3. t # <<>> => t[1] \in Numbers
      BY <3>2
    <3>4. QED  BY <3>3, Bounds DEF t, Numbers
  <2>4. CASE LogsTail(1) # <<>> /\ LogsTail(1)[1] > resume + 1 /\ resume >= 0
             /\ wire' = Append(wire, TruncatedMessage(LogsTail(1)[1] - resume - 1))
    <3>0. PICK first \in Nat : first = LogsTail(1)[1] /\ first > resume + 1
      BY <2>3, <2>4
    <3>a. resume \in Nat
      BY <1>1, <2>4 DEF StreamTypeOK, NoSeq
    <3>1. first - resume - 1 \in Nat
      BY <3>0, <3>a
    <3>2. PICK n \in Nat : n = LogsTail(1)[1] - resume - 1
      BY <3>0, <3>1
    <3>3. TruncatedMessage(n) \in Messages /\ TruncatedMessage(n).lines = <<>>
      BY NoticeType
    <3>4. wire' = Append(wire, TruncatedMessage(n))
      BY <2>4, <3>2
    <3>5. QED  BY <1>2, <2>2, <3>3, <3>4, QuietStep
  <2>5. CASE wire' = wire
    BY <1>2, <1>3, <2>2, <2>5, QuietStep
  <2>6. QED  BY <2>1, <2>4, <2>5
<1>11. CASE ReportDropped
  <2>1. wire' = wire \/ wire' = Append(wire, DroppedMessage(dropped))
    BY <1>11 DEF ReportDropped
  <2>2. UNCHANGED <<life, seq, buffer, queue, batch, outgoing, shown, lastSeq>>
    BY <1>11 DEF ReportDropped
  <2>3. DroppedMessage(dropped) \in Messages /\ DroppedMessage(dropped).lines = <<>>
    <3>1. dropped \in Nat
      BY <1>1 DEF StreamTypeOK
    <3>2. QED  BY <3>1, NoticeType
  <2>4. QED  BY <1>2, <2>1, <2>2, <2>3, QuietStep
<1>12. CASE WriterTakes
  BY <1>2, <1>12, TakeStep
<1>13. CASE Flush
  BY <1>2, <1>13, FlushStep
<1>14. CASE Receive
  BY <1>2, <1>14, ReceiveStep
<1>15. QED
  BY <1>4, <1>5, <1>6, <1>7, <1>8, <1>9, <1>10, <1>11, <1>12, <1>13, <1>14
     DEF StreamNext, Server, Network, Page, Handler, Writer

LEMMA OrderInit ==
    ASSUME StreamInit
    PROVE  OrderInv
<1>1. /\ <<>> \in Seq(Events) /\ <<>> \in Seq(Lines) /\ <<>> \in Seq(Messages)
      /\ <<>> \in Seq(Requests) /\ <<>> \in Seq(Numbers) /\ Len(<<>>) = 0
      /\ DOMAIN <<>> = {} /\ Range(<<>>) = {}
  BY DEF Range
<1>2. StreamTypeOK
  <2>1. 1 \in Lives /\ 0 \in 0..MaxHappenings /\ 0 \in Nat
        /\ HistoryLines \in Nat /\ QueueSize \in Nat /\ FlushLines \in Nat
    BY Bounds DEF Lives
  <2>2. PipelineTypes
    BY <1>1, <2>1 DEF StreamInit, PipelineTypes
  <2>3. FlowTypes
    BY <1>1, <2>1 DEF StreamInit, FlowTypes
  <2>4. HandlerTypes
    BY <1>1 DEF StreamInit, HandlerTypes
  <2>5. BrowserTypes
    BY <1>1, <2>1 DEF StreamInit, BrowserTypes
  <2>6. QED  BY <2>2, <2>3, <2>4, <2>5, TypesApart
<1>3. IsHistory(buffer)
  BY <1>1 DEF StreamInit, IsHistory, Rising
<1>4. FlowIsOrdered
  BY <1>1 DEF StreamInit, FlowIsOrdered, Ordered, Before, LinesOf, InFlow
<1>5. MessagesAreOrdered /\ MixedCloses /\ ShownIsBehind /\ ShownInOrder
  BY <1>1 DEF StreamInit, MessagesAreOrdered, MixedCloses, ShownIsBehind, ShownInOrder
<1>6. QED  BY <1>2, <1>3, <1>4, <1>5 DEF OrderInv
\* Every variable keeps its type: no buffer, queue or batch outgrows its capacity.
THEOREM StreamTypeCorrect == StreamSpec => []StreamTypeOK
<1>1. StreamInit => OrderInv
  BY OrderInit
<1>2. OrderInv /\ [StreamNext]_streamVars => OrderInv'
  BY OrderStep
<1>3. OrderInv => StreamTypeOK
  BY DEF OrderInv
<1>4. QED  BY <1>1, <1>2, <1>3, PTL DEF StreamSpec

\* The lines of one numbering are shown in order and none twice, whatever is resumed,
\* resent, dropped or renumbered.
THEOREM ShownInOrderCorrect == StreamSpec => []ShownInOrder
<1>1. StreamInit => OrderInv
  BY OrderInit
<1>2. OrderInv /\ [StreamNext]_streamVars => OrderInv'
  BY OrderStep
<1>3. OrderInv => ShownInOrder
  BY DEF OrderInv
<1>4. QED  BY <1>1, <1>2, <1>3, PTL DEF StreamSpec
-----------------------------------------------------------------------------
(***************************************************************************)
(* What is lost.                                                           *)
(***************************************************************************)
OnWire == UNION {LinesOf(wire[m].lines) : m \in DOMAIN wire}

\* A subscription that got its history, or is getting it, holds the topic.
FollowerFollows == handler # "idle" \/ followedFrom # NoSeq => following

\* While there is one numbering, neither cursor nor store is past the last number.
NoneIsPast == life = 1 => cursor <= seq /\ lastSeq <= seq

Recent(x) == x.seq > followedFrom

\* While there is one numbering, each line printed since the history was sent is past
\* what would filter it out: the cursor, the store's number, the lines sent before it.
FlowIsAhead ==
    life = 1 /\ followedFrom # NoSeq =>
        /\ followedFrom <= seq
        /\ \A x \in LinesOf(queue) \cup LinesOf(batch) : Recent(x) => x.seq > cursor
        /\ \A x \in InFlow \cup OnWire : Recent(x) => x.seq > lastSeq
        /\ \A m \in DOMAIN wire : \A y \in LinesOf(wire[m].lines) :
              /\ \A x \in InFlow : Recent(x) => y.seq < x.seq
              /\ \A n \in DOMAIN wire : m < n =>
                    \A x \in LinesOf(wire[n].lines) : Recent(x) => y.seq < x.seq

\* The lines that are neither shown nor on their way, by their numbers.
Lost == {n \in followedFrom + 1..seq : Line(n) \notin Range(shown) \cup InFlow \cup OnWire}

LossesAreCounted == life = 1 /\ followedFrom # NoSeq => Cardinality(Lost) <= evicted

LossInv == OrderInv /\ FollowerFollows /\ NoneIsPast /\ FlowIsAhead /\ LossesAreCounted

LEMMA LostIs ==
    ASSUME StreamTypeOK
    PROVE  /\ NothingLostUncounted <=> LossesAreCounted
           /\ followedFrom # NoSeq => IsFiniteSet(Lost) /\ Lost \subseteq Nat \ {0}
<1>1. \A n : Line(n) # Status
  <2>1. life # 0
    BY FlowTyped
  <2>2. QED  BY <2>1 DEF Line, Status
<1>2. \A n : WasShown(n) \/ OnItsWay(n) <=> Line(n) \in Range(shown) \cup InFlow \cup OnWire
  <2> SUFFICES ASSUME NEW n
               PROVE  OnItsWay(n) <=> Line(n) \in InFlow \cup OnWire
    BY DEF WasShown
  <2>1. Line(n) # Status
    BY <1>1
  <2>2. OnItsWay(n) <=> \/ Line(n) \in InFlow
                        \/ \E m \in DOMAIN wire : Line(n) \in LinesOf(wire[m].lines)
    BY <2>1 DEF OnItsWay, InFlow, LinesOf
  <2>3. QED  BY <2>2 DEF OnWire
<1>3. Lost = {n \in followedFrom + 1..seq : ~WasShown(n) /\ ~OnItsWay(n)}
  BY <1>2 DEF Lost
<1>4. ASSUME followedFrom # NoSeq
      PROVE  IsFiniteSet(Lost) /\ Lost \subseteq Nat \ {0}
  <2>1. followedFrom \in Nat /\ seq \in Nat
    BY <1>4, FlowTyped DEF StreamTypeOK
  <2>2. followedFrom + 1 \in Int /\ seq \in Int
    BY <2>1
  <2>3. IsFiniteSet(followedFrom + 1..seq)
    BY <2>2, FS_Interval
  <2>4. Lost \in SUBSET (followedFrom + 1..seq)
    BY DEF Lost
  <2>5. IsFiniteSet(Lost)
    BY <2>3, <2>4, FS_Subset
  <2>6. followedFrom + 1..seq \subseteq Nat \ {0}
    BY <2>1
  <2>7. QED  BY <2>4, <2>5, <2>6
<1>5. QED  BY <1>3, <1>4 DEF NothingLostUncounted, LossesAreCounted

\* A step that loses nothing, or counts the one line it loses.
LEMMA LossCounted ==
    ASSUME LossInv, UNCHANGED <<life, followedFrom>>,
           life = 1 /\ followedFrom # NoSeq =>
               \/ Lost' \subseteq Lost /\ evicted' = evicted
               \/ (\E n : Lost' \subseteq Lost \cup {n}) /\ evicted' = evicted + 1
    PROVE  LossesAreCounted'
<1>1. StreamTypeOK /\ LossesAreCounted /\ evicted \in Nat
  BY DEF LossInv, OrderInv, StreamTypeOK
<1> SUFFICES ASSUME life = 1, followedFrom # NoSeq PROVE Cardinality(Lost') <= evicted'
  BY DEF LossesAreCounted, NoSeq
<1>2. IsFiniteSet(Lost) /\ Cardinality(Lost) \in Nat /\ Cardinality(Lost) <= evicted
  BY <1>1, LostIs, FS_CardinalityType DEF LossesAreCounted
<1>3. CASE Lost' \subseteq Lost /\ evicted' = evicted
  <2>1. Cardinality(Lost') <= Cardinality(Lost) /\ Cardinality(Lost') \in Nat
    BY <1>2, <1>3, FS_Subset, FS_CardinalityType
  <2>2. QED  BY <1>1, <1>2, <1>3, <2>1
<1>4. ASSUME NEW n, Lost' \subseteq Lost \cup {n}, evicted' = evicted + 1
      PROVE  Cardinality(Lost') <= evicted'
  <2>1. /\ IsFiniteSet(Lost \cup {n})
        /\ Cardinality(Lost \cup {n}) = IF n \in Lost THEN Cardinality(Lost) ELSE Cardinality(Lost) + 1
    BY <1>2, FS_AddElement
  <2>2. Cardinality(Lost') <= Cardinality(Lost \cup {n}) /\ Cardinality(Lost') \in Nat
    BY <1>4, <2>1, FS_Subset, FS_CardinalityType
  <2>3. QED  BY <1>1, <1>2, <1>4, <2>1, <2>2
<1>5. QED  BY <1>3, <1>4
LEMMA OneNumbering ==
    ASSUME OrderInv, life = 1
    PROVE  /\ \A x \in InFlow \cup OnWire : /\ x \in Lines /\ x.life = 1
                                            /\ x.seq \in Nat \ {0} /\ x.seq <= seq
           /\ \A m \in DOMAIN wire : LinesOf(wire[m].lines) \subseteq OnWire
           /\ seq \in Nat /\ lastSeq \in Int /\ cursor \in Nat
           /\ LinesOf(queue) \cup LinesOf(batch) \cup LinesOf(outgoing) = InFlow
<1>1. StreamTypeOK /\ FlowIsOrdered /\ MessagesAreOrdered
  BY DEF OrderInv
<1>2. \A x \in InFlow \cup OnWire : x \in Lines /\ Past(x)
  BY <1>1, FlowTyped DEF FlowIsOrdered, MessagesAreOrdered, OnWire
<1>3. \A x \in Lines : x.life \in Nat \ {0} /\ x.seq \in Nat \ {0}
  BY LineType
<1>4. \A x \in InFlow \cup OnWire : x \in Lines /\ x.life = 1 /\ x.seq \in Nat \ {0} /\ x.seq <= seq
  BY <1>2, <1>3 DEF Past
<1>5. seq \in Nat /\ lastSeq \in Int /\ cursor \in Nat
  BY <1>1, FlowTyped, Bounds DEF StreamTypeOK
<1>6. QED  BY <1>4, <1>5 DEF OnWire, InFlow

\* Lines that stay somewhere are not lost.
LEMMA NothingLost ==
    ASSUME UNCHANGED <<life, seq, followedFrom>>, followedFrom \in Int, seq \in Int,
           \A x \in Range(shown) \cup InFlow \cup OnWire : Recent(x) /\ x.life = life =>
               x \in Range(shown') \cup InFlow' \cup OnWire'
    PROVE  Lost' \subseteq Lost
<1> SUFFICES ASSUME NEW n \in Lost' PROVE n \in Lost
  OBVIOUS
<1>1. /\ n \in followedFrom + 1..seq
      /\ Line(n) \notin Range(shown') \cup InFlow' \cup OnWire'
  BY DEF Lost, Line
<1>2. Recent(Line(n)) /\ Line(n).life = life
  BY <1>1 DEF Line, Recent
<1>3. QED  BY <1>1, <1>2 DEF Lost

\* A step after which there is nothing to promise.
LEMMA Vacuous ==
    ASSUME OrderInv', FollowerFollows', NoneIsPast', followedFrom' = NoSeq \/ life' # 1
    PROVE  LossInv'
  BY DEF LossInv, FlowIsAhead, LossesAreCounted, NoSeq

\* A step that moves no line, and sends none.
LEMMA StillStep ==
    ASSUME LossInv, OrderInv', FollowerFollows', NEW M \in Messages, M.lines = <<>>,
           UNCHANGED <<life, seq, queue, batch, outgoing, cursor, lastSeq, shown, followedFrom,
                       evicted>>,
           wire' = wire \/ wire' = Append(wire, M)
    PROVE  LossInv'
<1>1. /\ OrderInv /\ NoneIsPast /\ FlowIsAhead /\ wire \in Seq(Messages)
      /\ followedFrom \in Int /\ seq \in Int
  BY FlowTyped DEF LossInv, OrderInv, StreamTypeOK, NoSeq
<1>2. LinesOf(M.lines) = {}
  BY DEF LinesOf, Range
<1>3. /\ \A m \in DOMAIN wire : m \in DOMAIN wire' /\ wire'[m] = wire[m]
      /\ \A m \in DOMAIN wire' : \/ m \in DOMAIN wire /\ wire'[m] = wire[m]
                                 \/ LinesOf(wire'[m].lines) = {}
  BY <1>1, <1>2
<1>4. OnWire' = OnWire
  <2>1. OnWire' = UNION {LinesOf(wire'[m].lines) : m \in DOMAIN wire'}
    BY DEF OnWire
  <2>2. \A x : x \in OnWire <=> \E m \in DOMAIN wire : x \in LinesOf(wire[m].lines)
    BY DEF OnWire
  <2>3. \A x : x \in OnWire' <=> \E m \in DOMAIN wire' : x \in LinesOf(wire'[m].lines)
    BY <2>1
  <2>4. QED  BY <1>3, <2>2, <2>3
<1>5. InFlow' = InFlow
  BY DEF InFlow
<1>6. NoneIsPast'
  BY <1>1 DEF NoneIsPast
<1>7. FlowIsAhead'
  BY <1>1, <1>3, <1>4, <1>5 DEF FlowIsAhead, Recent
<1>8. Lost' \subseteq Lost
  BY <1>1, <1>4, <1>5, NothingLost
<1>9. LossesAreCounted'
  BY <1>8, LossCounted
<1>10. QED  BY <1>6, <1>7, <1>9 DEF LossInv

\* A new event enters the queue: the line it may push out is the one counted.
LEMMA QueueLoss ==
    ASSUME LossInv, OrderInv', FollowerFollows', NEW e \in Events, Deliver(e),
           UNCHANGED <<life, batch, outgoing, wire, cursor, lastSeq, shown, followedFrom>>,
           \/ e = Status /\ seq' = seq
           \/ e = Line(seq + 1) /\ seq' = seq + 1
    PROVE  LossInv'
<1>1. OrderInv /\ StreamTypeOK /\ NoneIsPast /\ FlowIsAhead
  BY DEF LossInv, OrderInv
<1>2. /\ seq \in Nat /\ cursor \in Int /\ lastSeq \in Int /\ followedFrom \in Int
      /\ life \in Nat /\ seq <= seq' /\ seq' \in Nat
  BY <1>1, FlowTyped, Bounds DEF StreamTypeOK, NoSeq
<1>3. NoneIsPast'
  BY <1>1, <1>2 DEF NoneIsPast
<1> SUFFICES ASSUME life = 1, followedFrom # NoSeq PROVE FlowIsAhead' /\ LossesAreCounted'
  BY <1>3 DEF LossInv, FlowIsAhead, LossesAreCounted, NoSeq
<1>4. OnWire' = OnWire
  BY DEF OnWire
<1>5. /\ e \in {Status} \/ e.seq = seq + 1
      /\ LinesOf(queue') \subseteq LinesOf(queue) \cup ({e} \ {Status})
  <2>1. Line(seq + 1).seq = seq + 1
    BY DEF Line
  <2>2. QED  BY <1>1, <2>1, Delivery
<1>6. /\ \A x \in InFlow' : x \in InFlow \/ x.seq = seq + 1
      /\ \A x \in LinesOf(queue') \cup LinesOf(batch') :
            x \in LinesOf(queue) \cup LinesOf(batch) \/ x.seq = seq + 1
  BY <1>5 DEF InFlow
<1>7. FlowIsAhead'
  <2>1. followedFrom' <= seq'
    BY <1>1, <1>2 DEF FlowIsAhead
  <2>2. \A x \in LinesOf(queue') \cup LinesOf(batch') : Recent(x)' => x.seq > cursor'
    BY <1>1, <1>2, <1>6 DEF FlowIsAhead, NoneIsPast, Recent
  <2>3. \A x \in InFlow' \cup OnWire' : Recent(x)' => x.seq > lastSeq'
    BY <1>1, <1>2, <1>4, <1>6 DEF FlowIsAhead, NoneIsPast, Recent
  <2>4. ASSUME NEW m \in DOMAIN wire, NEW y \in LinesOf(wire[m].lines)
        PROVE  /\ \A x \in InFlow' : Recent(x)' => y.seq < x.seq
               /\ \A n \in DOMAIN wire : m < n =>
                     \A x \in LinesOf(wire[n].lines) : Recent(x)' => y.seq < x.seq
    <3>1. y.seq \in Nat /\ y.seq <= seq
      BY <1>1, OneNumbering
    <3>2. QED  BY <1>1, <1>2, <1>6, <3>1 DEF FlowIsAhead, Recent
  <2>5. QED  BY <2>1, <2>2, <2>3, <2>4 DEF FlowIsAhead
<1>8. \A x \in Lost' : \/ x \in Lost
                       \/ Line(x) \in LinesOf(queue) \ LinesOf(queue')
  <2> SUFFICES ASSUME NEW n \in Lost', n \notin Lost
               PROVE  Line(n) \in LinesOf(queue) \ LinesOf(queue')
    OBVIOUS
  <2>1. n \in followedFrom + 1..seq' /\ Line(n) \notin Range(shown') \cup InFlow' \cup OnWire'
    BY DEF Lost, Line
  <2>2. CASE n \in followedFrom + 1..seq
    BY <1>4, <2>1, <2>2 DEF Lost, InFlow
  <2>3. CASE n \notin followedFrom + 1..seq
    <3>1. n = seq + 1 /\ e = Line(seq + 1)
      BY <1>2, <2>1, <2>3
    <3>2. e # Status
      BY <1>2, <3>1 DEF Line, Status
    <3>3. e \in LinesOf(queue')
      BY <1>1, <3>2, Delivery
    <3>4. QED  BY <2>1, <3>1, <3>3 DEF InFlow
  <2>4. QED  BY <2>2, <2>3
<1>9. \/ evicted' = evicted /\ Lost' \subseteq Lost
      \/ evicted' = evicted + 1 /\ \E n : Lost' \subseteq Lost \cup {n}
  <2>1. CASE evicted' = evicted /\ LinesOf(queue') = LinesOf(queue) \cup ({e} \ {Status})
    BY <1>8, <2>1
  <2>2. CASE /\ evicted' = evicted + 1
             /\ LinesOf(queue') = LinesOf(Tail(queue)) \cup ({e} \ {Status})
             /\ LinesOf(queue) = LinesOf(Tail(queue)) \cup ({Head(queue)} \ {Status})
    <3>1. \A n : Line(n) \in LinesOf(queue) \ LinesOf(queue') => n = Head(queue).seq
      BY <2>2 DEF Line
    <3>2. Lost' \subseteq Lost \cup {Head(queue).seq}
      BY <1>8, <3>1
    <3>3. QED  BY <2>2, <3>2
  <2>3. QED  BY <1>1, <2>1, <2>2, Delivery
<1>10. LossesAreCounted'
  BY <1>9, LossCounted
<1>11. QED  BY <1>7, <1>10
LEMMA BacklogLoss ==
    ASSUME LossInv, OrderInv', SendBacklog
    PROVE  LossInv'
<1>1. OrderInv /\ StreamTypeOK /\ NoneIsPast /\ FollowerFollows
  BY DEF LossInv, OrderInv
<1>2. /\ cursor' <= seq
      /\ UNCHANGED <<queue, batch, outgoing, life, seq, lastSeq, shown, following, evicted>>
      /\ followedFrom' = seq /\ handler' = "counting" /\ handler = "greeting"
  BY <1>1, BacklogStep DEF OrderInv
<1>3. FollowerFollows' /\ NoneIsPast'
  BY <1>1, <1>2 DEF FollowerFollows, NoneIsPast
<1> SUFFICES ASSUME life' = 1 PROVE FlowIsAhead' /\ LossesAreCounted'
  BY <1>3 DEF LossInv, FlowIsAhead, LossesAreCounted
<1>4. /\ \A x \in InFlow' \cup OnWire' : x.seq \in Nat \ {0} /\ x.seq <= seq'
      /\ \A m \in DOMAIN wire' : LinesOf(wire'[m].lines) \subseteq OnWire'
      /\ seq' \in Nat
      /\ LinesOf(queue') \cup LinesOf(batch') \cup LinesOf(outgoing') = InFlow'
  <2>1. StreamTypeOK' /\ FlowIsOrdered' /\ MessagesAreOrdered'
    BY DEF OrderInv
  <2>2. queue' \in Seq(Events) /\ batch' \in Seq(Events) /\ outgoing' \in Seq(Events)
        /\ wire' \in Seq(Messages)
    <3>1. outgoing' \in Seq(Lines)
      BY <2>1 DEF StreamTypeOK
    <3>2. QED  BY <2>1, <3>1, LineType DEF StreamTypeOK
  <2>3. \A u \in Seq(Events) : LinesOf(u) \subseteq Lines
    BY DEF LinesOf, Range, Events
  <2>4. \A m \in DOMAIN wire' : LinesOf(wire'[m].lines) \subseteq Lines
    <3>1. \A m \in DOMAIN wire' : wire'[m].lines \in Seq(Lines)
      <4>1. \A m \in DOMAIN wire' : wire'[m] \in Messages
        BY <2>2
      <4>2. QED  BY <4>1 DEF Messages
    <3>2. QED  BY <2>3, <3>1, LineType
  <2>5. \A x \in InFlow' \cup OnWire' : x \in Lines /\ Past(x)'
    BY <2>1, <2>2, <2>3, <2>4 DEF FlowIsOrdered, MessagesAreOrdered, OnWire, InFlow
  <2>6. \A x \in Lines : x.life \in Nat \ {0} /\ x.seq \in Nat \ {0}
    BY LineType
  <2>7. \A x \in InFlow' \cup OnWire' : x.seq \in Nat \ {0} /\ x.seq <= seq'
    BY <2>5, <2>6 DEF Past
  <2>8. seq' \in Nat
    BY <2>1, Bounds DEF StreamTypeOK
  <2>9. QED  BY <2>7, <2>8 DEF OnWire, InFlow
<1>5. \A x \in InFlow' \cup OnWire' : ~Recent(x)'
  BY <1>2, <1>4 DEF Recent
<1>6. FlowIsAhead'
  BY <1>2, <1>4, <1>5 DEF FlowIsAhead
<1>7. LossesAreCounted'
  <2>1. Lost' = {}
    BY <1>2, <1>4 DEF Lost
  <2>2. Cardinality(Lost') = 0 /\ evicted' \in Nat
    BY <1>1, <1>2, <2>1, FS_EmptySet DEF StreamTypeOK
  <2>3. QED  BY <2>2 DEF LossesAreCounted
<1>8. QED  BY <1>6, <1>7

LEMMA TakeLoss ==
    ASSUME LossInv, OrderInv', WriterTakes
    PROVE  LossInv'
<1>1. OrderInv /\ NoneIsPast /\ FollowerFollows /\ FlowIsAhead /\ StreamTypeOK
  BY DEF LossInv, OrderInv
<1>2. /\ LinesOf(queue') \cup LinesOf(batch') = LinesOf(queue) \cup LinesOf(batch)
      /\ UNCHANGED <<cursor, outgoing, wire, life, seq, lastSeq, shown, followedFrom, evicted,
                     following, handler>>
  BY <1>1, TakeStep DEF OrderInv
<1>3. InFlow' = InFlow /\ OnWire' = OnWire
  BY <1>2 DEF InFlow, OnWire
<1>4. FollowerFollows' /\ NoneIsPast'
  BY <1>1, <1>2 DEF FollowerFollows, NoneIsPast
<1>5. FlowIsAhead'
  BY <1>1, <1>2, <1>3 DEF FlowIsAhead, Recent
<1>6. Lost' \subseteq Lost
  <2>1. followedFrom \in Int /\ seq \in Int
    BY <1>1, FlowTyped DEF StreamTypeOK, NoSeq
  <2>2. QED  BY <1>2, <1>3, <2>1, NothingLost
<1>7. LossesAreCounted'
  BY <1>2, <1>6, LossCounted
<1>8. QED  BY <1>4, <1>5, <1>7 DEF LossInv

\* The cursor filters nothing that was not sent.
LEMMA FlushLoss ==
    ASSUME LossInv, OrderInv', Flush
    PROVE  LossInv'
<1>1. OrderInv /\ NoneIsPast /\ FollowerFollows /\ FlowIsAhead /\ StreamTypeOK /\ FlowIsOrdered
      /\ StreamTypeOK'
  BY DEF LossInv, OrderInv
<1>2. /\ UNCHANGED <<queue, life, seq, lastSeq, shown, followedFrom, evicted, following, handler>>
      /\ LinesOf(batch') \subseteq LinesOf(batch)
  BY <1>1, FlushStep
<1>3. PICK s \in Seq(Events) :
         /\ LinesOf(s) \subseteq LinesOf(batch) /\ Before(s, batch')
         /\ cursor' = cursor \/ \E x \in LinesOf(s) : cursor' = x.seq
         /\ LinesOf(outgoing') \subseteq LinesOf(outgoing) \cup LinesOf(s)
         /\ \/ /\ wire' = wire
               /\ LinesOf(outgoing) \subseteq LinesOf(outgoing')
               /\ (\A x, y \in LinesOf(batch) : x.life = y.life) =>
                     \A x \in LinesOf(batch) : \/ x.seq <= cursor
                                               \/ x \in LinesOf(batch') \cup LinesOf(outgoing')
            \/ \E M \in Messages :
                  /\ wire' = Append(wire, M)
                  /\ LinesOf(batch') = {} /\ LinesOf(outgoing') = {}
                  /\ LinesOf(outgoing) \subseteq LinesOf(M.lines)
                  /\ LinesOf(M.lines) \subseteq LinesOf(outgoing) \cup LinesOf(batch)
                  /\ (\A x, y \in LinesOf(batch) : x.life = y.life) =>
                        \A x \in LinesOf(batch) : x.seq <= cursor \/ x \in LinesOf(M.lines)
  BY <1>1, FlushStep
<1>4. FollowerFollows'
  BY <1>1, <1>2 DEF FollowerFollows
<1>5. NoneIsPast'
  <2> SUFFICES ASSUME life = 1 PROVE cursor' <= seq /\ lastSeq <= seq
    BY <1>2 DEF NoneIsPast
  <2>1. \A x \in LinesOf(batch) : x.seq <= seq
    BY <1>1, OneNumbering
  <2>2. QED  BY <1>1, <1>3, <2>1 DEF NoneIsPast
<1> SUFFICES ASSUME life = 1, followedFrom # NoSeq PROVE FlowIsAhead' /\ LossesAreCounted'
  BY <1>2, <1>4, <1>5 DEF LossInv, FlowIsAhead, LossesAreCounted, NoSeq
<1>6. /\ \A x \in InFlow \cup OnWire : x \in Lines /\ x.life = 1 /\ x.seq \in Nat \ {0} /\ x.seq <= seq
      /\ \A m \in DOMAIN wire : LinesOf(wire[m].lines) \subseteq OnWire
      /\ seq \in Nat /\ lastSeq \in Int /\ cursor \in Nat
      /\ LinesOf(queue) \cup LinesOf(batch) \cup LinesOf(outgoing) = InFlow
      /\ wire \in Seq(Messages) /\ followedFrom \in Int
  <2>1. wire \in Seq(Messages) /\ followedFrom \in Int
    BY <1>1, FlowTyped DEF StreamTypeOK, NoSeq
  <2>2. QED  BY <1>1, <2>1, OneNumbering
<1>7. \A x, y \in LinesOf(batch) : x.life = y.life
  BY <1>6
<1>8. InFlow' \subseteq InFlow
  BY <1>2, <1>3 DEF InFlow
<1>9. /\ followedFrom' <= seq'
      /\ \A x \in InFlow : Recent(x) => x.seq > lastSeq
      /\ \A x \in OnWire : Recent(x) => x.seq > lastSeq
      /\ \A x \in LinesOf(queue) \cup LinesOf(batch) : Recent(x) => x.seq > cursor
      /\ \A m \in DOMAIN wire : \A y \in LinesOf(wire[m].lines) :
            /\ \A x \in InFlow : Recent(x) => y.seq < x.seq
            /\ \A n \in DOMAIN wire : m < n =>
                  \A x \in LinesOf(wire[n].lines) : Recent(x) => y.seq < x.seq
      /\ \A x : Recent(x)' <=> Recent(x)
  BY <1>1, <1>2 DEF FlowIsAhead, Recent
<1>10. \A x \in LinesOf(queue') \cup LinesOf(batch') : Recent(x)' => x.seq > cursor'
  <2> SUFFICES ASSUME NEW x \in LinesOf(queue') \cup LinesOf(batch'), Recent(x)
               PROVE  x.seq > cursor'
    BY <1>9
  <2>1. x.seq > cursor /\ x \in InFlow
    BY <1>2, <1>6, <1>9
  <2>2. ASSUME NEW y \in LinesOf(s) PROVE y.seq < x.seq
    <3>1. Precedes(y, x) /\ y \in InFlow
      BY <1>1, <1>2, <1>3, <1>6 DEF FlowIsOrdered, Before
    <3>2. QED  BY <1>6, <2>1, <3>1 DEF Precedes
  <2>3. QED  BY <1>3, <1>6, <2>1, <2>2
<1>11. CASE /\ wire' = wire
            /\ LinesOf(outgoing) \subseteq LinesOf(outgoing')
            /\ \A x \in LinesOf(batch) : \/ x.seq <= cursor
                                         \/ x \in LinesOf(batch') \cup LinesOf(outgoing')
  <2>1. OnWire' = OnWire
    BY <1>11 DEF OnWire
  <2>2. FlowIsAhead'
    BY <1>2, <1>8, <1>9, <1>10, <1>11, <2>1 DEF FlowIsAhead
  <2>3. \A x \in InFlow : Recent(x) => x \in InFlow'
    BY <1>2, <1>6, <1>9, <1>11 DEF InFlow
  <2>4. Lost' \subseteq Lost
    BY <1>2, <1>6, <2>1, <2>3, NothingLost
  <2>5. QED  BY <1>2, <2>2, <2>4, LossCounted
<1>12. ASSUME NEW M \in Messages, wire' = Append(wire, M),
              LinesOf(batch') = {}, LinesOf(outgoing') = {},
              LinesOf(outgoing) \subseteq LinesOf(M.lines),
              LinesOf(M.lines) \subseteq LinesOf(outgoing) \cup LinesOf(batch),
              \A x \in LinesOf(batch) : x.seq <= cursor \/ x \in LinesOf(M.lines)
       PROVE  FlowIsAhead' /\ LossesAreCounted'
  <2>1. /\ \A m \in DOMAIN wire : m \in DOMAIN wire' /\ wire'[m] = wire[m] /\ m < Len(wire) + 1
        /\ \A m \in DOMAIN wire' : \/ m \in DOMAIN wire /\ wire'[m] = wire[m]
                                   \/ m = Len(wire) + 1 /\ wire'[m] = M
        /\ Len(wire) + 1 \in DOMAIN wire' /\ wire'[Len(wire) + 1] = M /\ Len(wire) \in Nat
    BY <1>6, <1>12
  <2>2. OnWire' = OnWire \cup LinesOf(M.lines)
    <3>1. OnWire' = UNION {LinesOf(wire'[m].lines) : m \in DOMAIN wire'}
      BY DEF OnWire
    <3>2. \A x : x \in OnWire <=> \E m \in DOMAIN wire : x \in LinesOf(wire[m].lines)
      BY DEF OnWire
    <3>3. \A x : x \in OnWire' <=> \E m \in DOMAIN wire' : x \in LinesOf(wire'[m].lines)
      BY <3>1
    <3>4. \A x : x \in OnWire' <=> x \in OnWire \/ x \in LinesOf(M.lines)
      BY <2>1, <3>2, <3>3
    <3>5. QED  BY <3>4
  <2>3. InFlow' = LinesOf(queue) /\ LinesOf(M.lines) \subseteq InFlow
    BY <1>2, <1>6, <1>12 DEF InFlow
  <2>4. \A x \in InFlow' \cup OnWire' : Recent(x)' => x.seq > lastSeq'
    BY <1>2, <1>6, <1>9, <2>2, <2>3
  <2>5. \A y \in LinesOf(M.lines), x \in LinesOf(queue) : y.seq < x.seq
    <3> SUFFICES ASSUME NEW y \in LinesOf(M.lines), NEW x \in LinesOf(queue)
                 PROVE  y.seq < x.seq
      OBVIOUS
    <3>1. Precedes(y, x)
      BY <1>1, <1>12 DEF FlowIsOrdered, Before
    <3>2. x.life = 1 /\ y.life = 1
      BY <1>6, <2>3
    <3>3. QED  BY <3>1, <3>2 DEF Precedes
  <2>6. ASSUME NEW m \in DOMAIN wire', NEW y \in LinesOf(wire'[m].lines)
        PROVE  /\ \A x \in InFlow' : Recent(x) => y.seq < x.seq
               /\ \A n \in DOMAIN wire' : m < n =>
                     \A x \in LinesOf(wire'[n].lines) : Recent(x) => y.seq < x.seq
    <3>1. CASE m \in DOMAIN wire /\ wire'[m] = wire[m]
      <4>1. y \in LinesOf(wire[m].lines) /\ \A x \in InFlow : Recent(x) => y.seq < x.seq
        BY <1>9, <2>6, <3>1
      <4>2. \A n \in DOMAIN wire' : m < n =>
               \A x \in LinesOf(wire'[n].lines) : Recent(x) => y.seq < x.seq
        <5> SUFFICES ASSUME NEW n \in DOMAIN wire', m < n, NEW x \in LinesOf(wire'[n].lines), Recent(x)
                     PROVE  y.seq < x.seq
          OBVIOUS
        <5>1. CASE n \in DOMAIN wire /\ wire'[n] = wire[n]
          BY <1>9, <3>1, <4>1, <5>1
        <5>2. CASE wire'[n] = M
          BY <2>3, <4>1, <5>2
        <5>3. QED  BY <2>1, <5>1, <5>2
      <4>3. QED  BY <1>8, <4>1, <4>2
    <3>2. CASE m = Len(wire) + 1 /\ wire'[m] = M
      <4>1. \A n \in DOMAIN wire' : ~(m < n)
        <5>1. \A n \in DOMAIN wire' : n \in DOMAIN wire \/ n = m
          BY <2>1, <3>2
        <5>2. \A n \in DOMAIN wire : n < m /\ n \in Nat
          BY <1>6, <2>1, <3>2
        <5>3. QED  BY <2>1, <3>2, <5>1, <5>2
      <4>2. QED  BY <2>3, <2>5, <2>6, <3>2, <4>1
    <3>3. QED  BY <2>1, <3>1, <3>2
  <2>7. FlowIsAhead'
    BY <1>9, <1>10, <2>4, <2>6 DEF FlowIsAhead
  <2>8. \A x \in InFlow : Recent(x) => x \in InFlow' \cup OnWire'
    BY <1>6, <1>9, <1>12, <2>2, <2>3
  <2>9. Lost' \subseteq Lost
    BY <1>2, <1>6, <2>2, <2>8, NothingLost
  <2>10. QED  BY <1>2, <2>7, <2>9, LossCounted
<1>13. QED  BY <1>3, <1>7, <1>11, <1>12
\* The store keeps every line printed since the history was sent.
LEMMA ReceiveLoss ==
    ASSUME LossInv, OrderInv', Receive
    PROVE  LossInv'
<1>1. OrderInv /\ NoneIsPast /\ FollowerFollows /\ FlowIsAhead /\ StreamTypeOK /\ StreamTypeOK'
  BY DEF LossInv, OrderInv
<1>2. /\ UNCHANGED <<queue, batch, outgoing, life, seq, cursor, followedFrom, evicted,
                     following, handler>>
      /\ lastSeq' = lastSeq \/ \E x \in LinesOf(wire[1].lines) : lastSeq' = x.seq
      /\ Range(shown) \subseteq Range(shown')
      /\ \A x \in LinesOf(wire[1].lines) : x.seq <= lastSeq \/ x \in Range(shown')
      /\ \A m \in DOMAIN wire' : m + 1 \in DOMAIN wire /\ wire'[m] = wire[m + 1]
      /\ \A m \in DOMAIN wire : m = 1 \/ (m - 1 \in DOMAIN wire' /\ wire'[m - 1] = wire[m])
      /\ 1 \in DOMAIN wire
  BY <1>1, ReceiveStep
<1>3. FollowerFollows'
  BY <1>1, <1>2 DEF FollowerFollows
<1>4. NoneIsPast'
  <2> SUFFICES ASSUME life = 1 PROVE cursor <= seq /\ lastSeq' <= seq
    BY <1>2 DEF NoneIsPast
  <2>1. \A x \in LinesOf(wire[1].lines) : x.seq <= seq
    BY <1>1, <1>2, OneNumbering
  <2>2. QED  BY <1>1, <1>2, <2>1 DEF NoneIsPast
<1> SUFFICES ASSUME life = 1, followedFrom # NoSeq PROVE FlowIsAhead' /\ LossesAreCounted'
  BY <1>2, <1>3, <1>4 DEF LossInv, FlowIsAhead, LossesAreCounted, NoSeq
<1>5. /\ \A x \in InFlow \cup OnWire : x.seq \in Nat \ {0}
      /\ \A m \in DOMAIN wire : LinesOf(wire[m].lines) \subseteq OnWire
      /\ seq \in Nat /\ lastSeq \in Int
  BY <1>1, OneNumbering
<1>6. wire \in Seq(Messages) /\ wire' \in Seq(Messages) /\ followedFrom \in Int
  BY <1>1 DEF StreamTypeOK, NoSeq
<1>7. DOMAIN wire \subseteq Nat \ {0} /\ DOMAIN wire' \subseteq Nat \ {0}
  BY <1>6
<1>8. InFlow' = InFlow
  BY <1>2 DEF InFlow
<1>9. /\ followedFrom' <= seq'
      /\ \A x \in LinesOf(queue) \cup LinesOf(batch) : Recent(x) => x.seq > cursor
      /\ \A x \in InFlow \cup OnWire : Recent(x) => x.seq > lastSeq
      /\ \A m \in DOMAIN wire : \A y \in LinesOf(wire[m].lines) :
            /\ \A x \in InFlow : Recent(x) => y.seq < x.seq
            /\ \A n \in DOMAIN wire : m < n =>
                  \A x \in LinesOf(wire[n].lines) : Recent(x) => y.seq < x.seq
      /\ \A x : Recent(x)' <=> Recent(x)
  BY <1>1, <1>2 DEF FlowIsAhead, Recent
<1>10. \A x : x \in OnWire' <=> \E n \in DOMAIN wire : n > 1 /\ x \in LinesOf(wire[n].lines)
  <2>1. OnWire' = UNION {LinesOf(wire'[m].lines) : m \in DOMAIN wire'}
    BY DEF OnWire
  <2>2. \A x : x \in OnWire' <=> \E m \in DOMAIN wire' : x \in LinesOf(wire'[m].lines)
    BY <2>1
  <2>3. ASSUME NEW x, NEW m \in DOMAIN wire', x \in LinesOf(wire'[m].lines)
        PROVE  \E n \in DOMAIN wire : n > 1 /\ x \in LinesOf(wire[n].lines)
    <3>1. m + 1 \in DOMAIN wire /\ wire'[m] = wire[m + 1] /\ m + 1 > 1
      BY <1>2, <1>7
    <3>2. QED  BY <2>3, <3>1
  <2>4. ASSUME NEW x, NEW n \in DOMAIN wire, n > 1, x \in LinesOf(wire[n].lines)
        PROVE  \E m \in DOMAIN wire' : x \in LinesOf(wire'[m].lines)
    <3>1. n - 1 \in DOMAIN wire' /\ wire'[n - 1] = wire[n]
      BY <1>2, <1>7, <2>4
    <3>2. QED  BY <2>4, <3>1
  <2>5. QED  BY <2>2, <2>3, <2>4
<1>11. \A x \in InFlow' \cup OnWire' : Recent(x)' => x.seq > lastSeq'
  <2> SUFFICES ASSUME NEW x \in InFlow \cup OnWire', Recent(x) PROVE x.seq > lastSeq'
    BY <1>8, <1>9
  <2>1. x \in InFlow \/ \E n \in DOMAIN wire : 1 < n /\ x \in LinesOf(wire[n].lines)
    BY <1>7, <1>10
  <2>2. x \in InFlow \cup OnWire /\ x.seq > lastSeq
    BY <1>5, <1>9, <2>1
  <2>3. \A y \in LinesOf(wire[1].lines) : y.seq < x.seq
    BY <1>2, <1>9, <2>1
  <2>4. \A y \in LinesOf(wire[1].lines) : y.seq \in Nat /\ x.seq \in Nat
    BY <1>2, <1>5, <2>2
  <2>5. QED  BY <1>2, <2>2, <2>3, <2>4
<1>12. ASSUME NEW m \in DOMAIN wire', NEW y \in LinesOf(wire'[m].lines)
       PROVE  /\ \A x \in InFlow' : Recent(x)' => y.seq < x.seq
              /\ \A n \in DOMAIN wire' : m < n =>
                    \A x \in LinesOf(wire'[n].lines) : Recent(x)' => y.seq < x.seq
  <2>1. m + 1 \in DOMAIN wire /\ y \in LinesOf(wire[m + 1].lines)
    BY <1>2, <1>12
  <2>2. \A n \in DOMAIN wire' : m < n => m + 1 < n + 1 /\ n + 1 \in DOMAIN wire /\ wire'[n] = wire[n + 1]
    BY <1>2, <1>7
  <2>3. QED  BY <1>8, <1>9, <2>1, <2>2
<1>13. FlowIsAhead'
  <2>1. \A x \in LinesOf(queue') \cup LinesOf(batch') : Recent(x)' => x.seq > cursor'
    BY <1>2, <1>9
  <2>2. QED  BY <1>9, <1>11, <1>12, <2>1 DEF FlowIsAhead
<1>14. \A x \in OnWire : Recent(x) => x \in Range(shown') \cup OnWire'
  <2> SUFFICES ASSUME NEW x \in OnWire, Recent(x) PROVE x \in Range(shown') \cup OnWire'
    OBVIOUS
  <2>1. PICK n \in DOMAIN wire : x \in LinesOf(wire[n].lines)
    BY DEF OnWire
  <2>2. CASE n = 1
    <3>1. x.seq > lastSeq /\ x.seq \in Nat
      BY <1>5, <1>9
    <3>2. QED  BY <1>2, <1>5, <2>1, <2>2, <3>1
  <2>3. CASE n # 1
    BY <1>7, <1>10, <2>1, <2>3
  <2>4. QED  BY <2>2, <2>3
<1>15. Lost' \subseteq Lost
  BY <1>2, <1>5, <1>6, <1>8, <1>14, NothingLost
<1>16. LossesAreCounted'
  BY <1>2, <1>15, LossCounted
<1>17. QED  BY <1>13, <1>16

LEMMA LossStep ==
    ASSUME LossInv, [StreamNext]_streamVars
    PROVE  LossInv'
<1>1. OrderInv /\ NoneIsPast /\ FollowerFollows /\ StreamTypeOK
  BY DEF LossInv, OrderInv
<1>2. OrderInv'
  BY <1>1, OrderStep
<1>3. TruncatedMessage(0) \in Messages /\ TruncatedMessage(0).lines = <<>>
  BY NoticeType
<1>4. seq \in Nat /\ life \in Nat \ {0} /\ lastSeq \in Int /\ cursor \in Nat
  BY <1>1, FlowTyped, Bounds DEF StreamTypeOK
<1> USE DEF pipeline, subscription, writerVars, handlerVars, browser, bounds, streamHistory
<1>5. CASE Ingest
  <2>1. /\ following => Deliver(Line(seq + 1))
        /\ ~following => UNCHANGED <<queue, evicted>>
        /\ UNCHANGED <<life, batch, outgoing, wire, shown, lastSeq, cursor, followedFrom,
                       following, handler>>
        /\ seq' = seq + 1
    BY <1>5 DEF Ingest, Happens
  <2>2. FollowerFollows'
    BY <1>1, <2>1 DEF FollowerFollows
  <2>3. CASE following
    <3>1. Line(seq + 1) \in Events
      <4>1. life \in Lives /\ seq + 1 \in Numbers
        BY <1>1, <1>4, <1>5, Bounds DEF StreamTypeOK, Ingest, Numbers, Happens
      <4>2. QED  BY <4>1, CurrentLine
    <3> DEFINE e == Line(seq + 1)
    <3>2. e \in Events /\ Deliver(e) /\ e = Line(seq + 1)
      BY <2>1, <2>3, <3>1
    <3> HIDE DEF e
    <3>3. QED  BY <1>2, <2>1, <2>2, <3>2, QueueLoss
  <2>4. CASE ~following
    <3>1. followedFrom' = NoSeq /\ NoneIsPast'
      BY <1>1, <1>4, <2>1, <2>4 DEF FollowerFollows, NoneIsPast
    <3>2. QED  BY <1>2, <2>2, <3>1, Vacuous
  <2>5. QED  BY <2>3, <2>4
<1>6. CASE PublishStatus
  <2>1. /\ Deliver(Status)
        /\ UNCHANGED <<life, seq, batch, outgoing, wire, shown, lastSeq, cursor, followedFrom,
                       following, handler>>
    BY <1>6 DEF PublishStatus
  <2>2. FollowerFollows' /\ Status \in Events
    BY <1>1, <2>1, LineType DEF FollowerFollows
  <2>3. QED  BY <1>2, <2>1, <2>2, QueueLoss
<1>7. CASE Resync
  <2>1. life' # 1 /\ UNCHANGED <<handler, followedFrom, following>>
    BY <1>4, <1>7 DEF Resync
  <2>2. QED  BY <1>1, <1>2, <2>1, Vacuous DEF FollowerFollows, NoneIsPast
<1>8. CASE Connect \/ Disconnect \/ MsmRestarts
  <2>1. FreshConnection /\ lastSeq' = lastSeq
        /\ (UNCHANGED <<life, seq>> \/ life' = life + 1)
    BY <1>8 DEF Connect, Disconnect, MsmRestarts
  <2>2. handler' = "idle" /\ followedFrom' = NoSeq /\ cursor' = 0
    BY <2>1 DEF FreshConnection
  <2>3. FollowerFollows'
    BY <2>2 DEF FollowerFollows, NoSeq
  <2>4. NoneIsPast'
    BY <1>1, <1>4, <2>1, <2>2 DEF NoneIsPast
  <2>5. QED  BY <1>2, <2>2, <2>3, <2>4, Vacuous DEF NoSeq
<1>9. CASE Mount \/ Unmount \/ HandleSubscribe \/ WindowEnds \/ UNCHANGED streamVars
  <2>1. UNCHANGED <<life, seq, queue, batch, outgoing, cursor, lastSeq, shown, followedFrom,
                    evicted, wire>>
    BY <1>9 DEF Mount, Unmount, HandleSubscribe, WindowEnds, streamVars
  <2>2. FollowerFollows'
    BY <1>1, <1>9 DEF Mount, Unmount, HandleSubscribe, WindowEnds, streamVars, FollowerFollows
  <2>3. QED  BY <1>2, <1>3, <2>1, <2>2, StillStep
<1>10. CASE HandleUnsubscribe
  <2>1. /\ handler' = handler /\ handler = "idle" /\ followedFrom' = NoSeq /\ cursor' = 0
        /\ UNCHANGED <<life, seq, lastSeq>>
    BY <1>10 DEF HandleUnsubscribe
  <2>2. FollowerFollows'
    BY <2>1 DEF FollowerFollows, NoSeq
  <2>3. NoneIsPast'
    BY <1>1, <1>4, <2>1 DEF NoneIsPast
  <2>4. QED  BY <1>2, <2>1, <2>2, <2>3, Vacuous DEF NoSeq
<1>11. CASE SendBacklog
  BY <1>2, <1>11, BacklogLoss
<1>12. CASE TellTruncated \/ ReportDropped
  <2>1. UNCHANGED <<life, seq, queue, batch, outgoing, cursor, lastSeq, shown, followedFrom,
                    evicted, following>>
    BY <1>12 DEF TellTruncated, ReportDropped
  <2>2. FollowerFollows'
    BY <1>1, <1>12, <2>1 DEF TellTruncated, ReportDropped, FollowerFollows
  <2>3. \/ wire' = wire
        \/ \E n : wire' = Append(wire, TruncatedMessage(n)) \/ wire' = Append(wire, DroppedMessage(n))
    BY <1>12 DEF TellTruncated, ReportDropped
  <2>4. ASSUME NEW n,
               wire' = Append(wire, TruncatedMessage(n)) \/ wire' = Append(wire, DroppedMessage(n))
        PROVE  \E M \in Messages : M.lines = <<>> /\ wire' = Append(wire, M)
    <3>1. PICK M : /\ M.lines = <<>> /\ wire' = Append(wire, M)
      BY <2>4 DEF TruncatedMessage, DroppedMessage
    <3>2. wire' \in Seq(Messages) /\ wire \in Seq(Messages)
      BY <1>1, <1>2 DEF OrderInv, StreamTypeOK
    <3>3. Len(wire) + 1 \in DOMAIN wire' /\ wire'[Len(wire) + 1] = M
      BY <3>1, <3>2
    <3>4. QED  BY <3>1, <3>2, <3>3
  <2>5. QED  BY <1>2, <1>3, <2>1, <2>2, <2>3, <2>4, StillStep
<1>13. CASE WriterTakes
  BY <1>2, <1>13, TakeLoss
<1>14. CASE Flush
  BY <1>2, <1>14, FlushLoss
<1>15. CASE Receive
  BY <1>2, <1>15, ReceiveLoss
<1>16. QED
  BY <1>5, <1>6, <1>7, <1>8, <1>9, <1>10, <1>11, <1>12, <1>13, <1>14, <1>15
     DEF StreamNext, Server, Network, Page, Handler, Writer

\* Whatever the order of subscriptions, flushes and receptions, a line printed after a
\* subscription got its history is shown, on its way or counted, as long as the server
\* numbers its lines once.
THEOREM NothingLostUncountedCorrect == StreamSpec => []NothingLostUncounted
<1>1. StreamInit => LossInv
  <2> SUFFICES ASSUME StreamInit PROVE LossInv
    OBVIOUS
  <2>1. OrderInv
    BY OrderInit
  <2>2. FollowerFollows /\ NoneIsPast /\ followedFrom = NoSeq
    BY DEF StreamInit, FollowerFollows, NoneIsPast, NoSeq
  <2>3. QED  BY <2>1, <2>2 DEF LossInv, FlowIsAhead, LossesAreCounted
<1>2. LossInv /\ [StreamNext]_streamVars => LossInv'
  BY LossStep
<1>3. LossInv => NothingLostUncounted
  BY LostIs DEF LossInv, OrderInv
<1>4. QED  BY <1>1, <1>2, <1>3, PTL DEF StreamSpec
=============================================================================
