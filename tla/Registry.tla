------------------------------ MODULE Registry ------------------------------
(***************************************************************************)
(* The servers MSM knows: their rows in the database, the runtimes the     *)
(* supervisor holds for them, the processes of the machine, and what keeps *)
(* the three together: requests, the recorder of states, the boot of MSM.  *)
(*                                                                         *)
(* ServerRuntime models one runtime in detail.  Here a runtime keeps what  *)
(* others see of it; what matters is which runtime a request holds while   *)
(* an update or a deletion replaces it, and what the rows say when MSM     *)
(* boots again.                                                            *)
(***************************************************************************)
EXTENDS Integers, FiniteSets, Functions

CONSTANTS
    Servers,
    Dirs,       \* folders
    Home,       \* the folder of each server, at first
    Asked,      \* bound: the servers one asks to start, to stop; they start with MSM
    Slots,      \* bound: requests served at the same time
    MaxActs,    \* bound: requests
    MaxStops,   \* bound: stops of MSM
    MaxProcs,   \* bound: processes
    None

Procs == 1..MaxProcs
Gens  == 1..(Cardinality(Servers) + MaxActs)

ASSUME RegistryAssumption ==
    /\ Home \in [Servers -> Dirs] /\ Asked \subseteq Servers
    /\ IsFiniteSet(Servers) /\ "boot" \notin Slots
    /\ MaxActs \in Nat /\ MaxStops \in Nat /\ MaxProcs \in Nat

\* STARTING stands for ONLINE too: nothing here tells them apart.
RunningStates == {"STARTING", "STOPPING", "UNKNOWN"}

VARIABLES
    rows,      \* the committed rows: None, or folder, enabled, autostart, state, process
    sup,       \* _runtimes: the runtime of each server, or None
    rts,       \* the runtimes in memory, those nobody finds any more included
    alive,     \* the processes that run, each with its folder
    spawned,   \* processes so far
    gone,      \* the folders that were erased
    reqs,      \* the requests being served, or None
    pending,   \* the servers with a status event in the queue of the recorder
    writing,   \* what the recorder is writing, or None
    lock,      \* who holds the write lock of the database: a slot, "boot" or None
    boot,      \* the phase of the boot, the servers it has not seen yet, those to reset
    acts, stops,
    unsure,    \* history: the servers whose row nothing vouches for: a state was not written,
               \* two have written at once, or the runtime was replaced in use
    undone,    \* history: the servers whose deletion erased the files and did not end
    orphaned,  \* history: the folders of the runtimes replaced in use, of those whose row tells
               \* something else, of the processes that a boot does not look for
    crossed    \* history: the folders a server moved to while a deletion erased them

memory == <<sup, rts, reqs, pending, writing, lock, boot>>
world == <<alive, spawned, gone>>
history == <<unsure, undone, orphaned, crossed>>
vars == <<rows, memory, world, acts, stops, history>>

(***************************************************************************)
(* Runtimes.                                                               *)
(***************************************************************************)
Runtime(s, dir) ==
    [server |-> s, dir |-> dir, state |-> "OFFLINE", hand |-> None, watched |-> FALSE,
     step |-> "idle"]

Running(g) == rts[g].state \in RunningStates
IsAlive(p) == \E a \in alive : a.p = p
InFolder(dir) == {a.p : a \in {b \in alive : b.dir = dir}}

\* Who waits for the start of the runtime to end.
Awaits(i, g) == reqs[i] # None /\ reqs[i].g = g /\ reqs[i].step = "starting"

Wake(g, step) ==
    reqs' = [i \in Slots |->
        IF ~Awaits(i, g) THEN reqs[i]
        ELSE IF step = "refused" THEN None ELSE [reqs[i] EXCEPT !.step = step]]

\* _set_state and _publish_status: the recorder looks its server up by its number.
Becomes(g, runtime) ==
    /\ rts' = [rts EXCEPT ![g] = runtime]
    /\ pending' = IF runtime.state # rts[g].state \/ runtime.hand # rts[g].hand
                  THEN pending \cup {runtime.server} ELSE pending

\* A request holds the runtime; a server runs in it, or will.
HeldBy(kinds, g) == \E i \in Slots : reqs[i] # None /\ reqs[i].g = g /\ reqs[i].kind \in kinds
InUse(g) == Running(g) \/ rts[g].step # "idle" \/ HeldBy({"start", "restart"}, g)

\* _start_locked looks for a process in the folder before it says STARTING, and cancels
\* the restart that was planned.
Scans(g) ==
    /\ rts[g] # None /\ rts[g].step = "scan"
    /\ IF InFolder(rts[g].dir) # {}
       THEN /\ rts' = [rts EXCEPT ![g].step = "idle"] /\ UNCHANGED pending
            /\ Wake(g, "refused")
       ELSE /\ Becomes(g, [rts[g] EXCEPT !.state = "STARTING", !.watched = FALSE,
                                         !.step = "prepare"])
            /\ UNCHANGED reqs
    /\ UNCHANGED <<rows, sup, writing, lock, boot, world, acts, stops, history>>

Spawns(g) ==
    /\ rts[g] # None /\ rts[g].step = "prepare"
    /\ rts[g].dir \notin gone /\ spawned < MaxProcs
    /\ spawned' = spawned + 1
    /\ alive' = alive \cup {[p |-> spawned', dir |-> rts[g].dir]}
    /\ Becomes(g, [rts[g] EXCEPT !.hand = spawned', !.watched = TRUE, !.step = "idle"])
    /\ Wake(g, "save")
    /\ UNCHANGED <<rows, sup, writing, lock, boot, gone, acts, stops, history>>

StartFails(g) ==
    /\ rts[g] # None /\ rts[g].step = "prepare"
    /\ Becomes(g, [rts[g] EXCEPT !.state = "OFFLINE", !.step = "idle"])
    /\ Wake(g, "refused")
    /\ UNCHANGED <<rows, sup, writing, lock, boot, world, acts, stops, history>>

Exits(a) ==
    /\ alive' = alive \ {a}
    /\ UNCHANGED <<rows, memory, spawned, gone, acts, stops, history>>

\* _supervise, or _watch_adopted, which lets the process go and restarts nothing.
NoticesExit(g) ==
    /\ rts[g] # None /\ Running(g) /\ rts[g].watched /\ rts[g].hand # None
    /\ ~IsAlive(rts[g].hand)
    /\ \/ rts[g].state = "UNKNOWN"
          /\ Becomes(g, [rts[g] EXCEPT !.state = "OFFLINE", !.hand = None, !.watched = FALSE])
       \/ rts[g].state # "UNKNOWN"
          /\ Becomes(g, [rts[g] EXCEPT !.state = "OFFLINE", !.watched = FALSE])
       \/ rts[g].state = "STARTING"
          /\ Becomes(g, [rts[g] EXCEPT !.state = "CRASHED"])
    /\ UNCHANGED <<rows, sup, reqs, writing, lock, boot, world, acts, stops, history>>

\* _restart_after: a crash that the policy answers by a start.
RestartsAlone(g) ==
    /\ rts[g] # None /\ rts[g].state = "CRASHED" /\ rts[g].watched /\ rts[g].step = "idle"
    /\ rts' = [rts EXCEPT ![g].step = "scan", ![g].watched = FALSE]
    /\ UNCHANGED <<rows, sup, reqs, pending, writing, lock, boot, world, acts, stops, history>>

\* detach: the tasks end, and with them a restart that waits, not one that has begun; a
\* server that runs is let go.
Detached(g) ==
    [rts[g] EXCEPT !.watched = FALSE,
                   !.state = IF Running(g) /\ rts[g].hand # None THEN "UNKNOWN" ELSE @]

Fresh == CHOOSE n \in Gens : rts[n] = None

\* Supervisor.unregister, then register when there is a folder: a start under way in the
\* former runtime, a request that holds it, go on with it, out of sight.  (detach waits for
\* nothing here: only an adopted server has a tailer to stop, and it would be running.)
Replaced(s, dir) ==
    LET g == sup[s]
        kept == IF g = None THEN rts
                ELSE [rts EXCEPT ![g] = IF \/ rts[g].step # "idle"
                                             \/ HeldBy({"start", "stop", "restart"}, g)
                                          THEN Detached(g) ELSE None]
        used == g # None /\ InUse(g)
    IN  /\ dir # None => \E n \in Gens : rts[n] = None
        /\ rts' = IF dir = None THEN kept ELSE [kept EXCEPT ![Fresh] = Runtime(s, dir)]
        /\ sup' = [sup EXCEPT ![s] = IF dir = None THEN None ELSE Fresh]
        /\ pending' = IF used /\ Running(g) THEN pending \cup {s} ELSE pending
        /\ orphaned' = IF used THEN orphaned \cup {rts[g].dir} ELSE orphaned
        /\ unsure' = IF used THEN unsure \cup {s} ELSE unsure

(***************************************************************************)
(* Requests.                                                               *)
(***************************************************************************)
Free(i) == reqs[i] = None /\ boot.phase = "up" /\ acts < MaxActs

\* The row is read when the request begins; what a start writes at its end is compared
\* with it, column by column.
Asks(i, s, kind, step, arg) ==
    /\ Free(i) /\ rows[s] # None
    /\ acts' = acts + 1
    /\ reqs' = [reqs EXCEPT ![i] =
          [kind |-> kind, s |-> s, g |-> sup[s], step |-> step, arg |-> arg,
           read |-> rows[s]]]
    /\ UNCHANGED <<rows, sup, rts, pending, writing, lock, boot, world, stops, history>>

Done(i) == reqs' = [reqs EXCEPT ![i] = None]

Is(i, kinds, step) == reqs[i] # None /\ reqs[i].kind \in kinds /\ reqs[i].step = step

AsksServer(i, s) ==
    \E kind \in {"start", "stop", "restart"} :
        sup[s] # None /\ Asks(i, s, kind, IF kind = "start" THEN "start" ELSE "stop", None)

\* start, under the lock of the runtime.
BeginsStart(i) ==
    /\ Is(i, {"start", "restart"}, "start")
    /\ LET g == reqs[i].g
       IN  /\ rts[g].step = "idle"
           /\ IF Running(g) THEN Done(i) /\ UNCHANGED rts
              ELSE /\ rts' = [rts EXCEPT ![g].step = "scan"]
                   /\ reqs' = [reqs EXCEPT ![i].step = "starting"]
    /\ UNCHANGED <<rows, sup, pending, writing, lock, boot, world, acts, stops, history>>

\* stop, or the first half of restart.  A stop cancels the restart that was planned.
BeginsStop(i) ==
    /\ Is(i, {"stop", "restart"}, "stop")
    /\ LET g == reqs[i].g
       IN  IF reqs[i].kind = "restart" /\ ~Running(g)
           THEN reqs' = [reqs EXCEPT ![i].step = "start"] /\ UNCHANGED <<rts, pending>>
           ELSE /\ rts[g].step = "idle"
                /\ IF Running(g) /\ IsAlive(rts[g].hand)
                   THEN /\ Becomes(g, [rts[g] EXCEPT !.state = "STOPPING"])
                        /\ reqs' = [reqs EXCEPT ![i].step = "stopping"]
                   ELSE /\ rts' = IF rts[g].state = "CRASHED"
                                  THEN [rts EXCEPT ![g].watched = FALSE] ELSE rts
                        /\ Done(i) /\ UNCHANGED pending
    /\ UNCHANGED <<rows, sup, writing, lock, boot, world, acts, stops, history>>

\* The process has ended; a restart also waits for the state, with a timeout.
EndsStop(i) ==
    /\ Is(i, {"stop", "restart"}, "stopping")
    /\ ~IsAlive(rts[reqs[i].g].hand)
    /\ reqs[i].kind = "restart" => ~Running(reqs[i].g)
    /\ reqs' = [reqs EXCEPT ![i].step = IF reqs[i].kind = "stop" THEN "save" ELSE "start"]
    /\ UNCHANGED <<rows, sup, rts, pending, writing, lock, boot, world, acts, stops, history>>

\* _persist: what the runtime says now ...
Persists(i) ==
    /\ Is(i, {"start", "stop", "restart"}, "save")
    /\ LET g == reqs[i].g
       IN  reqs' = [reqs EXCEPT ![i].step = "commit", ![i].arg =
                        [state |-> rts[g].state, proc |-> rts[g].hand]]
    /\ UNCHANGED <<rows, sup, rts, pending, writing, lock, boot, world, acts, stops, history>>

\* ... is written once the lock is had: the columns that differ from the row as the
\* request has read it.
CommitsState(i) ==
    /\ Is(i, {"start", "stop", "restart"}, "commit") /\ lock = None
    /\ LET r == reqs[i]
           s == r.s
       IN  /\ rows[s] # None
           /\ rows' = [rows EXCEPT
                  ![s].state = IF r.arg.state = r.read.state THEN @ ELSE r.arg.state,
                  ![s].proc = IF r.arg.proc = r.read.proc THEN @ ELSE r.arg.proc]
           /\ unsure' = IF \/ sup[s] = None
                           \/ rows'[s].state # rts[sup[s]].state
                           \/ rows'[s].proc # rts[sup[s]].hand
                        THEN unsure \cup {s} ELSE unsure
    /\ Done(i)
    /\ UNCHANGED <<sup, rts, pending, writing, lock, boot, world, acts, stops,
                   undone, orphaned, crossed>>

\* The row is gone, the lock does not come, or the answer fails.
Fails(i) ==
    /\ reqs[i] # None /\ reqs[i].step \in {"commit", "apply", "plan"} /\ lock # i
    /\ Done(i)
    /\ undone' = IF Is(i, {"delete"}, "commit") THEN undone \cup {reqs[i].s} ELSE undone
    /\ UNCHANGED <<rows, sup, rts, pending, writing, lock, boot, world, acts, stops,
                   unsure, orphaned, crossed>>

NotRunning(s) == sup[s] # None => ~Running(sup[s])

\* update_server: refused while the server runs; it may change neither of the two, its name
\* for one, or both ...
AsksUpdate(i, s) ==
    \E dir \in Dirs, enabled \in BOOLEAN :
        NotRunning(s) /\ Asks(i, s, "update", "apply", [dir |-> dir, enabled |-> enabled])

\* Starting with MSM may be changed at any time, a server that runs included.
SetsAutostart(s) ==
    /\ boot.phase = "up" /\ acts < MaxActs /\ acts' = acts + 1
    /\ rows[s] # None /\ lock = None
    /\ rows' = [rows EXCEPT ![s].auto = ~@]
    /\ UNCHANGED <<memory, world, stops, history>>

\* ... then the row is flushed and the runtime replaced ...
Applies(i) ==
    /\ Is(i, {"update"}, "apply") /\ lock = None
    /\ LET r == reqs[i]
       IN  /\ rows[r.s] # None
           /\ r.arg.dir # r.read.dir => r.arg.dir \notin gone
           /\ Replaced(r.s, IF r.arg.enabled THEN r.arg.dir ELSE None)
           /\ crossed' = IF \E j \in Slots : /\ Is(j, {"delete"}, "go") \/ Is(j, {"delete"}, "erase")
                                            /\ reqs[j].arg = r.arg.dir
                         THEN crossed \cup {r.arg.dir} ELSE crossed
    /\ lock' = i
    /\ reqs' = [reqs EXCEPT ![i].step = "commit"]
    /\ UNCHANGED <<rows, writing, boot, world, acts, stops, undone>>

\* A server has a runtime, and its row tells of another folder or of none.
Disagrees(s, row) ==
    sup[s] # None /\ (row = None \/ ~row.enabled \/ row.dir # rts[sup[s]].dir)

\* ... and the transaction ends: the columns that were changed.  Two updates that cross may
\* leave half of each.
CommitsUpdate(i) ==
    /\ Is(i, {"update"}, "commit")
    /\ LET r == reqs[i]
       IN  /\ rows' = [rows EXCEPT
                  ![r.s].dir = IF r.arg.dir = r.read.dir THEN @ ELSE r.arg.dir,
                  ![r.s].enabled = IF r.arg.enabled = r.read.enabled THEN @ ELSE r.arg.enabled]
           /\ orphaned' = IF Disagrees(r.s, rows'[r.s])
                          THEN orphaned \cup {rts[sup[r.s]].dir} ELSE orphaned
    /\ lock' = None /\ Done(i)
    /\ UNCHANGED <<sup, rts, pending, writing, boot, world, acts, stops,
                   unsure, undone, crossed>>

\* delete_server: refused while the server runs; the folder is the one of the row ...
AsksDeletion(i, s) ==
    NotRunning(s) /\ rows[s] # None /\ Asks(i, s, "delete", "plan", rows[s].dir)

\* Mutant: the other servers are not looked at.
PlansAlone(i) ==
    /\ Is(i, {"delete"}, "plan")
    /\ reqs' = [reqs EXCEPT ![i].step = "go"]
    /\ UNCHANGED <<rows, sup, rts, pending, writing, lock, boot, world, acts, stops, history>>

\* ... and that of no other server ...
Plans(i) ==
    /\ Is(i, {"delete"}, "plan")
    /\ \A t \in Servers \ {reqs[i].s} : rows[t] # None => rows[t].dir # reqs[i].arg
    /\ crossed' = IF \E j \in Slots : Is(j, {"update"}, "commit") /\ reqs[j].arg.dir = reqs[i].arg
                  THEN crossed \cup {reqs[i].arg} ELSE crossed
    /\ reqs' = [reqs EXCEPT ![i].step = "go"]
    /\ UNCHANGED <<rows, sup, rts, pending, writing, lock, boot, world, acts, stops,
                   unsure, undone, orphaned>>

\* ... the runtime goes ...
Unregisters(i) ==
    /\ Is(i, {"delete"}, "go")
    /\ Replaced(reqs[i].s, None)
    /\ reqs' = [reqs EXCEPT ![i].step = "erase"]
    /\ UNCHANGED <<rows, writing, lock, boot, world, acts, stops, undone, crossed>>

\* ... the files, in a thread ...
Erases(i) ==
    /\ Is(i, {"delete"}, "erase")
    /\ gone' = gone \cup {reqs[i].arg}
    /\ reqs' = [reqs EXCEPT ![i].step = "commit"]
    /\ UNCHANGED <<rows, sup, rts, pending, writing, lock, boot, alive, spawned, acts, stops,
                   history>>

\* ... and the row last.  An update that crossed the deletion has made a new runtime.
CommitsDeletion(i) ==
    /\ Is(i, {"delete"}, "commit") /\ lock = None
    /\ LET s == reqs[i].s
       IN  /\ rows' = [rows EXCEPT ![s] = None]
           /\ orphaned' = IF Disagrees(s, None)
                          THEN orphaned \cup {rts[sup[s]].dir} ELSE orphaned
    /\ Done(i)
    /\ UNCHANGED <<sup, rts, pending, writing, lock, boot, world, acts, stops,
                   unsure, undone, crossed>>

(***************************************************************************)
(* RuntimeStateRecorder.                                                   *)
(***************************************************************************)
\* Mutant: the state is that of the event, which the queue may have kept for long.
TakesNothing(s) ==
    /\ s \in pending /\ writing = None
    /\ pending' = pending \ {s}
    /\ UNCHANGED <<rows, sup, rts, reqs, writing, lock, boot, world, acts, stops, history>>

\* The identifiers of the process are read on the runtime, not in the event.
Takes(s) ==
    /\ s \in pending /\ writing = None
    /\ pending' = pending \ {s}
    /\ writing' = IF sup[s] = None THEN None
                  ELSE [s |-> s, state |-> rts[sup[s]].state, proc |-> rts[sup[s]].hand]
    /\ unsure' = IF sup[s] = None THEN unsure \cup {s} ELSE unsure \ {s}
    /\ UNCHANGED <<rows, sup, rts, reqs, lock, boot, world, acts, stops,
                   undone, orphaned, crossed>>

Writes ==
    /\ writing # None /\ lock = None
    /\ rows' = IF rows[writing.s] = None THEN rows
               ELSE [rows EXCEPT ![writing.s].state = writing.state,
                                 ![writing.s].proc = writing.proc]
    /\ writing' = None
    /\ UNCHANGED <<sup, rts, reqs, pending, lock, boot, world, acts, stops, history>>

\* The database stays locked, two writers met twice, or the lines of the console, which
\* are in the same queue, have pushed the event out: the state is not written.
WriteFails ==
    /\ writing # None
    /\ writing' = None /\ unsure' = unsure \cup {writing.s}
    /\ UNCHANGED <<rows, sup, rts, reqs, pending, lock, boot, world, acts, stops,
                   undone, orphaned, crossed>>

(***************************************************************************)
(* MSM stops, or is killed, and boots again: the servers go on.            *)
(***************************************************************************)
Known == {s \in Servers : rows[s] # None /\ rows[s].enabled}

\* The folders of the runtimes whose update is not committed: a stop undoes it.
Uncommitted ==
    {rts[sup[reqs[i].s]].dir :
        i \in {j \in Slots : Is(j, {"update"}, "commit") /\ sup[reqs[j].s] # None}}

\* Nothing forbids an update to give a server the folder of another: both may be started at
\* once, and a boot finds only one process of a folder.
Crowded == {a.dir : a \in {b \in alive : \E c \in alive : c # b /\ c.dir = b.dir}}

\* The process of a row is adopted wherever it runs: a start that went on in a runtime out
\* of sight may have written its own in the row of a server that has moved.
Misled ==
    {rows[s].dir : s \in {t \in Known : /\ rows[t].state \in RunningStates
                                        /\ \E a \in alive : a.p = rows[t].proc
                                                           /\ a.dir # rows[t].dir}}

MsmStops ==
    /\ stops < MaxStops /\ stops' = stops + 1
    /\ sup' = [s \in Servers |-> None] /\ rts' = [g \in Gens |-> None]
    /\ reqs' = [i \in Slots |-> None]
    /\ pending' = {} /\ writing' = None /\ lock' = None
    /\ boot' = [phase |-> "register", todo |-> {}, resets |-> {}]
    /\ unsure' = (unsure \cup pending \cup {s \in Servers : writing # None /\ writing.s = s}
                    \cup {s \in Servers : sup[s] # None}) \ Known
    /\ undone' = undone \cup {reqs[i].s : i \in {j \in Slots : Is(j, {"delete"}, "commit")}}
    /\ orphaned' = ((orphaned \cup Uncommitted) \ ({rows[s].dir : s \in Known} \ gone))
                   \cup Crowded \cup Misled
    /\ UNCHANGED <<rows, world, acts, crossed>>

\* register_all: a new runtime for each server.
Numbered(servers) ==
    LET number == CHOOSE n \in [servers -> 1..Cardinality(servers)] : IsInjective(n)
    IN  [s \in Servers |-> IF s \in servers THEN number[s] ELSE None]

Registering(servers, dirs) ==
    [g \in Gens |->
        IF \E s \in servers : Numbered(servers)[s] = g
        THEN LET s == CHOOSE t \in servers : Numbered(servers)[t] = g IN Runtime(s, dirs[s])
        ELSE None]

RegistersAll ==
    /\ boot.phase = "register"
    /\ sup' = Numbered(Known)
    /\ rts' = Registering(Known, [s \in Known |-> rows[s].dir])
    /\ boot' = [boot EXCEPT !.phase = "adopt", !.todo = Known]
    /\ UNCHANGED <<rows, reqs, pending, writing, lock, world, acts, stops, history>>

\* Mutant: a process is only known by the row.
AdoptableByRow(s) ==
    IF rows[s].state \in RunningStates /\ IsAlive(rows[s].proc) THEN {rows[s].proc} ELSE {}

\* The process in the row, if it still runs, else the one found in the folder.
Adoptable(s) ==
    IF rows[s].state \in RunningStates /\ IsAlive(rows[s].proc) THEN {rows[s].proc}
    ELSE InFolder(rows[s].dir)

\* The servers come in the order of their names.
First(servers) == CHOOSE s \in servers : TRUE

\* adopt_running.  A row that says running for nothing is reset, in the transaction of
\* the boot.
Adopts(s) ==
    /\ boot.phase = "adopt" /\ boot.todo # {} /\ s = First(boot.todo)
    /\ IF Adoptable(s) # {}
       THEN /\ \E p \in Adoptable(s) :
                  Becomes(sup[s], [rts[sup[s]] EXCEPT !.state = "UNKNOWN", !.hand = p,
                                                      !.watched = TRUE])
            /\ boot' = [boot EXCEPT !.todo = @ \ {s}]
            /\ UNCHANGED lock
       ELSE /\ UNCHANGED <<rts, pending>>
            /\ boot' = [boot EXCEPT !.todo = @ \ {s},
                                    !.resets = IF rows[s].state \in RunningStates
                                               THEN @ \cup {s} ELSE @]
            /\ lock' = IF rows[s].state \in RunningStates THEN "boot" ELSE lock
    /\ UNCHANGED <<rows, sup, reqs, writing, world, acts, stops, history>>

\* autostart comes after every adoption: here, each server in its turn.
BeginsAutostart ==
    /\ boot.phase = "adopt" /\ boot.todo = {}
    /\ boot' = [boot EXCEPT !.phase = "autostart", !.todo = {s \in Known : rows[s].auto}]
    /\ UNCHANGED <<rows, sup, rts, reqs, pending, writing, lock, world, acts, stops, history>>

Autostarts(s) ==
    /\ boot.phase = "autostart" /\ boot.todo # {} /\ s = First(boot.todo)
    /\ \A g \in Gens : rts[g] # None => rts[g].step = "idle"
    /\ boot' = [boot EXCEPT !.todo = @ \ {s}]
    /\ rts' = IF Running(sup[s]) THEN rts ELSE [rts EXCEPT ![sup[s]].step = "scan"]
    /\ UNCHANGED <<rows, sup, reqs, pending, writing, lock, world, acts, stops, history>>

Boots ==
    /\ boot.phase = "autostart" /\ boot.todo = {}
    /\ \A g \in Gens : rts[g] # None => rts[g].step = "idle"
    /\ boot' = [phase |-> "up", todo |-> {}, resets |-> {}]
    /\ rows' = [s \in Servers |->
          IF s \in boot.resets THEN [rows[s] EXCEPT !.state = "OFFLINE", !.proc = None]
          ELSE rows[s]]
    /\ lock' = None
    /\ UNCHANGED <<sup, rts, reqs, pending, writing, world, acts, stops, history>>

\* The first boot has found nothing that runs.
Init ==
    /\ rows = [s \in Servers |-> [dir |-> Home[s], enabled |-> TRUE, auto |-> s \in Asked,
                                  state |-> "OFFLINE", proc |-> None]]
    /\ sup = Numbered(Servers) /\ rts = Registering(Servers, Home)
    /\ alive = {} /\ spawned = 0 /\ gone = {}
    /\ reqs = [i \in Slots |-> None]
    /\ pending = {} /\ writing = None /\ lock = None
    /\ boot = [phase |-> "up", todo |-> {}, resets |-> {}]
    /\ acts = 0 /\ stops = 0
    /\ unsure = {} /\ undone = {} /\ orphaned = {} /\ crossed = {}

RuntimeStep(g) ==
    \/ Scans(g) \/ Spawns(g) \/ StartFails(g) \/ NoticesExit(g)
    \/ RestartsAlone(g)

RequestStep(i) ==
    \/ BeginsStart(i) \/ BeginsStop(i) \/ EndsStop(i) \/ Persists(i) \/ CommitsState(i)
    \/ Fails(i) \/ Applies(i) \/ CommitsUpdate(i)
    \/ Plans(i) \/ Unregisters(i) \/ Erases(i) \/ CommitsDeletion(i)

BootStep ==
    \/ RegistersAll \/ BeginsAutostart \/ Boots
    \/ \E s \in Servers : Adopts(s) \/ Autostarts(s)

\* The routes of a server.
Requests ==
    \/ \E i \in Slots, s \in Servers : AsksUpdate(i, s) \/ AsksDeletion(i, s)
    \/ \E s \in Asked : SetsAutostart(s) \/ \E i \in Slots : AsksServer(i, s)

Next ==
    \/ \E g \in Gens : RuntimeStep(g)
    \/ \E i \in Slots : RequestStep(i)
    \/ Requests
    \/ \E s \in Servers : Takes(s)
    \/ Writes \/ WriteFails
    \/ \E a \in alive : Exits(a)
    \/ MsmStops \/ BootStep

Spec == Init /\ [][Next]_vars

(***************************************************************************)
(* Properties.                                                             *)
(***************************************************************************)
States == RunningStates \cup {"OFFLINE", "CRASHED"}
Rows == [dir : Dirs, enabled : BOOLEAN, auto : BOOLEAN, state : States, proc : Procs \cup {None}]
Runtimes == [server : Servers, dir : Dirs, state : States, hand : Procs \cup {None},
             watched : BOOLEAN, step : {"idle", "scan", "prepare"}]
Reports == [state : States, proc : Procs \cup {None}]

LifeKinds == {"start", "stop", "restart"}
Lives == [kind : LifeKinds, s : Servers, g : Gens, arg : Reports \cup {None}, read : Rows,
          step : {"start", "stop", "starting", "stopping", "save", "commit"}]
Updates == [kind : {"update"}, s : Servers, g : Gens \cup {None}, read : Rows,
            arg : [dir : Dirs, enabled : BOOLEAN], step : {"apply", "commit"}]
Deletions == [kind : {"delete"}, s : Servers, g : Gens \cup {None}, read : Rows,
              arg : Dirs, step : {"plan", "go", "erase", "commit"}]

Writings == [s : Servers, state : States, proc : Procs \cup {None}]

ASSUME NoneIsNothing ==
    /\ None \notin Dirs /\ None \notin Slots /\ None # "boot" /\ None \notin Nat
    /\ None \notin Rows \cup Runtimes \cup Lives \cup Updates \cup Deletions \cup Writings

\* The runtime of a server is its own; a process that is written has a report to write.
TypeOK ==
    /\ rows \in [Servers -> Rows \cup {None}]
    /\ sup \in [Servers -> Gens \cup {None}] /\ rts \in [Gens -> Runtimes \cup {None}]
    /\ \A s \in Servers : sup[s] # None => rts[sup[s]] # None /\ rts[sup[s]].server = s
    /\ alive \subseteq [p : Procs, dir : Dirs] /\ spawned \in 0..MaxProcs
    /\ gone \subseteq Dirs
    /\ reqs \in [Slots -> Lives \cup Updates \cup Deletions \cup {None}]
    /\ \A i \in Slots : Is(i, LifeKinds, "commit") => reqs[i].arg \in Reports
    /\ pending \subseteq Servers
    /\ writing \in Writings \cup {None}
    /\ lock \in Slots \cup {"boot", None}
    /\ boot \in [phase : {"up", "register", "adopt", "autostart"}, todo : SUBSET Servers,
                 resets : SUBSET Servers]
    /\ acts \in 0..MaxActs /\ stops \in 0..MaxStops
    /\ unsure \subseteq Servers /\ undone \subseteq Servers
    /\ orphaned \subseteq Dirs /\ crossed \subseteq Dirs

Watches(s, p) == sup[s] # None /\ rts[sup[s]].hand = p /\ rts[sup[s]].watched

\* orphans.py:3: once MSM has booted, every server that runs is in the hands of the
\* runtime MSM finds for it, unless that runtime was replaced while a start was under
\* way: its state still said OFFLINE.
EveryProcessIsHeld ==
    boot.phase = "up" => \A a \in alive :
        a.dir \in orphaned \/ \E s \in Servers : Watches(s, a.p)

\* Once the recorder has nothing left to do, the row of a server tells what runs: that
\* is what the next boot starts from.
RowsTellWhatRuns ==
    \A s \in Servers :
        ( /\ boot.phase = "up" /\ sup[s] # None /\ rows[s] # None
          /\ s \notin pending \cup unsure
          /\ writing = None \/ writing.s # s )
        => LET r == rts[sup[s]]
           IN  /\ rows[s].state \in RunningStates <=> r.state \in RunningStates
               /\ r.state \in RunningStates => rows[s].state = r.state /\ rows[s].proc = r.hand

\* No server runs in a folder that was erased, but under a runtime replaced during a start,
\* or when another server moved to the folder during the deletion.
NothingRunsInErased == \A a \in alive : a.dir \in gone => a.dir \in orphaned \cup crossed

\* A server that is listed has its files: a deletion erases the folder of no other server.
\* But the files go before the row, whose last step may fail, and the other servers are
\* looked at before, so that one may move to the folder in between.
ListedHasFiles ==
    \A s \in Servers : rows[s] # None /\ rows[s].dir \in gone =>
        \/ s \in undone \/ rows[s].dir \in crossed
        \/ \E i \in Slots : reqs[i] # None /\ reqs[i].kind = "delete" /\ reqs[i].s = s

\* Nobody loses its files to the deletion of another.
FilesAreKept == NothingRunsInErased /\ ListedHasFiles
=============================================================================
