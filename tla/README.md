# Minecraft Server Manager in TLA+

Minecraft Server Manager (MSM) is a panel that starts, stops, supervises, backs
up and schedules Minecraft servers on one machine: a Python backend (one asyncio
event loop, SQLite, threads for file work) and a React front end. This
directory holds TLA+ models of the parts where steps interleave, fail or
outlive each other, the TLC configurations that check them, and TLAPS proofs.

Every definition is written from the source; `PROJECT.json` gives, for each one,
the file and the lines it stands for. All paths below are relative to
`src/backend/msm/` unless they begin with `src/`.

What is common to all models: the backend is one event loop, so the code between
two `await`s is atomic, and an `await` is a place where any other task may run.
An action is one such stretch. What runs in a thread (`asyncio.to_thread`) and
the processes of the operating system interleave with everything. SQLite has one
writer, and a transaction holds the write lock from its first flush to its
commit: where that matters, the lock is a variable of the model.

## 1. Inventory

| Component | State it keeps | Operations | Talks to |
|---|---|---|---|
| Server runtime (`runtime/server_runtime.py`, `process_handle.py`, `core/states.py`) | state machine, process handle or adopted process, pending restart, crash counter, request lock | start, stop, kill, restart, adopt, detach, supervise, watch readiness | OS processes, restart policy, log pipeline, bus |
| Restart policy (`core/restart_policy.py`) | none (pure) | evaluate, compute_delay, is_stable | runtime |
| Supervisor and server registry (`runtime/supervisor.py`, `services/server_service.py`) | runtimes by server id; rows of `servers` | register, unregister, shutdown, create, update, delete, resync, adopt_running | database, runtimes, files |
| Lifecycle service and state recorder (`services/lifecycle_service.py`, `runtime_recorder.py`) | state and process in the rows of `servers` | start/stop/kill/restart for a user, record pid and state | runtime, bus, hosting |
| Logs: pipeline, ring buffer, bus, WebSocket, browser store (`runtime/log_pipeline.py`, `bus/event_bus.py`, `ws/connection.py`, `src/frontend/src/ws/client.ts`, `stores/realtime.ts`) | line numbers, last lines, queues, cursors | ingest, subscribe with resume, batch, drop, reconnect | runtime, browser |
| Backups (`services/backup_service.py`, `backup/`) | rows of `backups`, archives, the tasks that write them, the saving of a hot server | start, run, cancel, delete, purge, restore, mark interrupted | runtime (save-off/save-on), log, threads |
| Scheduler (`services/schedule_service.py`, `schedule/rules.py`) | rows of `schedules`, the loop | create, update, delete, run now, tick | every action above |
| Event engine (`events/`, `services/event_service.py`), console and player actions | rows of `event_runs`, the tasks that run them | edit an event, start, steps, report, cancel, mark interrupted; one command by hand | runtime |
| Provisioning and hosting (`services/provisioning_service.py`, `hosting_service.py`) | creations under way, servers' folders, quotas, ports | create a server, undo a creation, register a folder, delete files, allocate a port | registry, downloads |
| Launcher synchronisation (`services/launcher_service.py`, `launcher_sync/`) | row of the link (etag, entries, pending plan, revisions), installed files, staging | synchronise, apply at start, publish, configure, remove | runtime (pre-start hook), files, file server |
| Notifications (`services/notifier.py`, `notification_service.py`) | last states seen, batch being collected, settings | collect, flush, configure, stop | bus, Discord |
| Players (`runtime/server_runtime.py`, `core/patterns.py`, `services/player_recorder.py`) | who is online, sessions counted | read a line, publish, record | log, bus, database |
| Accounts and access (`services/auth_service.py`, `account_service.py`, `google_service.py`, `member_service.py`, `security/rbac.py`) | accounts, sessions, invitations, names left, members | sign in and out, register, rename, update, ban, delete, share | lifecycle service |
| Metrics, HTTP, Minecraft files, downloads, i18n, CLI, web pages | rows, files | one request each | services |

What is hard, component by component:

* **Runtime.** A request, the automatic restart, the supervision of the process,
  the liveness poll of an adopted process, the readiness timer, the log reader
  and the exit of the process all touch one state; a stop waits outside the
  lock; MSM stops and restarts while servers go on; a launch script may end
  while Java lives. Correct when: one process per folder, a state that always has somebody
  in charge of it, stops that end and stick, restarts that give up.
* **Logs.** Two tasks per connection, a bounded queue that drops, a client that
  reconnects and resumes by number, numbers that start over. Correct when: order
  is kept, losses are said, an open page catches up.
* **Backups.** A thread that cannot be cancelled, a server whose saving is
  suspended, a purge that deletes files before it commits, a restore that takes a
  safety backup first. Correct when: saving always comes back, what is marked
  complete exists and is consistent, the purge keeps enough, nothing is
  destroyed without a complete safety copy, and that copy undoes the restore.
* **Scheduler.** Local time across clock changes; a run reads its row, acts for
  minutes and writes it back. Correct when: nothing due is forgotten or repeated,
  and edits made meanwhile survive.
* **Event engine.** A cancellation may land in any await, including those of the
  report; the event is edited after it was confirmed. Correct when: the history
  closes and tells what was done, and only what was confirmed is sent.
* **Registry.** Checks, awaits, then effects; a runtime is replaced before the
  transaction commits; rows are written behind the back of the runtimes. Correct
  when: every process is in the hands of the runtime MSM finds, rows tell what
  runs, a deletion costs nobody else its files.
* **Provisioning.** Quota, folder, port and name are checked long before they are
  taken. Correct when: one server per folder and port, quotas kept, files kept.
* **Launcher synchronisation.** A plan made now is applied at the next start; the
  remote side has its own cache keys and revisions. Correct when: only what MSM
  installed is removed, what is switched off stays off, a start always ends.
* **Notifications.** A window, retries, a bounded queue, settings that change.
  Correct when: a crash is told, and a channel that is off is quiet.
* **Players.** The log is the only source. Correct when: a session is counted
  once and the players shown are those in the game.
* **Accounts.** Requests read, check, and commit later. Correct when: an
  administrator remains, names and invitations are of one, closed sessions stay
  closed, the servers of a banned account stop.

## 2. Modules

| Module | What it is |
|---|---|
| `ServerState` | the states and the transition table of `core/states.py` |
| `RestartPolicy` | `evaluate` and `compute_delay` as operators |
| `RestartLoop` | the loop those decisions make with `_supervise`, for every policy |
| `ServerRuntime` | one server, its runtime and its processes, in full |
| `PanelContract` | the abstract specification `ServerRuntime` implements |
| `Registry` | several servers: rows, runtimes, processes, updates and deletions, the recorder, the boot |
| `RegistryProofs` | the theorems about `Registry` |
| `LogStream` | a server's lines from the pipeline to the page of a browser |
| `RuntimeProofs` | the theorems about `ServerRuntime` and `LogStream` |
| `Backups` | the backups of one server and the server they copy |
| `BackupContent` | which files a backup takes, and what a restore makes of a folder |
| `BackupsProofs` | the theorems about `Backups` and `BackupContent` |
| `ScheduleRules` | `next_occurrence` and `_at_local` as operators |
| `RuleReference` | what those rules promise: a search instant by instant |
| `Scheduler` | the loop, manual runs, edits and stops of MSM, in explicit time |
| `SchedulerProofs` | the theorems about `Scheduler` and `ScheduleRules` |
| `EventRuns` | recorded events, one run of one, its history, and the commands sent by hand beside it |
| `EventProofs` | the theorems about `EventRuns`, `Notices` with its restart loop, and `Players` |
| `Provisioning` | the creations, registrations and deletions of servers: folders, ports, quotas, rows |
| `ProvisioningProofs` | the theorems about `Provisioning` |
| `LauncherSync` | the link of a server with its file server |
| `LauncherSyncProofs` | the theorems about `LauncherSync` |
| `Notices` | the restart loop, the bus, the notifier and Discord |
| `Players` | the players of a server, from its log to the rows |
| `Accounts` | the accounts, their sessions and invitations, and the server of a banned one |
| `AccountsProofs` | the theorems about `Accounts` |
| `MC*` | constants for TLC; they define values, and the instances of pure operators |

`Notices` composes `RestartLoop` (each of its steps is a step of the loop with the
events it publishes), `Scheduler` extends `ScheduleRules`, and the pure modules are
examined as an assumption of `MCBackups` and in the first states of `MCScheduler`.

### 2.1 ServerRuntime

Variables are the attributes of `ServerRuntime` (`_state` is `state`, `_handle`
`handle`, `_adopted` `adopted`, `_stop_requested` `stopRequested`,
`_consecutive_crashes` `crashes`, `_restart_task` `restart`, `_lock` `lock` and
`waiters`) and the processes of the machine (`live`). A task is at a place
`pc[t]`, named for the await it is in. The asyncio lock is first in, first out:
releasing it hands it to the head of the queue before that task runs, which is
what `_cancel_pending_restart` and the restart task race on.

A process number stands for the Java machine that holds the world together with
the script that launched it; `exit` is what the leader of the group returned,
`LauncherExits` that script ending alone. `find_server_process` looks for Java in
the folder, `is_alive` for the recorded leader: the two may disagree, and the
model keeps both (`viaLeader`).

MSM stops (`shutdown` detaches the runtimes, servers go on) or crashes, and its
next life starts with fresh memory and adopts by PID or by folder.

`PanelContract` says what a user is promised: the world is held by at most one
process, a process appears only for a launch that somebody is entitled to, and
the panel's view follows. The refinement mapping is at the end of
`ServerRuntime` (`ImplementsContract`).

### 2.2 Registry

Here a runtime keeps what others see of it: its folder, its state, the process in
its hand and whether it watches it. `sup` is `Supervisor._runtimes`; a runtime that
was replaced stays in `rts`, where nobody finds it, and goes on. A start scans in a
thread while the state still says OFFLINE; an update flushes its row, replaces the
runtime and commits later; a deletion unregisters, erases and commits last. The
recorder keeps one pending status per server, reads the process on the runtime and
writes; its writes may fail. `MsmStops` leaves the rows and the processes; the boot
registers, adopts by the row or by the folder, resets the rows that say running for
nothing (in the transaction that holds the write lock through autostart), and starts
what starts with MSM. STARTING stands for ONLINE as well.

`unsure`, `undone`, `orphaned` and `crossed` are history variables: which rows nothing
vouches for, which deletions did not end, which folders a boot may not look at or a
runtime nobody finds may run in, and which folders a server moved to during their
deletion. A folder becomes `orphaned` when its runtime is replaced in use, when a commit
leaves a row that tells another folder than the runtime (`Disagrees`), and at a stop of
MSM when an update is not committed, when two processes run in it (`Crowded`) or when the
row of its server names a process of another folder (`Misled`); a stop takes it back when
the row of a known server tells it.

### 2.3 LogStream

One server and one browser. `Ingest` is one line: numbered, kept in the ring
buffer, published to the queue of the connection, which drops its oldest event
when full. The writer task takes the batch, groups the lines and sends; the
receive loop answers a `subscribe` by following the topics, then sending the
history. Each send is an await, so the two interleave. `Receive` is the browser:
the filter of `appendLogs` and the count of missed lines. Events of the other
channels are one kind (`Status`). `life` is the numbering: the store keeps the lines
of two numberings together and compares their numbers only, so order is promised
within a numbering. `MaxHappenings` bounds all that happens around the stream at once, so that
the run combines any few of these accidents.

### 2.4 Backups and BackupContent

Each backup has a row, a task at a phase (one per await of `_run_backup`), a
thread that writes the archive and cannot be interrupted, and an archive. The
server executes the commands it is sent in order and answers in its log. The
purge unlinks and commits in two steps; a deletion unlinks and then commits; each of
these transactions, and those that write how a backup ended, may fail and is then only
logged: `unwritten` remembers the rows. A restore is a task of three steps after the
safety backup; nothing keeps two of them apart, and `restoring` holds each under its
safety backup. An archive is there or not: that a file which cannot be read, or no
longer written, is skipped and the backup completes without it (`archive.py:104-107`)
is not told apart, so what is proved of archives is that they are kept and that nobody
wrote the world under the copy, never that nothing was skipped. Two backups never
start in the same second, so each has a name of its own, and a backup is
cancelled only once it was announced (its identifier is known), which is when it
has reached its first await.

`BackupContent` has no state. A folder is a function from paths to contents; a path
is known by its first-level folder and by the classes it belongs to (settings at the
root, data of plugins, jars, excluded names). `BackupOf` is what the archive of a
folder nobody writes holds, `Restorations` what an extraction may leave: one result,
or several when a member is refused after some were written.

### 2.5 ScheduleRules, RuleReference, Scheduler

Time is an integer. A zone is an offset before and after one change of the clock,
which is the most that a rule meets between two of its occurrences. `RuleReference`
compares each occurrence with a search instant by instant, and each series of an
interval, on time or with idle time, with its steps.

In `Scheduler` time is explicit: `ClockTicks` may not pass an instant at which
the loop must wake, nor outlast the longest action. This is the assumption that
Python itself takes no time and that an action ends within `MaxRun`. A run is
two actions: `RunBegins` loads the row (its rule and whether it is enabled),
`RunEnds` commits the outcome and the next occurrence computed from what was
loaded; the edits of users fall in between. A row deleted meanwhile makes the
commit fail as a whole, which the ORM reports by an exception that ends the tick.
SUCCESS, FAILED and SKIPPED are one status and `last_run_at` is left out: nothing
reads them back. A task is created enabled or not, as the request says.

The rules are those `parse_rule` lets in (`IsRule`): an interval of at least one
unit, a time of the day, some weekday. `IsZone` asks of a zone that it is not set
back by more than a day, without which "today or tomorrow" would not reach the next
occurrence. `TickLasts` is what one tick takes at most, every task being run in
turn; `Patience` is the wait that follows from it.

### 2.6 EventRuns

A sequence is a list of kinds of steps; `Commands` is what each sends: a title is
three commands, a delay none, the others one. The event is edited or deleted, the
rights of its author change and the server stops, starts, perhaps under another
runtime, or is deleted, all beside the run. `start_run` checks the rights and the
confirmation on the steps it has read; `allowed` remembers their commands, in order.
The words of a title (`times`, `subtitle`) are nobody's kind of step, and `idle` is
no command (`TitlesAssumption`).

`pc` is the await the task is in. A report is published and handed to a shielded
write; writes take a first-in-first-out lock, and are two steps (the row is read,
then committed). `Cancel` raises where the task waits: inside the `try` it is
reported, in the report of the completion or of the cancellation it is not. A
run is cancelled only once it has begun, its identifier being known from then on.
`hand` is a request that sends commands by itself at the same time: a quick action,
an action on a player, the console. `times` and `mixed` are the screen of a player:
the durations in force, and whether a title was shown with those of another.

### 2.7 Provisioning

A creation is a request, then a background task; `creation[c].pc` is the await it
is at. The request reads the registry of tasks (`JobRegistry.running`) before an
await and uses it after: what it read stays in its record (`pending`, `taken`,
`reserved`) until then. An answer of the database and the use made of it are one
action; the last answer of `_validate` (`get_by_directory`), the check of the
registry and `registry.add` are therefore one action, `Admits`, which is what
makes folders exclusive.

A row is inserted at the flush and visible at the commit. SQLite has one writer:
`writer` is the creation between the two, and whoever else wants to write
meanwhile waits or fails. The unique constraints of the table are in `Inserts`.

An administrator registers a folder by hand (`POST /servers`), which is the second
half of a creation without its task. A deletion is planned, erases the files, and
only then commits its row: the commit may fail, and a stop of MSM may fall
between. A clean stop cancels the tasks, which undo what they wrote; a crash
undoes nothing; both lose the requests, and the next life starts with no task. The
stop and the new life are one action. The files of a folder are absent, empty or
there. A server may exist at the start (`Existing`), which stands for an older
creation.

`met`, `intruders` and `landed` are history variables that nothing in the actions
reads: the pairs of requests that overlapped, the servers inserted by hand in a
folder that was in use at that moment, and the commits that went through under a cancellation. They name
the exceptions of the properties.

### 2.8 LauncherSync

A path has two places in the folder, the file and its `.disabled` variant. The lock
of a server (`_lock`) is a queue whose head is the operation under way: a
synchronisation (fetch, inspect, plan, download, apply, commit), an application at
the start, its bookkeeping afterwards, or a publication. `op` is what that operation
keeps across its awaits, the columns it loaded included; the folder is read (`local`)
before the jars of unknown side are downloaded and inspected, and the plan is made from
what was read. `writer` is the write lock of
SQLite, which a start holds while its hook waits for the lock of the server; who
waits for it too long fails (`Busy`), and that is what ends the cycle. The restart that
follows a crash of the server has no session and waits for nobody's transaction
(`Automatic`): it may come between the check that the server is stopped and the end of
the application, and its hook then waits for the lock. The
administrator configures, removes, uploads, deletes and switches files meanwhile; the
file server changes its manifest. The publication asked for by hand is the one that
follows a synchronisation, and has no request of its own.

`acts` numbers what the administrator and the file server do; a link and an address
are known by the number of the action that made them, so none comes back.
`ours`, `overlaid`, `offs`, `stale` and `astray` are history variables that the
properties read: what was installed or adopted under the link, the files the
administrator put over one of MSM, what was disabled while no plan was
under way, and whether the cache or the publication is one of the exceptions.

A plan is applied in one step, though a thread does it file by file: what the
administrator does to a file meanwhile comes before or after what the plan does to that
file, hence before or after the plan. Within one file, the moment between the
replacement and the removal of its other variant (`disk.py:119-121`) is left out. A jar
found in place and renamed or replaced before it is inspected is noted as for both
sides (`sides.py:112-113`); the model inspects the one that was found.

### 2.9 Notices

`ServerEnds`, `StartsAgain` and `BecomesStable` are the steps of `RestartLoop` with
what they publish; other events, the lines of the console among them, fill the same
queue. The notifier takes an event, turns it into a fact, waits for the window,
reads the settings and posts; Discord accepts, refuses, asks to wait, or accepts
without its answer arriving, or an error of another kind ends the loop. One crash
(`mine`) is followed to its end.

### 2.10 Players

The server writes the lines of `core/patterns.py`; the runtime reads them (`online`,
`uuids`, `pending`, `recent` are its attributes) and publishes; the recorder takes
events from a bounded queue and counts. MSM stops and adopts the server, after which
the lines between are lost; a rotation of the log loses some too. The lines of a server
that is over may be read after the two seconds `_drain_reader` gives them, and after the
next start: they wait in `late`, beside the `log` of the new server. `LIST_RE` is searched
in every line, so that a line of chat, an answer whose names are on the next line or one
with UUIDs replaces the players shown (`Resembles`, `ReadsList`). A name may be a
pattern that matches another (`alike`: `_` in SQL's `ilike`). `due` counts the
sessions MSM could read and write, `blurred` holds the players whose last line it
could not read, or who are shown or hidden on the word of a line that says nothing of the
present. Two things are simplified: the two lines of one arrival are written together, and
the leftover lines of several past lives are read in their order.

### 2.11 Accounts

Requests are served at the same time (`reqs`). One with a session first notes that
the session was seen, which takes the write lock: all it does afterwards is one step,
but what it knows of its own account is what it had loaded. A sign-in, a registration
and a start in the background read first and write later. `closings`, `opened`, `met`
and `slipped` are history variables that name the exceptions.

An update may change the role, the activation, both or neither. The identifier of a
deleted account may serve again for the next one, with what was under way for the
former: SQLite gives the last one again (`db/models/user.py:42`); the model lets any
free one serve, which is more. The look-up of a name (`user_repo.py:28`) takes `_` and
`%` for wildcards, raises when two accounts match, and folds ASCII letters only.
`Fold` is that folding; the rest only refuses more, and a request may always be
refused (`Fails`). A sign-in by such a name reaches some account, whose password is
then the one that is checked, and `LogsIn` takes any account.

## 3. What the runs check

Every run is one configuration; the properties are stated, with the code they
are about, beside their definitions.

| Run | Question | Bounds, and why they are enough |
|---|---|---|
| `runtime` | one process per folder, stops that stick, refinement of `PanelContract`; stops end, requests are answered | 2 clients and the automatic restart, 3 processes, 3 requests, 1 stop of MSM: a start, a stop and a restart of the same server can overlap, before and after an adoption. The theorems of section 5 remove the bounds of the safety properties. |
| `registry` | every process is in the hands of the runtime MSM finds, rows tell what runs, a deletion takes only its own files | 2 servers in 2 folders, one of which starts with MSM; 2 requests at a time and in all, 2 processes, 1 stop of MSM: an update or a deletion replaces a runtime whose start is under way, a server moves to the folder of the other, and the next life finds what is left |
| `log_stream` | nothing shown twice, each numbering in order, a loss is counted, an open page catches up | six happenings of any kind (lines, events of other channels, a new numbering, lost connections, the page opened or closed), a ring of two lines of which a resume brings one (5000 and 2000 in the code), a queue of two that overflows, two lines per flush: each eviction, drop, resume, reconnection and history cut short happens |
| `log_restart_freezes` | a sentence of the repository the code does not keep (section 4) | the smallest bounds that show it |
| `backups` | saving comes back, archives are kept, copies are consistent, no worlds removed without a complete safety backup; and, as an assumption, `BackupContent` on every pair of folders | backups of users and restores over an old backup, three in all, two restores at once among them, with one start, stop, failure (of a transaction among others), cancellation, deletion and restart of MSM. Folders: a world with its lock file, a world that is a link, a plugin and its data, two contents |
| `scheduler_tasks` | nothing due is forgotten, repeated, or called missed without cause; the rules give the first instant that fits | 2 tasks, 2 rules, 2 edits or manual runs, 1 stop of MSM, two days of six instants; a daily task and one every four instants, actions of two, a grace of five. Rules, examined apart: a day of 12 units with an hour of 2, so half hours exist; changes forward and back, by an hour or half an hour, at night and at midnight |
| `event_runs` | what is sent was allowed and confirmed, titles keep their durations, the history is true and closes | a harmless sequence and one with a dangerous step, either of which may be edited into the other; a title and a kill by hand beside the run; 2 cancellations, a failed write, 2 changes, 2 lives of MSM |
| `creations` | folders are exclusive and keep their files; ports and quotas hold unless creations race | an account with a quota of one server and an administrator, 2 names (symmetric), 2 ports, a server from the start and 2 more creations or registrations by hand, 1 deletion, 1 stop of MSM: one creation is placed while another is under way and a third server is registered, deleted or undone; the range of ports runs out |
| `launcher` | what is off stays off, the cache is true, no file changes under a running server, only what MSM installed goes, a start ends | a jar whose side must be inspected and a file of a folder that is synchronised later; three manifests, of which the second updates one and drops the other and the third is empty, so that one removal is ordinary and two are a mass deletion; 2 actions of the administrator or the file server, 2 operations in the lock: enough to put a file over one that was installed and have a plan drop it |
| `notices` | a crash is told, a channel that is off is quiet; the policy gives up (unless the mode is ALWAYS), delays grow to the cap and start over | a policy of each mode, limits reached and exceeded, delays below and above the cap; a queue of 3 that overflows, 2 attempts; settings that change at any time |
| `players` | a session is counted once, those shown are in the game | 2 names, alike or not; two unread lines in all, of the server and of the one before it, a queue of one, one pending UUID, so that each limit is met; a look-alike of an answer that shows one player, hides the other and adds an unreadable name; 2 sessions |
| `accounts` | an administrator remains, names and invitations are of one, sessions end, the servers of a banned account stop | 3 accounts, 3 names of which two differ by case, 1 invitation, 1 Google identity; 3 requests of which 2 at a time: two that disturb each other, and one that prepares or reveals it |

Fairness, where a liveness property needs it:

* `ServerRuntime!FairSpec`: every task that can go on does, every timer fires, and
  SIGKILL ends the process that got it. No client has to ask, no server stops by
  itself, MSM need not stop.
* `LogStream!FairStreamSpec`: the receive loop, the writer and the browser read what
  arrived. The 100 ms window of the writer needs none: a full batch ends it too,
  and its end is the timer's.
* `EventRuns!FairSpec`: the event loop runs what is ready, an action ends, the
  database answers.
* `LauncherSync!Spec`: the operation that owns the lock goes on, downloads and
  threads end, a commit that waits too long fails. The administrator and the file
  server need do nothing.
* `Notices!NoticesSpec`: the notifier goes on (each request to Discord has a timeout), and a
  server that runs ends sooner or later, which is the case the policy is written for.

`CHECK_DEADLOCK FALSE` is set where the bounds, or the end of a task, stop the
system: a bounded run always ends.

Every property of a passing run has a mutant in `PROJECT.json`: a plausible error in
one definition, under which TLC finds the property violated.

## 4. What the code does not keep

One run checks a sentence of the repository that TLC finds violated; the finding in
`PROJECT.json` quotes it: with `log_restart_freezes`, a new numbering starts at 1 while
pages keep their cursor, and the console stands still until the new numbers pass the
old.

Other deviations are exceptions that a passing property names, so that TLC shows
that they are the only ones within its bounds:

| Property | Exception |
|---|---|
| `RestartLoop!GivesUp` | mode ALWAYS: an exit with code 0 is restarted and never counted (`server_runtime.py:823`) |
| `Registry!EveryProcessIsHeld` | a start scans the folder in a thread while the state still says OFFLINE (or CRASHED): an update or a deletion is accepted meanwhile, and the server runs under a runtime nobody finds until MSM boots again (`server_service.py:285`, `353`). Two updates of one server that cross, or an update that crosses a deletion, whose commits leave a row that tells of another folder than the runtime. A folder two servers were given by updates, where both were started at once: a boot finds one process of a folder (`orphans.py:67`). A row with the process of another folder, written by a start that ended out of sight, which the boot adopts |
| `Registry!RowsTellWhatRuns` | a write of the recorder that failed or was dropped, a request that overwrites a newer row with what it had read of the runtime or writes when the server has no runtime any more, a runtime replaced in use |
| `Registry!FilesAreKept` | the commit of a deletion fails after the files are erased; a server moves to the folder between the plan of a deletion and its end (an update does not look at the folders of others) |
| `Backups!SavingComesBack` | a cancellation while save-off awaits its confirmation, which is outside the `try` (`hot.py:111`); the end of MSM |
| `Backups!ArchivesAreKept` | a cancellation during the purge removes the new archive after the old ones, and may roll the rows back (`backup_service.py:567`); the transaction that ends a purge, a deletion or a cancelled backup fails when the files are gone: the rows stay COMPLETED without archive (`backup_service.py:655-656`, `370-377`, `630-631`) |
| `Backups!CopyIsConsistent` | two backups at once: the first to end turns saving on under the other; a start or a stop during a copy; a file that was skipped is missing from an archive that is complete by its row (`archive.py:104-107`) |
| `Backups!SafetyNet` | a safety backup that fails, or whose row could not be written, does not stop the restore (`backup_service.py:319`), nor does one that skipped files; the user deletes it, or as many newer backups as are kept push it out while the restore goes on (`Outdone`) |
| `BackupContent!RestoreIsUndone` | files no backup takes, inside a folder that one of the two archives calls a world; a safety backup that would be refused itself |
| `LogStream!ShownInOrder` | lines of two numberings, which one message may mix: the cursor is forgotten between the two halves of a flush |
| `LogStream!NothingLostUncounted` | lines of a second numbering, filtered by the cursor of the first |
| `LogStream!ConsoleCatchesUp` | the last number of an earlier numbering not yet passed; a queue filled by the other channels after the last line, which pushes it out, until another line is printed; a page that missed more lines than a resume may bring is sent the first of them only (`ws/connection.py:191`, 2000 lines of the 5000 that are kept), and stays short of the last one until the server prints again, although `client.ts:12-13` says that it is sent exactly what follows (`CutShort`) |
| `Scheduler!NothingForgotten` | none within the tick under way and the next; a tick cut short by a run that could not be recorded costs as much again (`Patience`) |
| `Scheduler!MissedOnlyWhenDown` | ticks that last longer than the grace: the tasks behind a slow action are marked "missed during a stop of MSM" although it never stopped (`schedule_service.py:553`) |
| `EventRuns!HistoryIsTrue` | a cancellation during the report of a failed step replaces FAILED by CANCELLED; a failed write |
| `EventRuns!TitlesKeepTheirTimes` | two titles at once, or a stop of the server or of MSM within one |
| `Provisioning!FoldersAreKept` | a server registered by hand in a folder that a creation, a registration or another server uses (two registrations by hand at the same time among them); a task cancelled while its commit goes through (`provisioning_service.py:383`: `registered` is still false, the files go, the row stays) |
| `Provisioning!SharesAreHeld` | creations placed at the same time: what is under way is counted before an await and registered several awaits later (`provisioning_service.py:187`, `203`); a port an administrator chose. `hosting_service.py:12-14` promises a port of its own to each server |
| `LauncherSync!CacheIsTrue` | an inspection that failed after the etag was read, folders widened or an address changed during a synchronisation: a 304 then stands for entries of another manifest (`launcher_service.py:544-552`); an address changed without a new token, or with one given while a push is in flight, which then records itself over the reset (`astray`); a push that was sent and never recorded |
| `LauncherSync!DisabledStaysDisabled` | a plan made from the folder as it was before the mod was switched off turns it on: at the next start, or at once when the folder was read before the jars were inspected (`launcher_service.py:555-609`; `plan.py:15` says that the choice of MSM wins) |
| `LauncherSync!OnlyOursGo` | a link removed while its last plan is applied; a file the administrator put over one of MSM, or while a plan was under way, goes with the path, its content is not looked at (`disk.py:123-127`; `plan.py:11-12` says that MSM removes only what it has installed, `docs/LAUNCHER_INTEGRATION.md:247` that mods added by hand are never touched; `overlaid`) |
| `Notices!CrashIsTold` | a full queue, settings off or unreadable, a refusal, a stop; an error that is not one of `httpx.HTTPError`, an address that begins well and cannot be parsed for one, which leaves `send_to_discord` although it says that it never raises (`notifier.py:151`, `161`), and ends the notifier until MSM restarts; a message is shown twice when its answer is lost |
| `Players!CountedOnce`, `ShownIsTrue` | names one of which matches the other as an SQL pattern: a record takes the session of another, and is renamed; lines between two lives of MSM or at a rotation; a line that only looks like an answer to `list`, or is read after its server was over, until the next word of the server about the same player: it may be shown or hidden wrongly, and its session counted once more or once less (`server_runtime.py:984-988`, `869-874`; `tests/unit/test_logs.py:101`, `129` keep chat out of arrivals and departures only) |
| `Accounts!AdminRemains` | two administrators that change each other's rights at the same time (`users.py:194`: "The panel could be left without an administrator.") |
| `Accounts!SignUpsAreExclusive` | two registrations or renamings about one name or one invitation at the same time; an account made by an administrator, which does not look at the names others have left |
| `Accounts!SessionsEnd` | a sign-in whose password was verified before the sessions were closed |
| `Accounts!BannedServersStop` | a start of the owner, or of the scheduler, under way during the ban, and any automatic restart: it does not look at bans (`lifecycle_service.py:32`); a stop of the ban that fails, which is only noted in the log (`account_service.py:503-506`) |
| `RuleReference!NextIsFirst` | a time the clock skips is moved by a whole hour (2:30 becomes 3:30), within the hour after the change, not to its first instant |

And some were met while modelling and are kept by the models, or lie beside them,
without a property of their own.

* Scheduler: the series of an interval is anchored on the end of its last run
  (`schedule_service.py:443-451`), although `schedule/rules.py:209-211` says that
  `last_run` is there so that a late run does not move all those after it; a task
  suspended or deleted while it runs is written back, or loses the record of that run;
  a tick runs what it selected without looking again.
* Backups: the server is checked stopped before the safety backup, not after
  (`backup_service.py:290`, against its line 9); a backup whose failure is being
  recorded when it is cancelled stays RUNNING until MSM starts again; a world is
  removed before the members of the archive are examined (line 457), so that an archive
  with a hard-linked file, or below a folder that is a link out of the server, is refused
  too late; only worlds are removed, so the files of plugins mix.
* Provisioning: two creations of one name by two accounts may choose the same slug,
  and the second then fails; a deletion that empties an account's folder between the
  placing of a creation and its first step makes that creation fail.
* Logs: a resume announces as lost what it has just sent (`ws/connection.py:208`); the
  notice of a saturated connection names no server and the browser ignores it.
* Events: the confirmation says nothing of what was confirmed: an event edited between
  the refusal and the second request runs its new steps; events the scheduler starts
  are always confirmed; a request by hand that fails half-way leaves commands sent and
  no audit.
* Players: a line of chat in the form of an answer to `list` replaces the players shown;
  the UUID kept is the first ever seen; `sync_statuses` is called by nobody;
  the set of those that just left is cleared at its limit, after which a departure is
  published twice.
* Registry: the state of a server that is disabled is not written; the recorder stops
  before the runtimes are detached, so their last state is not recorded.

## 5. What is proved

Every safety property of `ServerRuntime`, `Registry`, `Backups`, `LogStream`,
`Scheduler`, `EventRuns`, `Provisioning`, `LauncherSync`, `Accounts` and `Players` that a
run checks, and the growth of the delays of `RestartLoop`, are theorems about their
specifications for every value of the constants, and so are the types of these modules;
so is the refinement of `PanelContract`. The one exception is the
comparison of the rules of the calendar with a search (below).

Each proof has the same shape: an invariant that is inductive (`Init` gives it, every
action keeps it), from which the property follows. Types are one part of it; the
others say what a property leaves unsaid and its proof cannot do without. `TypeOK` is
beside the properties of its module, the rest mostly in the proofs. The lemmas that an
action keeps a part of the invariant follow the actions of the module; those on operators
(the queue of a lock, the rows after a commit, sets and their cardinalities) come before.

### 5.1 ServerRuntime

For any set of clients, any policy and any bound, under `ConstantsAssumption` (the
restarter is not a client, nobody is not a task, the numbers are naturals).

* `TypeCorrect`: the types, by one step per action.
* `OwnershipCorrect`: the inductive invariant. `OneServerProcess` alone is not
  inductive: that nothing lives in the folder when a process is created follows
  from the scan of the folder, made earlier under the lock. `FolderGuarded` says
  that what the scan found stays true until the handle is installed, which needs
  `LockDiscipline` (whoever is in a critical section holds the lock, and a lock
  that is free has no queue), `AdoptionQuiet` (an adopted process, its watch and
  the absence of a handle go together), `DownIsBlank` (nothing of the memory
  survives MSM) and `AutoWanted` (the automatic restart acts for the user). Two
  lemmas on the queue of the lock and one on the automatic restart carry the
  delicate steps.
* `OneServerProcessCorrect`, `StateHasAnOwnerCorrect`,
  `AdoptionExcludesHandleCorrect`, `OneAutoRestartCorrect`,
  `PanelStopSticksCorrect`, `LegalTransitionsCorrect` follow from it.
* `AutoRestartsBoundedCorrect`: by a second invariant, `CrashesPay` (every
  automatic start was paid for by a crash), unless the mode is ALWAYS: a clean
  exit is not counted.
* `ContractImplemented`: every step of `ServerRuntime` is a step of
  `PanelContract` or a stutter, under the refinement mapping.

The run `runtime` checks `OneServerProcess`, `PanelStopSticks` and `ImplementsContract`
on its instance; the other safety properties of this list are proved and need none.

### 5.2 Registry

For any servers, folders, numbers of requests, of requests at a time, of processes and of
stops of MSM, under `RegistryAssumption` (the servers are finitely many, each has a first
folder) and `NoneIsNothing` (the mark of absence is none of the values).

* `TypeCorrect`: the types, and that the runtime found for a server is its own.
* `Structure` is what everything else rests on, about memory alone: a runtime that holds a
  process alive says that it runs and starts nothing (`HandsRun`); a request holds a
  runtime of its server (`RequestsHold`); two updates are never between their flush and
  their commit at once, since the first has the write lock (`OneUpdate`); a runtime nobody
  finds that starts a server, or may, was replaced in use (`LostAreOrphaned`); and
  `BootInv`, what a boot has done so far: nothing is served before it ends, a server whose
  turn has not come has a blank runtime, the rows to reset wait under the write lock.
* `ProcessesAreHeld`, by `Holding`. That each process is held is not inductive, for two
  reasons. What a boot finds depends on the rows it starts from: `RowMatches` says that
  the row of a server tells the folder of its runtime, unless an update is to be committed
  or the folder is orphaned. And during a boot the processes are in nobody's hands: `Held`
  adds that each is then in the folder of a server that the boot has still to look at, and
  `Tidy` that it is alone there and that no row names a process of another folder. The
  proof found the exceptions of section 4 but the first: each takes more requests, or more
  folders, than the run has.
* `RowsTell`, by `Vouched`: what the recorder is writing is what the runtime says; when it
  writes nothing, the row says so, or is to be looked at by the boot, or to be reset.
* `NobodyLosesFiles`, by `Files`: from its plan on, a deletion has no other server's row
  and no update to be committed in its folder, and no runtime once it has unregistered its
  own; an update goes to no folder that was erased; a server whose files are gone is about
  to leave. Each but in the folders that are `crossed` or `orphaned`.

The steps of runtimes and of the requests about one (a start, a stop, their saves) are
handled together: `Moves` says what such a step may do to a runtime and to the processes,
a lemma shows that each of them does no more, and each invariant is kept by `Moves`. The
other actions have a lemma that says what they change.

### 5.3 Backups and BackupContent

For any set of backups, any retention and any number of each accident, under
`BoundsAreNaturals` (at least one backup is kept). `Phased` says, for each phase of a
task, what its row, its thread and its archive are. Then:

* `SavingComesBackCorrect`, by `SavingIsHeld`: some backup answers for a server that does
  not save, or the save-on is in its queue behind every save-off. That some backup is in
  progress does not do: it must be one that has its save-on before it.
* `CopyIsConsistentCorrect`, by `Alone`: what a backup that nothing disturbed knows of
  the queue, of the saves and of its copy, phase by phase.
* `ArchivesAreKeptCorrect`, by `EnoughLeft`: the complete backups without archive are at
  most as many as were deleted, or were withdrawn, or have enough newer ones that have
  theirs. Two purges may have chosen at different times; a counting argument on the
  newest backups shows that what both remove still leaves enough.
* `SafetyNetCorrect`, by `Accounted` (why an archive is missing) and `Guarded` (the
  safety backup of a restore has ended when it applies), for any number of restores at
  once. The proof asked for `Outdone`:
  with a retention small enough, newer backups push the safety one out while the
  restore goes on.

`BackupContent` has no state; for any set of paths, worlds, classes of files and
contents, under `PathsAreKnown`: `RestoredWorlds` (a restored world is the one that was
saved), `RestoreUndone` (the safety backup gives back every file, but those no backup
takes inside a world of one of the two archives, even when the restore was refused
half-way), and `StrangersStay` (what the undoing leaves behind is in no world). A file
that the safety archive holds comes back with it; one it does not hold is neither
removed nor written over, which is `TakenAgain`: a file of the folder that the other
archive brings was taken from the folder too, or lies in a world of that archive.

### 5.4 LogStream

For any capacities and any number of lines, numberings and connections, under
`CapacitiesArePositive`.

* `StreamTypeCorrect`: no buffer, queue or batch outgrows its capacity.
* `ShownInOrderCorrect`: `FlowIsOrdered` (the queue, the batch and the lines grouped are
  one ordered flow), `MessagesAreOrdered`, `ShownIsBehind` (what is shown is not past the
  number of the store, or its numbering is over). The proof failed on a message that
  carries lines of two numberings, which the run reaches with two lines per flush; the
  property is stated within a numbering, and `MixedCloses` says why it holds: such a
  message is the last one with lines of the first.
* `NothingLostUncountedCorrect`, by `FlowIsAhead`: a line printed since the history was
  sent is past the cursor, past the number of the store and past every line sent
  before it. Each filter on its way removes lines that are not; only the queue removes
  such a line, and counts it.

### 5.5 Scheduler

For any tasks, any rules `parse_rule` lets in and any durations, under `UnitsAssumption`,
`RulesAssumption` and `DurationsAssumption`.

* `NextIsLater`: for any rule and any change of its zone, the search finds an
  occurrence, later than the instant it is asked at. `StepsAreCaughtUp`: an interval that
  is late is due at the first step of its series that is ahead.
* `NeverTwiceCorrect`, by `PerformedIsPast`: an occurrence that was performed is never
  ahead of its task again, except of the one being run.
* `NothingForgottenCorrect`, by `WaitsInTurn`: a due task has waited for the rest of a
  sleep, or for its turn in the tick, and no longer than the tasks finished in the tick
  may have taken; each tick cut short adds its cost.
* `MissedOnlyWhenDownCorrect` from the same invariant. The proof needs the grace to be
  longer than the ticks, which nothing in the code ensures: the property now says so.

### 5.6 EventRuns

For any sequences, any actions made by hand and any bound, under `BoundsAssumption` and
`TitlesAssumption`.

* `OnlyWhatWasAllowedCorrect`, by `SentInOrder`: what was sent, with what is left of the
  step being done, is the commands of the steps up to it. The property compares command
  by command, as a run may send one command several times.
* `TitlesKeepTheirTimesCorrect`, by `DurationsMeet`: who is within a title has its own
  durations in force, unless two were within one.
* `HistoryIsTrueCorrect`, by `EndsOnce` (the reports still to be written, in order, and
  what each may change), `ReadIsRow` (a write commits over what it has read), `SentAll`
  and `LastStep`.

The commands of a sequence are `FlattenSeq`, a recursive function; the facts on its
prefixes come by an induction written out as a lemma on sets of numbers (`Induction`).

### 5.7 Notices

For any set of policies whose numbers are naturals and whose factor is positive
(`IsPolicy`; the code's factor is 2), any queue with a place, any number of attempts but
none, and a channel that is told of the crash that is followed (`ChannelAssumption`).

* `BackoffGrowsCorrect`, by `LoopInv`: the last delay announced is that of the crashes
  counted, so that the delay grows because the powers of the factor do. That they exist
  and grow comes by the same induction (`Induction`). Each step of `Notices` is one of
  `RestartLoop` or leaves the loop as it is (`LoopGoesOn`).
* `CrashIsNotLost` and `NoticesTypeCorrect`, by `CrashInv`: until its end a crash that was
  published is in the queue (`Waits`, once) or in the batch or the message (`Noted`), and
  the end has a reason MSM knows of: told, refused, pushed out of a full queue, settings
  unreadable or off at some time since, a stop, an error that ended the notifier. `Turns`
  is what makes it inductive: the notifier collects nothing while a flush is under way, so
  that no batch is written over.
  That the end comes is liveness, and stays with `CrashIsTold`.

### 5.8 Players

For any players, finitely many, any names that match others and any bound, under
`PlayersAssumption` (what stands for a name in a list that MSM cannot read is no player's
name).

* `ShownIsTrueCorrect`, by `LastIsTrue`: what MSM believes of a player is made true by the
  lines it has still to read of the server that runs. The last line about somebody in the
  game says so; when no line is about them, what MSM believes is already true, or the player
  is `blurred`. The lines of a server that is over say nothing: whom they change is `blurred`
  (`LateKeepsBelief`). `Following` adds that an adopted server answers no `list`, and that
  what is shown and is no name at all is `blurred` too.
* `CountedOnceCorrect`, by `Balance`: rows, events and lines of arrival, less the sessions
  due (`Drift`), are zero for each player, or in sum when names match one another, since a
  record may then move the count of one row to another (`SumsMove`). Each action keeps what
  each player is owed (`OwedStep`), but for that record. The delicate step is the reading of
  an arrival: `FirstTold` says that its first line is read of a player who is not believed to
  be in, `Second` that its second line is read of one who is; where the player is
  `blurred`, or the line is late, `JoinOwed` says what is counted too little or too much.

`SumFunction` is a fold over a set, which is recursive on subsets; `SumsExist` builds the
function of those sums by an induction on cardinalities, and `SumsSubtract` and `SumsMove`
follow by an induction on subsets (`SubsetInduction`).

### 5.9 Provisioning

For any accounts, names and ports, any quota and any number of creations, under
`ProvisioningAssumption`.

* `FoldersAreKeptCorrect`: `Settles` and `Complete` (what a record holds at each step, who
  commits is the writer), `HandsAreAlone` and `CommitsItsFiles`. The proof found that two
  registrations by hand of one folder at the same time both go through: `intruders` is
  therefore noted at the insertion, for servers that were registered meanwhile too.
* `SharesAreHeldCorrect`, by `PlacingMeet` (creations being placed have met),
  `ApartFrom` (a creation that is to take a port knows of those it has not met) and
  `WithinQuota` (it counted them). `UnmetAreFew` is about every set of servers of an account of which no
  two have met.

### 5.10 LauncherSync

For any paths, versions and manifests and any settings, under `LauncherAssumption` and
`NoneIsNoRecord` (the mark of absence is none of the records).

* `TypeCorrect`, by `WorkIsKnown`: who holds the lock of the server holds what it works
  on, and a synchronisation keeps the write lock from its first query to its commit,
  over the link it has loaded. Every other part uses it.
* `NoSwapUnderTheServerCorrect`, by `InLine`: a start under way is its hook in the queue,
  once, and behind what the loop asked to apply.
* `DisabledStaysDisabledCorrect`: every plan made, kept or being applied, and what was
  read of the folder for the next, spares what was disabled while there was none.
* `OnlyOursGoCorrect`, by `Ours`: what is recorded and what plans remove is ours, and by
  `Untouched`: where the administrator put a file over nothing of MSM, nothing has
  become ours, no plan adopts it and none that waits to be recorded names it.
* `CacheIsTrueCorrect`: `SnapIsKept` and `ReadIsTrue` for the entries, `InPush` and
  `Published` for the publication. The proof found the push that is in flight while the
  address moves and a new token is given: it records its revision over the reset, and the
  new file server is believed told.

### 5.11 Accounts

For any accounts, names, invitations and identities, and any number of requests at a
time, under `AccountsAssumption`.

* `SessionsEndCorrect`, `BannedServersStopCorrect`: what the history variables note is all
  that may bring back a session or a server.
* `AdminRemainsCorrect`, by `RightsHeld`: a change of rights that met no other is that of
  somebody who still is an administrator, hence not its target.
* `SignUpsAreExclusiveCorrect`, by `NamesHold` and `InvitationsAreFresh`: what a
  registration has read of its name and invitation still holds, or it met who changed it.

### 5.12 What is only model-checked

* Liveness: `StopEndsTheServer`, `RequestsAreAnswered`, `ConsoleCatchesUp`,
  `HistoryCloses`, `StartsEnd` and the liveness of `Notices`. The prover has no fairness
  and no `ENABLED`.
* `RulesAreKept`: that an occurrence is the first that fits compares a computation with a
  search, examined on small days; the theorems say that it exists, that it is later, and
  which step of a series it is.
* `CrashIsTold`, `OffIsQuiet` and `GivesUp` of `Notices` and `RestartLoop` are liveness too;
  `CrashIsNotLost` is what safety can say of the first.

## 6. What is not modelled

* Listed in `PROJECT.json` with the reason. Mainly: HTTP schemas, the sources of
  downloads, parsing of Minecraft files, metrics, avatars, translation, the Windows
  backend, the pages of the web interface.
* The archives of one second, an extraction raced by a deletion, and the age of
  the archive that is restored (see the hazards without a property).
* Hosting: the memory and disk quotas of a start (`hosting_service.py:298` reads the
  use of other servers before its awaits), the properties imposed by the pre-start
  hook, the read-modify-write of configuration files.
* `Accounts`: mail addresses, languages, quotas, rate limits, expiry, CSRF tokens.
  `Notices`: several facts in one message. `Players`: the JSON lists of a server.
* `asyncio` itself is trusted to run ready tasks in order, SQLite to commit or
  roll back a transaction as a whole.

## 7. Plan

1. `RestartLoop`: a bound on the restarts between two stable runs, which is what `GivesUp`
   leaves once fairness is put aside.
2. The age of archives in a restore, and rows that close, in `Backups`; the memory and
   disk quotas of a start, with `Provisioning`.
