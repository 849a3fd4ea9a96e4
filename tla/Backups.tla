------------------------------- MODULE Backups -------------------------------
(***************************************************************************)
(* The backups of one server: taken cold or hot, cancelled, purged,        *)
(* deleted and restored, while the server lives its life.                  *)
(*                                                                         *)
(* A backup is an asyncio task (_run_backup), a thread that writes the     *)
(* archive, and a row of the history.  Each await of the task is a phase:  *)
(* a cancellation lands there.  A hot backup talks to the server through   *)
(* its standard input and reads the answers in its log; both are modelled  *)
(* as the queue of commands not yet executed and the answers heard.        *)
(***************************************************************************)
EXTENDS Integers, FiniteSets, Sequences, SequencesExt

CONSTANTS
    MaxBackups,    \* bound: rows of the history, in order of creation
    Kept,          \* how many of them are old, complete backups at first
    Retention,     \* backup_retention
    MaxStarts, MaxStops,   \* bounds: what the server does meanwhile
    MaxFailures,   \* bound: full disks, unconfirmed commands, transactions that fail
    MaxCancels,    \* bound: cancellations by a user
    MaxRestores, MaxDeletes, MaxRestarts,  \* bounds: restores, deletions, MSM restarts
    MaxUserBackups \* bound: backups asked for by users and schedules

Backups == 1..MaxBackups
\* The phases of a task: select_content; the two confirmations of frozen_world;
\* the copy; _finish(COMPLETED); _purge_old, before and after its unlinks;
\* _finish(FAILED) after an exception and after a cancellation.
Live == {"select", "saveoff", "flush", "copy", "finish", "purge", "purging", "failing",
         "closing"}
Phases == Live \cup {"none", "done"}

ASSUME BoundsAreNaturals ==
    /\ {MaxBackups, Retention} \subseteq Nat \ {0} /\ Kept \in 0..MaxBackups
    /\ {MaxStarts, MaxStops, MaxFailures, MaxCancels, MaxRestores, MaxDeletes, MaxRestarts,
        MaxUserBackups} \subseteq Nat

VARIABLES
    row,       \* status of each backup in the history; "none", "gone"
    phase,     \* what its task is doing
    hot,       \* it is inside frozen_world, past the confirmation of save-off
    heard,     \* the answer it waits for was logged
    thread,    \* its thread is writing the archive
    archive,   \* its archive is on disk, closed, under its name
    torn,      \* history: the world was written while the thread copied it
    victims,   \* the rows _purge_old has chosen and not yet committed
    cancelled, \* the phase at which its task was cancelled, or "no"
    safety,    \* history: backups taken before a restore
    deleting,  \* deletions that removed the file and not yet the row
    restoring, \* the restores in progress, by their safety backups
    world,     \* the world folder: "whole" or "removed"
    on,        \* runtime.state.is_running
    console,   \* MSM holds the standard input of the server
    stdin,     \* commands written and not yet executed
    saving,    \* the server saves on its own (save-on)
    settled,   \* what it had to write when save-off came is on disk
    purged,    \* history: a purge has removed an archive
    unwritten, \* history: rows a failed transaction left as they were
    used       \* what the bounds count

tasks == <<phase, hot, heard, thread, cancelled>>
history == <<row, archive, victims, deleting>>
server == <<on, console, stdin, saving, settled>>
vars == <<row, phase, hot, heard, thread, archive, torn, victims, cancelled, safety,
          deleting, restoring, world, on, console, stdin, saving, settled, purged,
          unwritten, used>>

NoRestore == [phase |-> "none", of |-> 0]
Spend(what, most) == used[what] < most /\ used' = [used EXCEPT ![what] = @ + 1]

Completed == {b \in Backups : row[b] = "COMPLETED"}
Unused == {b \in Backups : row[b] = "none"}
NewId == CHOOSE b \in Unused : \A c \in Unused : b <= c
Copying == {b \in Backups : thread[b]}
--------------------------------------------------------------------------------
\* ServerRuntime.send_command needs the handle of a running process.
Reachable == on /\ console
Send(command) == stdin' = IF Reachable THEN Append(stdin, command) ELSE stdin

\* Mutated form of SaveOn: no finally around the copy.
SaveOnNever(b) == UNCHANGED stdin

\* hot._restore: never raises, so a backup goes on when the server is gone.
SaveOn(b) == IF hot[b] THEN Send("save-on") ELSE UNCHANGED stdin

Goes(b, p) == phase' = [phase EXCEPT ![b] = p]

\* An exception in _run_backup: the archive is removed, _finish(FAILED) begins.
Fails(b) ==
    /\ Goes(b, "failing")
    /\ archive' = [archive EXCEPT ![b] = FALSE]
    /\ hot' = [hot EXCEPT ![b] = FALSE]

\* start_backup: the row is committed before the task begins.  The task reaches
\* its first await before anyone it was announced to can cancel it.
Launch(b) ==
    /\ row' = [row EXCEPT ![b] = "RUNNING"]
    /\ Goes(b, "select")

UserBacksUp ==
    /\ Unused # {} /\ Spend("backups", MaxUserBackups)
    /\ Launch(NewId)
    /\ UNCHANGED <<hot, heard, thread, archive, torn, victims, cancelled, safety, deleting,
                   restoring, world, server, purged, unwritten>>

\* A cold copy, or the first command of frozen_world: is_running is read once.
Selected(b) ==
    /\ phase[b] = "select"
    /\ IF on
       THEN IF Reachable
            THEN /\ Send("save-off")
                 /\ Goes(b, "saveoff")
                 /\ heard' = [heard EXCEPT ![b] = FALSE]
                 /\ UNCHANGED <<hot, thread, archive>>
            ELSE Fails(b) /\ UNCHANGED <<heard, thread, stdin>>
       ELSE /\ Goes(b, "copy")
            /\ thread' = [thread EXCEPT ![b] = TRUE]
            /\ UNCHANGED <<hot, heard, archive, stdin>>
    /\ UNCHANGED <<row, torn, victims, cancelled, safety, deleting, restoring, world, on,
                   console, saving, settled, purged, unwritten, used>>

\* Nothing to back up, or not enough room.
SelectionRefused(b) ==
    /\ phase[b] = "select" /\ Spend("failures", MaxFailures)
    /\ Fails(b)
    /\ UNCHANGED <<row, heard, thread, torn, victims, cancelled, safety, deleting,
                   restoring, world, server, purged, unwritten>>

\* Mutated form of WritingPaused: the copy does not wait for the flush.
WritingPausedEnough(b) ==
    /\ phase[b] = "saveoff" /\ heard[b]
    /\ Goes(b, "copy")
    /\ thread' = [thread EXCEPT ![b] = TRUE]
    /\ hot' = [hot EXCEPT ![b] = TRUE]
    /\ UNCHANGED <<row, heard, archive, torn, victims, cancelled, safety, deleting,
                   restoring, world, server, purged, unwritten, used>>

\* frozen_world, save-off confirmed: save-all flush, inside the try.
WritingPaused(b) ==
    /\ phase[b] = "saveoff" /\ heard[b]
    /\ IF Reachable
       THEN /\ Send("flush")
            /\ Goes(b, "flush")
            /\ hot' = [hot EXCEPT ![b] = TRUE]
            /\ heard' = [heard EXCEPT ![b] = FALSE]
            /\ UNCHANGED archive
       ELSE Fails(b) /\ UNCHANGED <<heard, stdin>>
    /\ UNCHANGED <<row, thread, torn, victims, cancelled, safety, deleting, restoring,
                   world, on, console, saving, settled, purged, unwritten, used>>

\* frozen_world, flush confirmed: the copy begins.
WorldFlushed(b) ==
    /\ phase[b] = "flush" /\ heard[b]
    /\ Goes(b, "copy")
    /\ thread' = [thread EXCEPT ![b] = TRUE]
    /\ UNCHANGED <<row, hot, heard, archive, torn, victims, cancelled, safety, deleting,
                   restoring, world, server, purged, unwritten, used>>

Awaited(b) == IF phase[b] = "saveoff" THEN "save-off" ELSE "flush"

\* BackupNotSafe: no confirmation in time.  save-on is sent in both phases.  A
\* command the server still holds is answered late only as one of the failures.
NotConfirmed(b) ==
    /\ phase[b] \in {"saveoff", "flush"} /\ ~heard[b]
    /\ IF Awaited(b) \in Range(stdin) THEN Spend("failures", MaxFailures) ELSE UNCHANGED used
    /\ Send("save-on")
    /\ Fails(b)
    /\ UNCHANGED <<row, heard, thread, torn, victims, cancelled, safety, deleting,
                   restoring, world, on, console, saving, settled, purged, unwritten>>

\* create_archive, in its thread: the archive takes its name when it is closed,
\* even if the task was cancelled after the last check of should_stop.  A file
\* that cannot be read is left out of it (archive.py:104-107): whole or not, the
\* archive counts as one.
ThreadWrites(b) ==
    /\ thread[b]
    /\ thread' = [thread EXCEPT ![b] = FALSE]
    /\ archive' = [archive EXCEPT ![b] = TRUE]
    /\ UNCHANGED <<row, phase, hot, heard, torn, victims, cancelled, safety, deleting,
                   restoring, world, server, purged, unwritten, used>>

\* should_stop: the thread of a cancelled task gives up at the next file.
ThreadStops(b) ==
    /\ thread[b] /\ phase[b] # "copy"
    /\ thread' = [thread EXCEPT ![b] = FALSE]
    /\ UNCHANGED <<row, phase, hot, heard, archive, torn, victims, cancelled, safety,
                   deleting, restoring, world, server, purged, unwritten, used>>

\* The write fails: the block of frozen_world ends, then the exception.
ThreadFails(b) ==
    /\ thread[b] /\ phase[b] = "copy" /\ Spend("failures", MaxFailures)
    /\ thread' = [thread EXCEPT ![b] = FALSE]
    /\ SaveOn(b)
    /\ Fails(b)
    /\ UNCHANGED <<row, heard, torn, victims, cancelled, safety, deleting, restoring,
                   world, on, console, saving, settled, purged, unwritten>>

\* The task resumes after the copy: save-on, then _finish(COMPLETED).
Copied(b) ==
    /\ phase[b] = "copy" /\ ~thread[b]
    /\ SaveOn(b)
    /\ hot' = [hot EXCEPT ![b] = FALSE]
    /\ Goes(b, "finish")
    /\ UNCHANGED <<row, heard, thread, archive, torn, victims, cancelled, safety, deleting,
                   restoring, world, on, console, saving, settled, purged, unwritten, used>>

\* A transaction commits, or fails and leaves these rows as they were: the
\* callers go on either way (_finish and _purge_old log the exception).
Commits(result, rows) ==
    \/ row' = result /\ UNCHANGED <<unwritten, used>>
    \/ /\ Spend("failures", MaxFailures)
       /\ unwritten' = unwritten \cup rows
       /\ UNCHANGED row

\* _finish: a row deleted meanwhile stays so.
Marked(b, status) == [row EXCEPT ![b] = IF @ = "gone" THEN @ ELSE status]
Removed(rows) == [c \in Backups |-> IF c \in rows THEN "gone" ELSE row[c]]

Finish(b) ==
    /\ phase[b] = "finish"
    /\ Commits(Marked(b, "COMPLETED"), {b})
    /\ Goes(b, "purge")
    /\ UNCHANGED <<hot, heard, thread, archive, torn, victims, cancelled, safety, deleting,
                   restoring, world, server, purged>>

\* Mutated form of Surplus: one backup fewer is kept.
SurplusByOne == {b \in Completed : Cardinality({c \in Completed : c > b}) >= Retention - 1}

\* _purge_old: the completed backups past the newest ones.
Surplus == {b \in Completed : Cardinality({c \in Completed : c > b}) >= Retention}

Purge(b) ==
    /\ phase[b] = "purge"
    /\ victims' = [victims EXCEPT ![b] = Surplus]
    /\ archive' = [c \in Backups |-> archive[c] /\ c \notin Surplus]
    /\ purged' = (purged \/ Surplus # {})
    /\ Goes(b, IF Surplus = {} THEN "done" ELSE "purging")
    /\ UNCHANGED <<row, hot, heard, thread, torn, cancelled, safety, deleting, restoring,
                   world, server, unwritten, used>>

\* The archives are gone by then, whatever becomes of the rows.
PurgeCommits(b) ==
    /\ phase[b] = "purging"
    /\ Commits(Removed(victims[b]), victims[b])
    /\ victims' = [victims EXCEPT ![b] = {}]
    /\ Goes(b, "done")
    /\ UNCHANGED <<hot, heard, thread, archive, torn, cancelled, safety, deleting,
                   restoring, world, server, purged>>

\* _finish(FAILED), in the branches of the exceptions and, behind its shield, in
\* that of the cancellation.
FailureRecorded(b) ==
    /\ phase[b] \in {"failing", "closing"}
    /\ Commits(Marked(b, "FAILED"), {b})
    /\ Goes(b, "done")
    /\ UNCHANGED <<hot, heard, thread, archive, torn, victims, cancelled, safety, deleting,
                   restoring, world, server, purged>>
--------------------------------------------------------------------------------
\* The branch of CancelledError: the archive is removed, _finish(FAILED) begins.
\* Only what is inside the try of frozen_world sends save-on.  A purge whose
\* commit was under way is rolled back or not.
CancelledAt(b) ==
    /\ SaveOn(b)
    /\ archive' = [archive EXCEPT ![b] = FALSE]
    /\ hot' = [hot EXCEPT ![b] = FALSE]
    /\ Goes(b, "closing")
    /\ victims' = [victims EXCEPT ![b] = {}]
    /\ \/ UNCHANGED row
       \/ phase[b] = "purging" /\ row' = Removed(victims[b])

\* cancel_backup.  The status of a failure is written without a shield: the
\* cancellation ends the task, whether or not the commit was already under way.
Cancel(b) ==
    /\ phase[b] \in Live \ {"closing"} /\ Spend("cancels", MaxCancels)
    /\ cancelled' = [cancelled EXCEPT ![b] = phase[b]]
    /\ IF phase[b] = "failing"
       THEN /\ row' \in {row, Marked(b, "FAILED")}
            /\ Goes(b, "done")
            /\ UNCHANGED <<stdin, archive, hot, victims>>
       ELSE CancelledAt(b)
    /\ UNCHANGED <<heard, thread, torn, safety, deleting, restoring, world, on, console,
                   saving, settled, purged, unwritten>>

\* delete: refused while the task is registered; the row goes at the end of the
\* request, after the file, if that transaction does not fail.
DeleteFile(b) ==
    /\ row[b] \notin {"none", "gone"} /\ phase[b] \notin Live /\ b \notin deleting
    /\ Spend("deletes", MaxDeletes)
    /\ archive' = [archive EXCEPT ![b] = FALSE]
    /\ deleting' = deleting \cup {b}
    /\ UNCHANGED <<row, tasks, torn, victims, safety, restoring, world, server, purged,
                   unwritten>>

DeleteRow(b) ==
    /\ b \in deleting
    /\ deleting' = deleting \ {b}
    /\ Commits(Removed({b}), {b})
    /\ UNCHANGED <<tasks, archive, torn, victims, safety, restoring, world, server, purged>>
--------------------------------------------------------------------------------
\* restore: the checks, then the safety backup.  Nothing keeps two restores apart.
Restore(b) ==
    /\ row[b] = "COMPLETED" /\ ~on
    /\ Unused # {} /\ Spend("restores", MaxRestores)
    /\ Launch(NewId)
    /\ safety' = safety \cup {NewId}
    /\ restoring' = [restoring EXCEPT ![NewId] = [phase |-> "await", of |-> b]]
    /\ UNCHANGED <<hot, heard, thread, archive, torn, victims, cancelled, deleting, world,
                   server, purged, unwritten>>

\* Mutated form of SafetyTaken: nobody waits.
SafetyLaunched(s) == TRUE

\* _await_backup: the task of the safety backup has ended.  Its cancellation
\* ends the restore, its failure does not.
SafetyTaken(s) == phase[s] = "done"

RestoreGoesOn(s) ==
    /\ restoring[s].phase = "await" /\ SafetyTaken(s)
    /\ restoring' = IF cancelled[s] # "no" \/ ~archive[restoring[s].of]
                    THEN [restoring EXCEPT ![s] = NoRestore]
                    ELSE [restoring EXCEPT ![s].phase = "apply"]
    /\ UNCHANGED <<row, tasks, archive, torn, victims, safety, deleting, world, server,
                   purged, unwritten, used>>

TearsCopies == torn' = [b \in Backups |-> torn[b] \/ thread[b]]

\* _apply_restore, in a thread: the manifest is read, the worlds are removed ...
WorldsRemoved(s) ==
    /\ restoring[s].phase = "apply"
    /\ IF archive[restoring[s].of]
       THEN /\ world' = "removed"
            /\ restoring' = [restoring EXCEPT ![s].phase = "extract"]
            /\ TearsCopies
       ELSE restoring' = [restoring EXCEPT ![s] = NoRestore] /\ UNCHANGED <<world, torn>>
    /\ UNCHANGED <<row, tasks, archive, victims, safety, deleting, server, purged, unwritten,
                   used>>

\* ... then the archive is opened again and extracted, if it is still there.
WorldsExtracted(s) ==
    /\ restoring[s].phase = "extract"
    /\ restoring' = [restoring EXCEPT ![s] = NoRestore]
    /\ IF archive[restoring[s].of] THEN world' = "whole" /\ TearsCopies
       ELSE UNCHANGED <<world, torn>>
    /\ UNCHANGED <<row, tasks, archive, victims, safety, deleting, server, purged, unwritten,
                   used>>
--------------------------------------------------------------------------------
\* The Minecraft server (not part of the repository): what it does of its own.
ServerStarts ==
    /\ ~on /\ Spend("starts", MaxStarts)
    /\ on' = TRUE /\ console' = TRUE /\ stdin' = <<>>
    /\ saving' = TRUE /\ settled' = FALSE
    /\ UNCHANGED <<history, tasks, torn, safety, restoring, world, purged, unwritten>>

\* It saves its world on its way out, whatever save-off said.
ServerStops ==
    /\ on /\ Spend("stops", MaxStops)
    /\ on' = FALSE /\ console' = FALSE /\ stdin' = <<>>
    /\ TearsCopies
    /\ UNCHANGED <<history, tasks, safety, restoring, world, saving, settled, purged,
                   unwritten>>

Hears(p) == heard' = [b \in Backups |-> heard[b] \/ phase[b] = p]

\* It executes the next command; any log line that matches confirms every backup
\* waiting for one.  Its answer may not be a recognised one.
ServerExecutes ==
    /\ on /\ stdin # <<>>
    /\ stdin' = Tail(stdin)
    /\ CASE Head(stdin) = "save-off" -> saving' = FALSE /\ UNCHANGED settled
         [] Head(stdin) = "save-on" -> saving' = TRUE /\ settled' = FALSE
         [] Head(stdin) = "flush" -> settled' = ~saving /\ UNCHANGED saving
    /\ \/ Head(stdin) = "save-off" /\ Hears("saveoff") /\ UNCHANGED used
       \/ Head(stdin) = "flush" /\ Hears("flush") /\ UNCHANGED used
       \/ Head(stdin) = "save-on" /\ UNCHANGED <<heard, used>>
       \/ Head(stdin) # "save-on" /\ Spend("failures", MaxFailures) /\ UNCHANGED heard
    /\ UNCHANGED <<history, phase, hot, thread, torn, cancelled, safety, restoring, world,
                   on, console, purged, unwritten>>

\* It writes the world while it saves on its own, or has not finished.
ServerWrites ==
    /\ on /\ (saving \/ ~settled) /\ \E b \in Copying : ~torn[b]
    /\ TearsCopies
    /\ UNCHANGED <<history, tasks, safety, restoring, world, server, purged, unwritten,
                   used>>

\* MSM restarts: tasks, threads and requests are gone, the server runs on without
\* its console, and mark_interrupted closes the rows left RUNNING.
MsmRestarts ==
    /\ Spend("restarts", MaxRestarts)
    /\ phase' = [b \in Backups |-> IF row[b] = "none" THEN "none" ELSE "done"]
    /\ row' = [b \in Backups |-> IF row[b] = "RUNNING" THEN "FAILED" ELSE row[b]]
    /\ hot' = [b \in Backups |-> FALSE]
    /\ thread' = [b \in Backups |-> FALSE]
    /\ victims' = [b \in Backups |-> {}]
    /\ deleting' = {}
    /\ restoring' = [s \in Backups |-> NoRestore]
    /\ console' = FALSE
    /\ UNCHANGED <<heard, archive, torn, cancelled, safety, world, on, stdin, saving,
                   settled, purged, unwritten>>
--------------------------------------------------------------------------------
Init ==
    /\ row = [b \in Backups |-> IF b <= Kept THEN "COMPLETED" ELSE "none"]
    /\ phase = [b \in Backups |-> IF b <= Kept THEN "done" ELSE "none"]
    /\ hot = [b \in Backups |-> FALSE] /\ heard = [b \in Backups |-> FALSE]
    /\ thread = [b \in Backups |-> FALSE]
    /\ archive = [b \in Backups |-> b <= Kept]
    /\ torn = [b \in Backups |-> FALSE] /\ victims = [b \in Backups |-> {}]
    /\ cancelled = [b \in Backups |-> "no"]
    /\ safety = {} /\ deleting = {} /\ world = "whole"
    /\ restoring = [s \in Backups |-> NoRestore] /\ unwritten = {}
    /\ on \in BOOLEAN /\ console = on /\ stdin = <<>>
    /\ saving = TRUE /\ settled = FALSE /\ purged = FALSE
    /\ used = [backups |-> 0, failures |-> 0, cancels |-> 0, deletes |-> 0,
               restores |-> 0, starts |-> 0, stops |-> 0, restarts |-> 0]

\* What the event loop and the threads do of themselves.
Progress(b) ==
    \/ Selected(b) \/ WritingPaused(b) \/ WorldFlushed(b) \/ NotConfirmed(b)
    \/ ThreadWrites(b) \/ ThreadStops(b) \/ Copied(b) \/ Finish(b)
    \/ Purge(b) \/ PurgeCommits(b) \/ FailureRecorded(b)

\* The routes of the backups of a server; a schedule asks for one as a user does.
Requests == UserBacksUp \/ \E b \in Backups : Restore(b) \/ Cancel(b) \/ DeleteFile(b) \/ DeleteRow(b)
Failures(b) == SelectionRefused(b) \/ ThreadFails(b)
Server == ServerStarts \/ ServerStops \/ ServerExecutes \/ ServerWrites
RestoreSteps ==
    \E s \in Backups : RestoreGoesOn(s) \/ WorldsRemoved(s) \/ WorldsExtracted(s)

Next ==
    \/ \E b \in Backups : Progress(b) \/ Failures(b)
    \/ Requests \/ RestoreSteps \/ Server \/ MsmRestarts

Spec == Init /\ [][Next]_vars
--------------------------------------------------------------------------------
\* Every variable has its type; only a task past the confirmation of save-off is
\* inside frozen_world, and only a purge has victims.
TypeOK ==
    /\ \A b \in Backups : hot[b] => phase[b] \in {"flush", "copy"}
    /\ \A b \in Backups : victims[b] # {} => phase[b] = "purging"
    /\ row \in [Backups -> {"none", "RUNNING", "COMPLETED", "FAILED", "gone"}]
    /\ phase \in [Backups -> Phases]
    /\ {hot, heard, thread, archive, torn} \subseteq [Backups -> BOOLEAN]
    /\ cancelled \in [Backups -> Live \cup {"no"}]
    /\ victims \in [Backups -> SUBSET Backups]
    /\ safety \subseteq Backups /\ deleting \subseteq Backups /\ unwritten \subseteq Backups
    /\ restoring \in [Backups -> [phase : {"none", "await", "apply", "extract"},
                                  of : Backups \cup {0}]]
    /\ world \in {"whole", "removed"}
    /\ {on, console, saving, settled, purged} \subseteq BOOLEAN
    /\ stdin \in Seq({"save-off", "flush", "save-on"})
    /\ used \in [{"backups", "failures", "cancels", "deletes", "restores", "starts", "stops",
                  "restarts"} -> Nat]

\* Once no backup is in progress, a server that MSM can reach saves on its own
\* again, or is about to execute the command: whatever failed, timed out or was
\* cancelled (hot.py:18-21).  Two ways out: a cancellation that falls on the wait
\* for save-off itself, outside the try; and the end of MSM, after which the
\* console of the server is lost.
SavingComesBack ==
    (\A b \in Backups : phase[b] \notin Live) /\ Reachable =>
        saving \/ "save-on" \in Range(stdin) \/ \E b \in Backups : cancelled[b] = "saveoff"

\* Nothing but one backup happened to the server: no second backup, no start, no
\* stop and no restore.
Undisturbed ==
    used["backups"] <= 1 /\ used["starts"] = 0 /\ used["stops"] = 0 /\ used["restores"] = 0

\* An archive that is kept as complete was copied from a world nobody was writing
\* (hot.py:3-6 and 18-20), for a backup that is alone: nothing keeps two of them
\* apart, nor a start or a stop from a copy.  It is about what the archive holds:
\* a file that could not be read is missing from it, and the backup is complete.
CopyIsConsistent == Undisturbed => \A b \in Completed : ~torn[b]

\* As long as MSM lives, the history never shows as complete a backup without its
\* archive, except while the purge, a deletion or a cancellation that removed the
\* file is finishing, and after one of these whose transaction failed or was rolled
\* back by a cancellation: the file goes first and the failure is only logged.
CompletedHasArchive ==
    used["restarts"] = 0 =>
        \A b \in Completed : \/ archive[b] \/ b \in deleting \/ phase[b] = "closing"
                             \/ b \in unwritten
                             \/ \E c \in Backups : b \in victims[c] \/ cancelled[c] = "purging"

\* The purge destroys an old backup only when as many newer ones as are to be kept
\* are there: a backup that does not complete costs none (backup_service.py:637).
\* Only a user destroys one of those: by deleting it, or by cancelling a backup
\* that is complete and purges.
PurgeKeepsEnough ==
    LET withdrawn == {b \in Backups : cancelled[b] \in {"purge", "purging"}}
    IN  purged => Cardinality({b \in Completed : archive[b]})
                    >= Retention - Cardinality(withdrawn) - used["deletes"]

\* What the history promises is on disk, and the purge never digs into what is to
\* be kept.
ArchivesAreKept == CompletedHasArchive /\ PurgeKeepsEnough

\* The purge may dig into it: as many newer backups were begun as are to be kept.
Outdone(b) == Cardinality({c \in Backups : c > b /\ row[c] # "none"}) >= Retention

\* The archive of what the worlds were is there, complete in the history, unless
\* the safety backup failed (the restore waits for its end and does not look at its
\* status), its row could not be written, the user deletes a backup or other
\* backups push it out.
Saved(b) ==
    \/ row[b] = "COMPLETED" /\ archive[b]
    \/ row[b] = "FAILED" /\ cancelled[b] = "no"
    \/ b \in unwritten
    \/ used["deletes"] > 0 \/ Outdone(b)

\* While a restore removes or replaces the worlds, the backup taken for it is
\* there, and so is one of them as long as the worlds are removed
\* (backup_service.py:11-13), with the exceptions of Saved.
SafetyNet ==
    /\ \A s \in Backups :
           restoring[s].phase \in {"apply", "extract"} => s \in safety /\ Saved(s)
    /\ world = "removed" => \E b \in safety : Saved(b)
================================================================================
