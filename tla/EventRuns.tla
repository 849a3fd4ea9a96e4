----------------------------- MODULE EventRuns ------------------------------
(***************************************************************************)
(* The console of a server, and those who write to it: a run of a recorded *)
(* event (events/engine.py, services/event_service.py) and a request made  *)
(* by hand beside it (an immediate action, a player action or a command),  *)
(* while the event is edited, rights change, and the server stops.         *)
(*                                                                         *)
(* A report is published, then written by a task of its own: a             *)
(* cancellation of the run interrupts the wait, never the write.  Writes   *)
(* pass one at a time, in order; each reads the row, then commits it.      *)
(* A cancellation reaches a run that has begun: its identifier is only     *)
(* known once the run is listed.  Of a command its verb is kept.           *)
(***************************************************************************)
EXTENDS Integers, SequencesExt

CONSTANTS
    Sequences,    \* the sequences of steps an event may be given
    ByHand,       \* the actions made by hand
    MaxCancels,   \* bound: cancellations
    MaxFailures,  \* bound: writes that fail
    MaxLives,     \* bound: lives of MSM
    MaxChanges    \* bound: edits of the event, changes of rights, stops of the server

ASSUME BoundsAssumption ==
    /\ MaxLives \in Nat \ {0}
    /\ MaxCancels \in Nat /\ MaxFailures \in Nat /\ MaxChanges \in Nat

Steps == UNION {Range(s) : s \in Sequences}

\* A title is shown by the action that shows one, and by no command typed as it is.
ASSUME TitlesAssumption ==
    /\ Sequences \subseteq Seq(Steps)
    /\ \A step \in Steps \cup ByHand : step \notin {"times", "subtitle", "idle"}

Running   == "RUNNING"
Completed == "COMPLETED"
Failed    == "FAILED"
Cancelled == "CANCELLED"
Statuses  == {Running, Completed, Failed, Cancelled}

VARIABLES
    event,     \* the steps of the recorded event, none once it is deleted
    rights,    \* of the author: "none", "run", or "all" with the destructive actions
    server,    \* "up", "down" or "deleted"
    times,     \* whose durations the next title is shown with
    row,       \* the EventRun row: NoRow, or its status, step and log
    pc,        \* where the task of the run is
    steps,     \* the steps of the run
    index,     \* the step the runner is at
    left,      \* the commands of this step still to be sent
    stale,     \* the runtime the run has found was replaced since
    writes,    \* reports being written: the report, and the row as read or NoRow
    hand,      \* the commands of the request by hand still to be sent, or Idle
    sent,      \* history: what the run sent to the server
    allowed,   \* history: those of its commands allowed when it was started, by position
    issued,    \* history: reports published
    mixed,     \* history: a title was shown with the durations of another
    overlap,   \* history: two titles at once, or a server stopped within one
    cancels, failures, lives, changes

world  == <<event, rights, server, changes>>
screen == <<times, mixed, overlap>>
task   == <<pc, index, left, sent>>
bounds == <<cancels, failures, lives>>
vars == <<world, screen, task, row, steps, stale, writes, hand, allowed, issued, bounds>>

NoRow == [exists |-> FALSE]
Idle  == <<"idle">>

Row(status, step, log) == [exists |-> TRUE, status |-> status, step |-> step, log |-> log]

Report(status, step) == [status |-> status, step |-> step]

Waiting == {"acting", "reporting", "failing", "completing", "closing", "refused"}

(***************************************************************************)
(* The actions: BUILTIN_ACTIONS, what they send and how dangerous it is.   *)
(***************************************************************************)
\* Mutant: the durations are set after the title.
TitleThenTimes == <<"subtitle", "title", "times">>

\* Set after the title, the durations would be those of the next one.
TitleCommands == <<"times", "subtitle", "title">>

\* DelayAction: it waits, and sends nothing.
Pause == <<>>

\* CommandAction: one command, as typed.
Single(command) == <<command>>

\* Action.execute: all the others send one command too.
Commands(step) ==
    CASE step = "title" -> TitleCommands
      [] step = "delay" -> Pause
      [] OTHER          -> Single(step)

\* parse_steps, at the recording and again at the start; the catalogue is Sequences.
ValidSteps(sequence) == sequence # <<>>

\* classify: by the verb; sensitive and destructive are both confirmed.
Harmless(command) == command \notin {"kill", "op", "stop"}

AllCommands(sequence) == FlattenSeq([i \in DOMAIN sequence |-> Commands(sequence[i])])

\* max_danger
Safe(sequence) == \A i \in DOMAIN AllCommands(sequence) : Harmless(AllCommands(sequence)[i])

\* _authorize
Authorizes(sequence, confirm) ==
    /\ rights # "none"
    /\ Safe(sequence) \/ (rights = "all" /\ confirm)

Init ==
    /\ event \in Sequences /\ rights \in {"run", "all"} /\ server = "up"
    /\ times = "none" /\ mixed = FALSE /\ overlap = FALSE
    /\ row = NoRow /\ pc = "none" /\ steps = <<>> /\ index = 0 /\ left = <<>>
    /\ stale = FALSE /\ writes = <<>> /\ hand = Idle
    /\ sent = <<>> /\ allowed = <<>> /\ issued = <<>>
    /\ cancels = 0 /\ failures = 0 /\ lives = 1 /\ changes = 0

(***************************************************************************)
(* The event, the rights and the server change beside the run.             *)
(***************************************************************************)
Changes == changes < MaxChanges /\ changes' = changes + 1

\* update_event, whose steps are validated, and delete_event: the row of a run stays.
EditEvent ==
    /\ Changes /\ event # <<>>
    /\ event' \in ({s \in Sequences : ValidSteps(s)} \cup {<<>>}) \ {event}
    /\ UNCHANGED <<rights, server, screen, task, row, steps, stale, writes, hand, allowed, issued, bounds>>

ChangeRights ==
    /\ Changes /\ rights' \in {"none", "run", "all"} \ {rights}
    /\ UNCHANGED <<event, server, screen, task, row, steps, stale, writes, hand, allowed, issued, bounds>>

InTitle(commands) == commands # <<>> /\ Last(commands) = Last(TitleCommands) /\ Len(commands) < Len(TitleCommands)

\* The server stops by itself or not; its players lose the durations.
ServerStops ==
    /\ server = "up" /\ Changes /\ server' = "down"
    /\ times' = "none" /\ overlap' = (overlap \/ InTitle(left) \/ InTitle(hand))
    /\ UNCHANGED <<event, rights, mixed, task, row, steps, stale, writes, hand, allowed, issued, bounds>>

\* It starts again, perhaps edited meanwhile: its runtime is then another one.
ServerStarts ==
    /\ server = "down" /\ server' = "up"
    /\ stale' \in {stale, pc \notin {"none", "ready"}}
    /\ UNCHANGED <<event, rights, changes, screen, task, row, steps, writes, hand, allowed, issued, bounds>>

\* The rows of its events and of their runs go with a server.
ServerDeleted ==
    /\ server = "down" /\ server' = "deleted"
    /\ event' = <<>> /\ row' = NoRow
    /\ UNCHANGED <<rights, changes, screen, task, steps, stale, writes, hand, allowed, issued, bounds>>

(***************************************************************************)
(* The console.                                                            *)
(***************************************************************************)
\* What the players see of a command.
Shows(command, by) ==
    /\ times' = IF command = "times" THEN by ELSE times
    /\ mixed' = (mixed \/ (command = "title" /\ times # by))

\* A request made beside the run; the rights were checked, the server is there.
HandBegins(commands) ==
    /\ hand = Idle /\ server = "up"
    /\ hand' = commands
    /\ overlap' = (overlap \/ (commands = TitleCommands /\ pc = "acting" /\ steps[index] = "title"))
    /\ UNCHANGED <<world, times, mixed, task, row, steps, stale, writes, allowed, issued, bounds>>

\* run_quick: an action of the catalogue, with no history.
QuickAction(step) == Authorizes(<<step>>, TRUE) /\ HandBegins(Commands(step))

\* ConsoleService.send_command: a command as it is typed.
ConsoleCommand(command) == (Harmless(command) \/ rights = "all") /\ HandBegins(<<command>>)

\* PlayerService._act: the right for this action is enough, nothing is confirmed.
PlayerAction(command) == rights # "none" /\ HandBegins(<<command>>)

HandSends ==
    /\ hand \notin {Idle, <<>>} /\ server = "up"
    /\ hand' = Tail(hand) /\ Shows(Head(hand), "hand")
    /\ UNCHANGED <<world, overlap, task, row, steps, stale, writes, allowed, issued, bounds>>

\* The trace of the request is committed; a request that fails is given up, its trace too.
HandEnds ==
    /\ hand # Idle /\ (hand # <<>> => server # "up")
    /\ hand' = Idle
    /\ UNCHANGED <<world, screen, task, row, steps, stale, writes, allowed, issued, bounds>>

(***************************************************************************)
(* The run.                                                                *)
(***************************************************************************)
\* What rights and confirmation allow of a sequence.
Allowed(sequence, confirm) ==
    LET commands == AllCommands(sequence)
    IN  [i \in {j \in DOMAIN commands : Harmless(commands[j]) \/ (rights = "all" /\ confirm)} |->
            commands[i]]

\* start_run commits the row, and creates the task with the steps it has read.
Start(confirm) ==
    /\ pc = "none" /\ server = "up"
    /\ ValidSteps(event) /\ Authorizes(event, confirm)
    /\ row' = Row(Running, 0, <<>>)
    /\ pc' = "ready" /\ steps' = event
    /\ allowed' = Allowed(event, confirm)
    /\ UNCHANGED <<world, screen, index, left, sent, stale, writes, hand, issued, bounds>>

\* report: published, then handed to a task that writes it.
Issue(report) ==
    /\ issued' = Append(issued, report)
    /\ writes' = Append(writes, [report |-> report, read |-> NoRow])

\* _execute_run: the server is there, or was removed meanwhile.
Begin ==
    /\ pc = "ready"
    /\ IF server = "deleted" THEN Issue(Report(Failed, 0)) /\ pc' = "refused"
                             ELSE Issue(Report(Running, 0)) /\ pc' = "reporting"
    /\ UNCHANGED <<world, screen, row, steps, index, left, sent, stale, hand, allowed, bounds>>

Reported == writes = <<>>

\* Mutant: the steps are those of the event as it is now.
StepAtNow(i) == IF i \in DOMAIN event THEN event[i] ELSE steps[i]

StepAt(i) == steps[i]

NextStep ==
    /\ pc = "reporting" /\ Reported /\ index < Len(steps)
    /\ pc' = "acting" /\ index' = index + 1 /\ left' = Commands(StepAt(index + 1))
    /\ overlap' = (overlap \/ (StepAt(index + 1) = "title" /\ hand # Idle))
    /\ UNCHANGED <<world, times, mixed, row, steps, sent, stale, writes, hand, allowed, issued, bounds>>

Completes ==
    /\ pc = "reporting" /\ Reported /\ index = Len(steps)
    /\ pc' = "completing" /\ Issue(Report(Completed, index))
    /\ UNCHANGED <<world, screen, row, steps, index, left, sent, stale, hand, allowed, bounds>>

\* The command leaves, through the runtime the run has found.
Sends ==
    /\ pc = "acting" /\ left # <<>> /\ server = "up" /\ ~stale
    /\ sent' = Append(sent, Head(left)) /\ left' = Tail(left)
    /\ Shows(Head(left), "run")
    /\ UNCHANGED <<world, overlap, row, pc, steps, index, stale, writes, hand, allowed, issued, bounds>>

StepDone ==
    /\ pc = "acting" /\ left = <<>> /\ pc' = "reporting"
    /\ Issue(Report(Running, index))
    /\ UNCHANGED <<world, screen, row, steps, index, left, sent, stale, hand, allowed, bounds>>

\* Its console is closed; or cannot be written to.
StepFails ==
    /\ pc = "acting" /\ left # <<>> /\ pc' = "failing"
    /\ Issue(Report(Failed, index)) /\ left' = <<>>
    /\ UNCHANGED <<world, screen, row, steps, index, sent, stale, hand, allowed, bounds>>

Ends ==
    /\ pc \in {"failing", "completing", "closing", "refused"} /\ Reported
    /\ pc' = "done"
    /\ UNCHANGED <<world, screen, row, steps, index, left, sent, stale, writes, hand, allowed, issued, bounds>>

(***************************************************************************)
(* cancel_run: the cancellation is raised where the task waits.            *)
(***************************************************************************)
\* Mutant: only the action is inside the try.
ReportsCancellationWhileActing == pc = "acting"

\* Inside the try of EventRunner.run, a cancellation is reported; the report
\* of a completion, and that of the cancellation itself, are outside.
ReportsCancellation == pc \in {"acting", "reporting", "failing"}

Cancel ==
    /\ cancels < MaxCancels /\ cancels' = cancels + 1
    /\ pc \in Waiting /\ rights # "none"
    /\ IF ReportsCancellation
       THEN pc' = "closing" /\ Issue(Report(Cancelled, index))
       ELSE pc' = "done" /\ UNCHANGED <<writes, issued>>
    /\ left' = <<>>
    /\ \/ UNCHANGED <<sent, screen>>
       \/ /\ left # <<>> /\ server = "up" /\ ~stale      \* the command had left
          /\ sent' = Append(sent, Head(left))
          /\ Shows(Head(left), "run") /\ UNCHANGED overlap
    /\ UNCHANGED <<world, row, steps, index, stale, hand, allowed, failures, lives>>

(***************************************************************************)
(* persist.                                                                *)
(***************************************************************************)
\* The lock is given in the order it was asked for.
HoldsLock(i) == i = 1 /\ writes # <<>>

Read(i) ==
    /\ HoldsLock(i) /\ ~writes[i].read.exists /\ row.exists
    /\ writes' = [writes EXCEPT ![i].read = row]
    /\ UNCHANGED <<world, screen, task, row, steps, stale, hand, allowed, issued, bounds>>

\* Mutant: the step is not written.
WrittenStatus(read, report) == Row(report.status, read.step, Append(read.log, report))

Written(read, report) ==
    Row(IF report.status = Running THEN read.status ELSE report.status,
        report.step, Append(read.log, report))

Commit(i) ==
    /\ HoldsLock(i) /\ writes[i].read.exists /\ row.exists
    /\ row' = Written(writes[i].read, writes[i].report)
    /\ writes' = RemoveAt(writes, i)
    /\ UNCHANGED <<world, screen, task, steps, stale, hand, allowed, issued, bounds>>

\* The row went with the server, before it was read or after.
NothingToWrite(i) ==
    /\ HoldsLock(i) /\ ~row.exists
    /\ writes' = RemoveAt(writes, i)
    /\ UNCHANGED <<world, screen, task, row, steps, stale, hand, allowed, issued, bounds>>

\* A write that fails is logged, and the run goes on.
WriteFails(i) ==
    /\ HoldsLock(i)
    /\ failures < MaxFailures /\ failures' = failures + 1
    /\ writes' = RemoveAt(writes, i)
    /\ UNCHANGED <<world, screen, task, row, steps, stale, hand, allowed, issued, cancels, lives>>

(***************************************************************************)
(* MSM stops, and its next life closes what was left running.              *)
(***************************************************************************)
Interrupted(r) == IF r.exists /\ r.status = Running THEN [r EXCEPT !.status = Failed] ELSE r

MsmRestarts ==
    /\ lives < MaxLives /\ lives' = lives + 1
    /\ pc' = IF pc = "none" THEN "none" ELSE "done"
    /\ left' = <<>> /\ writes' = <<>> /\ hand' = Idle
    /\ overlap' = (overlap \/ InTitle(left) \/ InTitle(hand))
    /\ row' = Interrupted(row)
    /\ UNCHANGED <<world, times, mixed, steps, index, sent, stale, allowed, issued, cancels, failures>>

Writes(i) == Read(i) \/ Commit(i) \/ NothingToWrite(i)

\* The routes of the events, each with the rights its service checks.
EventRequests ==
    \/ EditEvent
    \/ \E step \in ByHand : QuickAction(step)
    \/ \E confirm \in BOOLEAN : Start(confirm)

\* The routes of the players: op, deop, kick, ban, kill, give, teleport.
PlayerRequests == \E command \in ByHand \ {"title"} : PlayerAction(command)

\* The route of the console.
ConsoleRequests == \E command \in ByHand \ {"title"} : ConsoleCommand(command)

Next ==
    \/ ChangeRights \/ ServerStops \/ ServerStarts \/ ServerDeleted
    \/ EventRequests \/ PlayerRequests \/ ConsoleRequests \/ HandSends \/ HandEnds
    \/ Begin \/ NextStep \/ Completes \/ Sends \/ StepDone \/ StepFails \/ Ends
    \/ Cancel \/ MsmRestarts
    \/ \E i \in DOMAIN writes : Writes(i) \/ WriteFails(i)

Spec == Init /\ [][Next]_vars

\* The event loop runs what is ready, the actions and the database answer.
Fairness ==
    /\ WF_vars(Begin) /\ WF_vars(NextStep \/ Completes)
    /\ WF_vars(Sends \/ StepDone \/ StepFails) /\ WF_vars(Ends)
    /\ WF_vars(\E i \in DOMAIN writes : Writes(i))

FairSpec == Spec /\ Fairness

-----------------------------------------------------------------------------
Over == row.exists /\ row.status # Running

\* The commands of the first steps of the run.
UpTo(i) == Len(AllCommands(SubSeq(steps, 1, i)))

RowIsTrue ==
    /\ row.exists /\ row.status = Completed => sent = AllCommands(steps)
    /\ row.exists /\ row.status \in {Failed, Cancelled} /\ writes = <<>>
       /\ pc = "done" /\ lives = 1 /\ failures = 0 =>
          Len(sent) \in UpTo(row.step - 1) .. UpTo(row.step)

\* What the history says of a run that ended is what the server received: all of a
\* completed one, and for the others the steps before the one named, that one in part
\* perhaps, and none beyond.  It is written once: "le compte rendu d'annulation ne doit
\* pas écraser celui de l'étape encore en cours d'écriture", but for a cancellation during
\* the report of a failed step, which replaces FAILED.
HistoryIsTrue ==
    [][/\ RowIsTrue'
       /\ Over /\ row'.exists => \/ row'.status = row.status
                                 \/ (row.status = Failed /\ row'.status = Cancelled)]_vars

\* What a run sends is what its author was allowed to, and confirmed, when it was
\* started, whatever becomes of the event and of the rights: start_run,
\* "l'utilisateur s'apprête réellement à faire".
OnlyWhatWasAllowed == \A i \in DOMAIN sent : i \in DOMAIN allowed /\ sent[i] = allowed[i]

\* A title is shown with the durations set for it, but when two titles are being sent
\* at once, or the server or MSM stops within one: TitleAction.execute, "les durées
\* d'affichage sont réglées avant le titre".
TitlesKeepTheirTimes == mixed => overlap

\* A run never stays in progress in the history, whatever is cancelled and
\* whenever MSM stops, as long as the database writes and the server is there:
\* "laisserait sinon l'exécution éternellement « en cours » dans l'historique".
HistoryCloses == pc = "ready" ~> Over \/ failures > 0 \/ server = "deleted"
=============================================================================
